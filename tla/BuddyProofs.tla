---------------------------- MODULE BuddyProofs ----------------------------
(***************************************************************************)
(* The buddy system keeps every frame in one block, loses none, merges     *)
(* completely, and implements FrameAllocator: for every set of regions,    *)
(* number of orders and sequence of calls.  The first part is about what   *)
(* splitting and merging do to sets of blocks, the second about the free   *)
(* lists and the calls.  Induction over the orders goes through the least  *)
(* element of a set of numbers (WFMin), which the provers can instantiate. *)
(***************************************************************************)
EXTENDS Buddy, Integers, WellFoundedInduction, TLAPS

----------------------------------------------------------------------------
(* Natural numbers *)

(* A set of numbers has a least element. *)
LEMMA LeastNat ==
    ASSUME NEW S \in SUBSET Nat, S # {}
    PROVE  \E x \in S : \A y \in S : x <= y
<1> DEFINE R == OpToRel(<, Nat)
<1>1. IsWellFoundedOn(R, Nat)
  BY NatLessThanWellFounded, Zenon
<1>2. \A x, y \in Nat : x < y => <<x, y>> \in R
  BY DEF OpToRel
<1> HIDE DEF R
<1>3. PICK x \in S : \A y \in S : ~(<<y, x>> \in R)
  BY <1>1, WFMin, Zenon
<1>4. ASSUME NEW y \in S
      PROVE  x <= y
  <2>1. ~(y < x)
    BY <1>2, <1>3, Zenon
  <2>2. QED
    BY <2>1
<1>5. QED
  BY <1>4

(* Induction, for a property given as the set of the numbers that have it *)
LEMMA Induction ==
    ASSUME NEW P, 0 \in P, \A n \in Nat : n \in P => n + 1 \in P
    PROVE  \A n \in Nat : n \in P
<1> DEFINE S == Nat \ P
<1> SUFFICES ASSUME S # {}
             PROVE  FALSE
  OBVIOUS
<1>1. PICK x \in S : \A y \in S : x <= y
  BY LeastNat, Zenon
<1>2. x # 0 /\ x \in Nat
  OBVIOUS
<1>3. x - 1 \in Nat /\ x - 1 < x /\ (x - 1) + 1 = x
  BY <1>2
<1>4. x - 1 \in P
  BY <1>1, <1>3
<1>5. QED
  BY <1>3, <1>4

(* Division with remainder, and what the remainder of a sum is *)
LEMMA Division ==
    ASSUME NEW p \in Nat, NEW b \in Nat \ {0}
    PROVE  /\ p % b \in 0 .. b - 1
           /\ \E q \in Nat : p = q * b + (p % b)
<1>1. p % b \in 0 .. b - 1
  OBVIOUS
<1>2. p \div b \in Nat
  OBVIOUS
<1>3. p = (p \div b) * b + (p % b)
  OBVIOUS
<1>4. QED
  BY <1>1, <1>2, <1>3, Zenon

LEMMA ProductGap ==
    ASSUME NEW b \in Nat \ {0}, NEW q \in Nat, NEW d \in Nat, q < d
    PROVE  q * b + b <= d * b
<1>1. PICK e \in Nat : d = q + 1 + e
  <2>1. d - q - 1 \in Nat /\ d = q + 1 + (d - q - 1)
    OBVIOUS
  <2>2. QED
    BY <2>1
<1>2. d * b = q * b + b + e * b
  BY <1>1
<1>3. e * b \in Nat /\ q * b \in Nat
  OBVIOUS
<1>4. QED
  BY <1>2, <1>3

LEMMA Remainder ==
    ASSUME NEW b \in Nat \ {0}, NEW q \in Nat, NEW r \in 0 .. b - 1
    PROVE  (q * b + r) % b = r
<1>1. PICK p \in Nat : p = q * b + r
  <2>1. q * b \in Nat
    OBVIOUS
  <2>2. QED
    BY <2>1
<1>2. p % b \in 0 .. b - 1
  BY Division
<1>3. PICK d \in Nat : p = d * b + (p % b)
  BY Division, Zenon
<1>4. q * b \in Nat /\ d * b \in Nat
  OBVIOUS
<1>5. ~(q < d)
  <2> SUFFICES ASSUME q < d
               PROVE  FALSE
    OBVIOUS
  <2>1. q * b + b <= d * b
    BY ProductGap
  <2>2. QED
    BY <2>1, <1>1, <1>2, <1>3, <1>4
<1>6. ~(d < q)
  <2> SUFFICES ASSUME d < q
               PROVE  FALSE
    OBVIOUS
  <2>1. d * b + b <= q * b
    BY ProductGap
  <2>2. QED
    BY <2>1, <1>1, <1>2, <1>3, <1>4
<1>7. d = q
  BY <1>5, <1>6
<1>8. p % b = r
  BY <1>1, <1>2, <1>3, <1>4, <1>7
<1>9. QED
  BY <1>8, <1>1

----------------------------------------------------------------------------
(* The function block_pages: the powers of two *)

IsPow(f, n) ==
    /\ f \in [0 .. n -> Nat]
    /\ f[0] = 1
    /\ \A k \in 1 .. n : f[k] = 2 * f[k - 1]

LEMMA PowExists == \A n \in Nat : \E f : IsPow(f, n)
<1> DEFINE P == {n \in Nat : \E f : IsPow(f, n)}
<1>1. 0 \in P
  <2>1. IsPow([k \in 0 .. 0 |-> 1], 0)
    BY DEF IsPow
  <2>2. QED
    BY <2>1
<1>2. ASSUME NEW n \in Nat, n \in P
      PROVE  n + 1 \in P
  <2>1. PICK f : IsPow(f, n)
    BY <1>2
  <2> DEFINE g == [k \in 0 .. n + 1 |-> IF k = n + 1 THEN 2 * f[n] ELSE f[k]]
  <2>2. g \in [0 .. n + 1 -> Nat]
    BY <2>1 DEF IsPow
  <2>3. g[0] = 1
    BY <2>1 DEF IsPow
  <2>4. ASSUME NEW k \in 1 .. n + 1
        PROVE  g[k] = 2 * g[k - 1]
    <3>1. CASE k = n + 1
      BY <3>1
    <3>2. CASE k # n + 1
      <4>1. k \in 1 .. n /\ k - 1 \in 0 .. n /\ k - 1 # n + 1
        BY <3>2
      <4>2. f[k] = 2 * f[k-1]
        BY <4>1, <2>1 DEF IsPow
      <4>3. g[k] = f[k] /\ g[k-1] = f[k-1]
        BY <4>1, <3>2
      <4>4. QED
        BY <4>2, <4>3
    <3>3. QED
      BY <3>1, <3>2
  <2> HIDE DEF g
  <2>5. IsPow(g, n + 1)
    BY <2>2, <2>3, <2>4 DEF IsPow
  <2>6. QED
    BY <2>5
<1> HIDE DEF P
<1>3. \A n \in Nat : n \in P
  BY <1>1, <1>2, Induction
<1>4. QED
  BY <1>3 DEF P

LEMMA PowUnique ==
    ASSUME NEW m \in Nat, NEW n \in Nat, NEW f, NEW g, IsPow(f, m), IsPow(g, n)
    PROVE  \A k \in Nat : k <= m /\ k <= n => f[k] = g[k]
<1> DEFINE P == {k \in Nat : k <= m /\ k <= n => f[k] = g[k]}
<1>1. 0 \in P
  BY DEF IsPow
<1>2. ASSUME NEW k \in Nat, k \in P
      PROVE  k + 1 \in P
  <2> SUFFICES ASSUME k + 1 <= m, k + 1 <= n
               PROVE  f[k + 1] = g[k + 1]
    OBVIOUS
  <2>1. f[k] = g[k]
    BY <1>2
  <2>2. k + 1 \in 1 .. m /\ k + 1 \in 1 .. n /\ (k + 1) - 1 = k
    OBVIOUS
  <2>3. QED
    BY <2>1, <2>2 DEF IsPow
<1> HIDE DEF P
<1>3. \A k \in Nat : k \in P
  BY <1>1, <1>2, Induction
<1>4. QED
  BY <1>3 DEF P

(* block_pages satisfies its own equation: such a function exists. *)
LEMMA BlockPagesEquation ==
    block_pages = [order \in Nat |-> IF order = 0 THEN 1 ELSE 2 * block_pages[order - 1]]
<1> DEFINE h == [n \in Nat |-> (CHOOSE f : IsPow(f, n))[n]]
           Body(f) == [order \in Nat |-> IF order = 0 THEN 1 ELSE 2 * f[order - 1]]
<1>1. \A n \in Nat : IsPow(CHOOSE f : IsPow(f, n), n)
  BY PowExists
<1>2. ASSUME NEW n \in Nat
      PROVE  h[n] = IF n = 0 THEN 1 ELSE 2 * h[n - 1]
  <2>1. CASE n = 0
    BY <2>1, <1>1, Zenon DEF IsPow
  <2>2. CASE n # 0
    <3>1. n - 1 \in Nat
      BY <2>2
    <3> DEFINE u == CHOOSE f : IsPow(f, n)
               v == CHOOSE f : IsPow(f, n - 1)
    <3>2. IsPow(u, n) /\ IsPow(v, n - 1)
      BY <1>1, <3>1
    <3>3. h[n] = u[n] /\ h[n - 1] = v[n - 1]
      BY <3>1
    <3> HIDE DEF u, v, h
    <3>4. u[n - 1] = v[n - 1]
      BY <3>1, <3>2, PowUnique
    <3>5. u[n] = 2 * u[n - 1]
      BY <3>1, <3>2, <2>2 DEF IsPow
    <3>6. QED
      BY <3>3, <3>4, <3>5, <2>2
  <2>3. QED
    BY <2>1, <2>2
<1>3. h = Body(h)
  <2>1. h = [n \in Nat |-> h[n]]
    OBVIOUS
  <2> HIDE DEF h
  <2>2. QED
    BY <2>1, <1>2, Zenon
<1>4. block_pages = CHOOSE f : f = Body(f)
  BY DEF block_pages
<1> HIDE DEF h
<1>5. block_pages = Body(block_pages)
  <2> HIDE DEF Body
  <2>1. QED
    BY <1>3, <1>4
<1>6. QED
  BY <1>5

LEMMA BlockPages ==
    /\ block_pages[0] = 1
    /\ \A k \in Nat : block_pages[k] \in Nat \ {0}
    /\ \A k \in Nat : block_pages[k + 1] = 2 * block_pages[k]
    /\ \A k \in Nat : block_pages[k] > k
<1>1. block_pages[0] = 1
  BY BlockPagesEquation
<1>2. ASSUME NEW k \in Nat
      PROVE  block_pages[k + 1] = 2 * block_pages[k]
  <2>1. k + 1 \in Nat /\ k + 1 # 0 /\ (k + 1) - 1 = k
    OBVIOUS
  <2>2. block_pages[k + 1] = 2 * block_pages[(k + 1) - 1]
    BY <2>1, BlockPagesEquation
  <2>3. QED
    BY <2>1, <2>2
<1> DEFINE P == {k \in Nat : block_pages[k] \in Nat /\ block_pages[k] > k}
<1>3. 0 \in P
  BY <1>1
<1>4. ASSUME NEW k \in Nat, k \in P
      PROVE  k + 1 \in P
  BY <1>2, <1>4
<1> HIDE DEF P
<1>5. \A k \in Nat : k \in P
  BY <1>3, <1>4, Induction
<1>6. QED
  BY <1>1, <1>2, <1>5 DEF P

----------------------------------------------------------------------------
(* Aligned blocks: at every order, every frame is in exactly one. *)

LEMMA BlockOf ==
    ASSUME NEW p \in Nat, NEW k \in Nat
    PROVE  /\ block_of(p, k) \in Nat
           /\ Aligned(block_of(p, k), k)
           /\ block_of(p, k) <= p
           /\ p < block_of(p, k) + block_pages[k]
<1>1. PICK n \in Nat \ {0} : n = block_pages[k]
  BY BlockPages
<1>2. p % n \in 0 .. n - 1
  BY Division
<1>3. PICK q \in Nat : p = q * n + (p % n)
  BY Division, Zenon
<1>4. PICK m \in Nat : m = q * n
  OBVIOUS
<1>5. p - (p % n) = m
  BY <1>2, <1>3, <1>4
<1>6. (q * n + 0) % n = 0
  <2>1. 0 \in 0 .. n - 1
    OBVIOUS
  <2>2. QED
    BY <2>1, Remainder
<1>7. m % n = 0
  BY <1>4, <1>6
<1>8. block_of(p, k) = m
  BY <1>1, <1>5 DEF block_of
<1>9. Aligned(m, k)
  BY <1>1, <1>7 DEF Aligned
<1>10. QED
  BY <1>1, <1>2, <1>5, <1>8, <1>9

LEMMA BlockOfUnique ==
    ASSUME NEW b \in Nat, NEW f \in Nat, NEW k \in Nat,
           Aligned(b, k), b <= f, f < b + block_pages[k]
    PROVE  block_of(f, k) = b
<1>1. PICK n \in Nat \ {0} : n = block_pages[k]
  BY BlockPages
<1>2. PICK q \in Nat : b = q * n + (b % n)
  BY Division, Zenon
<1>3. b % n = 0
  BY <1>1 DEF Aligned
<1>4. b = q * n
  BY <1>2, <1>3
<1>5. PICK r \in 0 .. n - 1 : f = b + r
  <2>1. f - b \in 0 .. n - 1 /\ f = b + (f - b)
    BY <1>1
  <2>2. QED
    BY <2>1
<1>6. (q * n + r) % n = r
  BY Remainder
<1>7. f % n = r
  BY <1>4, <1>5, <1>6
<1>8. f - (f % n) = b
  BY <1>5, <1>7
<1>9. QED
  BY <1>1, <1>8 DEF block_of

LEMMA AlignedHalves ==
    ASSUME NEW p \in Nat, NEW k \in Nat, Aligned(p, k + 1)
    PROVE  Aligned(p, k) /\ Aligned(p + block_pages[k], k)
<1>1. PICK n \in Nat \ {0} : n = block_pages[k]
  BY BlockPages
<1>2. PICK m \in Nat \ {0} : m = block_pages[k + 1] /\ m = 2 * n
  BY <1>1, BlockPages
<1>3. PICK q \in Nat : p = q * m + (p % m)
  BY Division, Zenon
<1>4. p % m = 0
  BY <1>2 DEF Aligned
<1>5. p = q * m
  BY <1>3, <1>4
<1>6. p = (2 * q) * n + 0 /\ p + n = (2 * q + 1) * n + 0
  BY <1>2, <1>5
<1>7. 2 * q \in Nat /\ 2 * q + 1 \in Nat /\ 0 \in 0 .. n - 1
  OBVIOUS
<1>8. ((2 * q) * n + 0) % n = 0
  <2>1. PICK d \in Nat : d = 2 * q
    BY <1>7
  <2>2. (d * n + 0) % n = 0
    BY <1>7, Remainder
  <2>3. QED
    BY <2>1, <2>2
<1>9. ((2 * q + 1) * n + 0) % n = 0
  <2>1. PICK d \in Nat : d = 2 * q + 1
    BY <1>7
  <2>2. (d * n + 0) % n = 0
    BY <1>7, Remainder
  <2>3. QED
    BY <2>1, <2>2
<1>10. p % n = 0 /\ (p + n) % n = 0
  BY <1>6, <1>8, <1>9
<1>11. QED
  BY <1>1, <1>10 DEF Aligned

(* A block and its buddy are the halves of the block an order above. *)
LEMMA BlockAndBuddy ==
    ASSUME NEW p \in Nat, NEW k \in Nat
    PROVE  /\ block_pages[k + 1] = 2 * block_pages[k]
           /\ buddy_of(p, k) \in Nat
           /\ Aligned(buddy_of(p, k), k)
           /\ \/ /\ block_of(p, k) = block_of(p, k + 1)
                 /\ buddy_of(p, k) = block_of(p, k + 1) + block_pages[k]
              \/ /\ block_of(p, k) = block_of(p, k + 1) + block_pages[k]
                 /\ buddy_of(p, k) = block_of(p, k + 1)
<1>1. PICK n \in Nat \ {0} : n = block_pages[k] /\ block_pages[k + 1] = 2 * n
  BY BlockPages
<1>2. PICK P \in Nat : P = block_of(p, k + 1)
  BY BlockOf
<1>3. Aligned(P, k + 1) /\ P <= p /\ p < P + 2 * n
  <2>1. k + 1 \in Nat
    OBVIOUS
  <2>2. Aligned(block_of(p, k + 1), k + 1)
    BY <2>1, BlockOf
  <2>3. block_of(p, k + 1) <= p /\ p < block_of(p, k + 1) + block_pages[k + 1]
    BY <2>1, BlockOf, Zenon
  <2>4. QED
    BY <1>1, <1>2, <2>2, <2>3
<1>4. Aligned(P, k) /\ Aligned(P + n, k)
  BY <1>1, <1>3, AlignedHalves
<1>5. CASE p < P + n
  <2>1. block_of(p, k) = P
    BY <1>1, <1>3, <1>4, <1>5, BlockOfUnique
  <2>2. buddy_of(p, k) = P + n
    BY <1>1, <1>3, <2>1 DEF buddy_of
  <2>3. QED
    BY <1>1, <1>2, <1>4, <2>1, <2>2
<1>6. CASE ~(p < P + n)
  <2>1. P + n \in Nat /\ P + n <= p /\ p < (P + n) + n
    BY <1>3, <1>6
  <2>2. block_of(p, k) = P + n
    BY <1>1, <1>4, <2>1, BlockOfUnique
  <2>3. ~Aligned(P + n, k + 1)
    <3> SUFFICES ASSUME Aligned(P + n, k + 1)
                 PROVE  FALSE
      OBVIOUS
    <3>1. block_of(P + n, k + 1) = P + n
      BY <1>1, <2>1, BlockOfUnique
    <3>2. block_of(P + n, k + 1) = P
      BY <1>1, <1>3, <2>1, BlockOfUnique
    <3>3. QED
      BY <3>1, <3>2
  <2>4. buddy_of(p, k) = P
    BY <1>1, <2>2, <2>3 DEF buddy_of
  <2>5. QED
    BY <1>1, <1>2, <1>4, <2>2, <2>4
<1>7. QED
  BY <1>5, <1>6
LEMMA InFrames ==
    ASSUME NEW p \in Nat, NEW k \in Nat, NEW f
    PROVE  f \in Frames(p, k) <=> f \in Nat /\ p <= f /\ f < p + block_pages[k]
BY BlockPages DEF Frames

(* A block is its own block, and the buddy of its buddy. *)
LEMMA OfABlock ==
    ASSUME NEW b \in Nat, NEW k \in Nat, Aligned(b, k)
    PROVE  /\ block_of(b, k) = b
           /\ buddy_of(b, k) # b
           /\ buddy_of(buddy_of(b, k), k) = b
<1>1. block_pages[k] \in Nat \ {0} /\ b < b + block_pages[k]
  BY BlockPages
<1>2. block_of(b, k) = b
  BY <1>1, BlockOfUnique
<1> DEFINE c == buddy_of(b, k)
           P == block_of(b, k + 1)
<1>3. k + 1 \in Nat
  OBVIOUS
<1>4. P \in Nat /\ Aligned(P, k + 1)
  BY <1>3, BlockOf, Zenon
<1>5. c \in Nat /\ Aligned(c, k) /\ block_pages[k + 1] = 2 * block_pages[k]
  BY BlockAndBuddy
<1>6. \/ b = P /\ c = P + block_pages[k]
      \/ b = P + block_pages[k] /\ c = P
  BY <1>2, BlockAndBuddy, Zenon
<1>7. block_of(c, k) = c
  <2>1. c < c + block_pages[k]
    BY <1>1, <1>5
  <2>2. QED
    BY <1>5, <2>1, BlockOfUnique
<1> HIDE DEF c, P
<1>8. block_of(c, k + 1) = P
  <2>1. P <= c /\ c < P + block_pages[k + 1]
    BY <1>1, <1>4, <1>5, <1>6
  <2>2. QED
    BY <1>3, <1>4, <1>5, <2>1, BlockOfUnique
<1>9. \/ c = P /\ buddy_of(c, k) = P + block_pages[k]
      \/ c = P + block_pages[k] /\ buddy_of(c, k) = P
  BY <1>5, <1>7, <1>8, BlockAndBuddy, Zenon
<1>10. c # b /\ buddy_of(c, k) = b
  BY <1>1, <1>4, <1>6, <1>9
<1>11. QED
  BY <1>2, <1>10 DEF c

(* What is aligned to an order is aligned to the orders below. *)
LEMMA AlignedBelow ==
    ASSUME NEW p \in Nat, NEW j \in Nat, NEW k \in Nat, j <= k, Aligned(p, k)
    PROVE  Aligned(p, j)
<1> DEFINE S == {d \in Nat : Aligned(p, j + d) => Aligned(p, j)}
<1>1. 0 \in S
  OBVIOUS
<1>2. ASSUME NEW d \in Nat, d \in S
      PROVE  d + 1 \in S
  <2>1. j + d \in Nat /\ j + (d + 1) = (j + d) + 1
    OBVIOUS
  <2>2. Aligned(p, (j + d) + 1) => Aligned(p, j + d)
    BY <2>1, AlignedHalves
  <2>3. QED
    BY <1>2, <2>1, <2>2
<1> HIDE DEF S
<1>3. \A d \in Nat : d \in S
  BY <1>1, <1>2, Induction
<1>4. k - j \in Nat /\ j + (k - j) = k
  OBVIOUS
<1>5. QED
  BY <1>3, <1>4 DEF S

(* The blocks of a frame are nested. *)
LEMMA Nested ==
    ASSUME NEW p \in Nat, NEW j \in Nat, NEW k \in Nat, j <= k
    PROVE  /\ Frames(block_of(p, j), j) \subseteq Frames(block_of(p, k), k)
           /\ block_of(block_of(p, j), k) = block_of(p, k)
<1> DEFINE lower(i) == block_of(p, i)
           upper(i) == block_of(p, i) + block_pages[i]
           S == {d \in Nat : lower(j + d) <= lower(j) /\ upper(j) <= upper(j + d)}
<1>1. \A i \in Nat : /\ lower(i) \in Nat
                     /\ upper(i) \in Nat
                     /\ lower(i) < upper(i)
                     /\ Aligned(lower(i), i)
  <2> SUFFICES ASSUME NEW i \in Nat
               PROVE  /\ lower(i) \in Nat
                      /\ upper(i) \in Nat
                      /\ lower(i) < upper(i)
                      /\ Aligned(lower(i), i)
    OBVIOUS
  <2>1. block_of(p, i) \in Nat /\ Aligned(block_of(p, i), i)
    BY BlockOf
  <2>2. block_pages[i] \in Nat \ {0}
    BY BlockPages
  <2>3. QED
    BY <2>1, <2>2
<1>2. \A i \in Nat : lower(i + 1) <= lower(i) /\ upper(i) <= upper(i + 1)
  <2> SUFFICES ASSUME NEW i \in Nat
               PROVE  lower(i + 1) <= lower(i) /\ upper(i) <= upper(i + 1)
    OBVIOUS
  <2>1. block_pages[i] \in Nat /\ block_of(p, i) \in Nat
    BY BlockOf, BlockPages, Zenon
  <2>2. i + 1 \in Nat
    OBVIOUS
  <2>3. block_of(p, i + 1) \in Nat
    BY <2>2, BlockOf
  <2>4. /\ block_pages[i + 1] = 2 * block_pages[i]
        /\ \/ block_of(p, i) = block_of(p, i + 1)
           \/ block_of(p, i) = block_of(p, i + 1) + block_pages[i]
    BY BlockAndBuddy
  <2>5. QED
    BY <2>1, <2>3, <2>4
<1> HIDE DEF lower, upper
<1>3. 0 \in S
  BY <1>1
<1>4. ASSUME NEW d \in Nat, d \in S
      PROVE  d + 1 \in S
  <2>1. j + d \in Nat /\ j + (d + 1) = (j + d) + 1
    OBVIOUS
  <2>2. lower((j + d) + 1) <= lower(j + d) /\ upper(j + d) <= upper((j + d) + 1)
    BY <1>2, <2>1
  <2>3. QED
    BY <1>1, <1>4, <2>1, <2>2
<1> HIDE DEF S
<1>5. \A d \in Nat : d \in S
  BY <1>3, <1>4, Induction
<1>6. k - j \in Nat /\ j + (k - j) = k
  OBVIOUS
<1>7. lower(k) <= lower(j) /\ upper(j) <= upper(k)
  BY <1>5, <1>6 DEF S
<1>8. Frames(block_of(p, j), j) \subseteq Frames(block_of(p, k), k)
  <2> SUFFICES ASSUME NEW f \in Frames(block_of(p, j), j)
               PROVE  f \in Frames(block_of(p, k), k)
    OBVIOUS
  <2>1. f \in Nat /\ lower(j) <= f /\ f < upper(j)
    BY <1>1, InFrames DEF lower, upper
  <2>2. lower(k) <= f /\ f < upper(k)
    BY <1>1, <1>7, <2>1
  <2>3. QED
    BY <1>1, <2>1, <2>2, InFrames DEF lower, upper
<1>9. block_of(lower(j), k) = lower(k)
  <2>1. lower(j) \in Nat /\ lower(k) \in Nat /\ Aligned(lower(k), k)
    BY <1>1
  <2>2. lower(k) <= lower(j) /\ lower(j) < upper(k)
    BY <1>1, <1>7
  <2>3. lower(k) + block_pages[k] = upper(k)
    BY DEF lower, upper
  <2>4. lower(j) < lower(k) + block_pages[k]
    BY <2>2, <2>3
  <2>5. QED
    BY <2>1, <2>2, <2>4, BlockOfUnique
<1>10. QED
  BY <1>8, <1>9 DEF lower

LEMMA Halves ==
    ASSUME NEW p \in Nat, NEW k \in Nat
    PROVE  /\ Frames(block_of(p, k + 1), k + 1) =
                  Frames(block_of(p, k), k) \cup Frames(buddy_of(p, k), k)
           /\ Frames(block_of(p, k), k) \cap Frames(buddy_of(p, k), k) = {}
<1> DEFINE P == block_of(p, k + 1)
           b == block_of(p, k)
           c == buddy_of(p, k)
           n == block_pages[k]
<1>1. k + 1 \in Nat
  OBVIOUS
<1>2. P \in Nat /\ b \in Nat /\ c \in Nat /\ n \in Nat \ {0} /\ block_pages[k + 1] = 2 * n
  BY <1>1, BlockOf, BlockAndBuddy, BlockPages, Zenon
<1>3. (b = P /\ c = P + n) \/ (b = P + n /\ c = P)
  BY BlockAndBuddy
<1>4. \A f : f \in Frames(P, k + 1) <=> f \in Nat /\ P <= f /\ f < P + 2 * n
  BY <1>1, <1>2, InFrames
<1>5. \A f : f \in Frames(b, k) <=> f \in Nat /\ b <= f /\ f < b + n
  BY <1>2, InFrames
<1>6. \A f : f \in Frames(c, k) <=> f \in Nat /\ c <= f /\ f < c + n
  BY <1>2, InFrames
<1> HIDE DEF P, b, c, n
<1>7. \A f : /\ f \in Frames(P, k + 1) <=> f \in Frames(b, k) \/ f \in Frames(c, k)
             /\ ~(f \in Frames(b, k) /\ f \in Frames(c, k))
  <2> SUFFICES ASSUME NEW f
               PROVE  /\ f \in Frames(P, k + 1) <=> f \in Frames(b, k) \/ f \in Frames(c, k)
                      /\ ~(f \in Frames(b, k) /\ f \in Frames(c, k))
    OBVIOUS
  <2>1. CASE f \in Nat
    BY <1>2, <1>3, <1>4, <1>5, <1>6, <2>1
  <2>2. CASE f \notin Nat
    BY <1>4, <1>5, <1>6, <2>2
  <2>3. QED
    BY <2>1, <2>2
<1>8. /\ Frames(P, k + 1) = Frames(b, k) \cup Frames(c, k)
      /\ Frames(b, k) \cap Frames(c, k) = {}
  BY <1>7, Zenon
<1>9. QED
  BY <1>8 DEF P, b, c

(* What alloc cuts a block into, and what dealloc puts together: the block *)
(* of a lower order and the buddies on the way.                            *)
Buddies(p, lo, hi) == {[ppn |-> buddy_of(p, k), order |-> k] : k \in lo .. hi - 1}

LEMMA Chain ==
    ASSUME NEW p \in Nat, NEW lo \in Nat, NEW hi \in Nat, lo <= hi
    PROVE  \A f : f \in Frames(block_of(p, hi), hi) <=>
                      \/ f \in Frames(block_of(p, lo), lo)
                      \/ \E k \in lo .. hi - 1 : f \in Frames(buddy_of(p, k), k)
<1> DEFINE In(i, f) == f \in Frames(block_of(p, i), i)
           Beside(i, f) == f \in Frames(buddy_of(p, i), i)
           S == {d \in Nat : \A f : In(lo + d, f) <=>
                     In(lo, f) \/ \E k \in lo .. (lo + d) - 1 : Beside(k, f)}
<1>1. \A i \in Nat : \A f : In(i + 1, f) <=> In(i, f) \/ Beside(i, f)
  <2> SUFFICES ASSUME NEW i \in Nat, NEW f
               PROVE  In(i + 1, f) <=> In(i, f) \/ Beside(i, f)
    OBVIOUS
  <2>1. Frames(block_of(p, i + 1), i + 1) =
            Frames(block_of(p, i), i) \cup Frames(buddy_of(p, i), i)
    BY Halves
  <2>2. QED
    BY <2>1
<1> HIDE DEF In, Beside
<1>2. 0 \in S
  OBVIOUS
<1>3. ASSUME NEW d \in Nat, d \in S
      PROVE  d + 1 \in S
  <2> SUFFICES ASSUME NEW f
               PROVE  In(lo + (d + 1), f) <=>
                          \/ In(lo, f)
                          \/ \E k \in lo .. (lo + (d + 1)) - 1 : Beside(k, f)
    OBVIOUS
  <2>1. lo + d \in Nat /\ lo + (d + 1) = (lo + d) + 1
    OBVIOUS
  <2>2. In((lo + d) + 1, f) <=> In(lo + d, f) \/ Beside(lo + d, f)
    BY <1>1, <2>1
  <2>3. In(lo + d, f) <=> In(lo, f) \/ \E k \in lo .. (lo + d) - 1 : Beside(k, f)
    BY <1>3
  <2>4. (\E k \in lo .. (lo + (d + 1)) - 1 : Beside(k, f)) <=>
            (\E k \in lo .. (lo + d) - 1 : Beside(k, f)) \/ Beside(lo + d, f)
    OBVIOUS
  <2>5. QED
    BY <2>1, <2>2, <2>3, <2>4
<1> HIDE DEF S
<1>4. \A d \in Nat : d \in S
  BY <1>2, <1>3, Induction
<1>5. hi - lo \in Nat /\ lo + (hi - lo) = hi
  OBVIOUS
<1>6. QED
  BY <1>4, <1>5 DEF S, In, Beside

(* They do not overlap. *)
LEMMA ChainDisjoint ==
    ASSUME NEW p \in Nat, NEW lo \in Nat, NEW k \in Nat, lo <= k
    PROVE  /\ Frames(block_of(p, lo), lo) \cap Frames(buddy_of(p, k), k) = {}
           /\ lo < k => Frames(buddy_of(p, lo), lo) \cap Frames(buddy_of(p, k), k) = {}
<1>1. Frames(block_of(p, k), k) \cap Frames(buddy_of(p, k), k) = {}
  BY Halves
<1>2. Frames(block_of(p, lo), lo) \subseteq Frames(block_of(p, k), k)
  BY Nested
<1>3. lo < k => Frames(buddy_of(p, lo), lo) \subseteq Frames(block_of(p, k), k)
  <2> SUFFICES ASSUME lo < k
               PROVE  Frames(buddy_of(p, lo), lo) \subseteq Frames(block_of(p, k), k)
    OBVIOUS
  <2>1. lo + 1 \in Nat /\ lo + 1 <= k
    OBVIOUS
  <2>2. Frames(block_of(p, lo + 1), lo + 1) \subseteq Frames(block_of(p, k), k)
    BY <2>1, Nested
  <2>3. Frames(buddy_of(p, lo), lo) \subseteq Frames(block_of(p, lo + 1), lo + 1)
    BY Halves
  <2>4. QED
    BY <2>2, <2>3
<1>4. QED
  BY <1>1, <1>2, <1>3

(* pages_to_order: the least power of two that holds the request *)
LEMMA PagesToOrder ==
    ASSUME NEW pages \in Nat \ {0}
    PROVE  /\ pages_to_order(pages) \in Nat
           /\ pages <= block_pages[pages_to_order(pages)]
           /\ block_pages[pages_to_order(pages)] < 2 * pages
<1> DEFINE S == {k \in 0 .. pages : block_pages[k] >= pages}
           o == pages_to_order(pages)
<1>1. pages \in S /\ S \in SUBSET Nat /\ S # {}
  BY BlockPages
<1>2. PICK k \in S : \A j \in S : k <= j
  BY <1>1, LeastNat, Zenon
<1>3. \A j \in 0 .. k - 1 : block_pages[j] < pages
  <2> SUFFICES ASSUME NEW j \in 0 .. k - 1
               PROVE  block_pages[j] < pages
    OBVIOUS
  <2>1. j \in 0 .. pages /\ j \notin S
    BY <1>2
  <2>2. block_pages[j] \in Nat
    BY <2>1, BlockPages
  <2>3. QED
    BY <2>1, <2>2
<1>4. /\ o \in 0 .. pages
      /\ block_pages[o] >= pages
      /\ \A j \in 0 .. o - 1 : block_pages[j] < pages
  BY <1>2, <1>3 DEF pages_to_order
<1> HIDE DEF o
<1>5. block_pages[o] < 2 * pages
  <2>1. CASE o = 0
    BY <2>1, BlockPages
  <2>2. CASE o # 0
    <3>1. o - 1 \in Nat /\ o - 1 \in 0 .. o - 1 /\ (o - 1) + 1 = o
      BY <1>4, <2>2
    <3>2. block_pages[o] = 2 * block_pages[o - 1]
      BY <3>1, BlockPages
    <3>3. block_pages[o - 1] < pages /\ block_pages[o - 1] \in Nat
      BY <1>4, <3>1, BlockPages
    <3>4. QED
      BY <3>2, <3>3
  <2>3. QED
    BY <2>1, <2>2
<1>6. block_pages[o] \in Nat
  BY <1>4, BlockPages
<1>7. QED
  BY <1>4, <1>5, <1>6 DEF o

----------------------------------------------------------------------------
(* Sets of blocks, free and held *)

BlockSet == [ppn : Nat, order : Orders]
Block(p, k) == [ppn |-> p, order |-> k]
FramesIn(b) == Frames(b.ppn, b.order)
Disjoint(blocks) == \A a, b \in blocks : a # b => FramesIn(a) \cap FramesIn(b) = {}

Placed(free, held) ==
    /\ free \subseteq BlockSet
    /\ held \subseteq BlockSet
    /\ \A b \in free \cup held : Aligned(b.ppn, b.order)
    /\ free \cap held = {}
    /\ Disjoint(free \cup held)

Merged(free) ==
    \A b \in free : b.order < MAX_ORDER - 1 =>
        Block(buddy_of(b.ppn, b.order), b.order) \notin free

LEMMA OrdersAreNat == Orders \subseteq Nat /\ \A k \in Orders : k <= MAX_ORDER - 1
BY BlocksAssumption DEF Orders

LEMMA BlockFields ==
    ASSUME NEW p \in Nat, NEW k \in Orders
    PROVE  /\ Block(p, k) \in BlockSet
           /\ Block(p, k).ppn = p
           /\ Block(p, k).order = k
           /\ FramesIn(Block(p, k)) = Frames(p, k)
BY DEF Block, BlockSet, FramesIn

LEMMA FirstFrame ==
    ASSUME NEW b \in BlockSet
    PROVE  /\ b.ppn \in Nat /\ b.order \in Nat /\ b.order \in Orders
           /\ b = Block(b.ppn, b.order)
           /\ b.ppn \in FramesIn(b)
<1>1. b.ppn \in Nat /\ b.order \in Nat /\ b.order \in Orders
  BY OrdersAreNat, Zenon DEF BlockSet
<1>2. block_pages[b.order] \in Nat \ {0}
  BY <1>1, BlockPages
<1>3. b.ppn <= b.ppn /\ b.ppn < b.ppn + block_pages[b.order]
  BY <1>1, <1>2
<1>4. b.ppn \in FramesIn(b)
  BY <1>1, <1>3, InFrames DEF FramesIn
<1>5. b = Block(b.ppn, b.order)
  BY DEF BlockSet, Block
<1>6. QED
  BY <1>1, <1>4, <1>5

LEMMA FrameOfBlocks ==
    ASSUME NEW blocks, NEW f
    PROVE  f \in FramesOf(blocks) <=> \E b \in blocks : f \in FramesIn(b)
BY DEF FramesOf, FramesIn

(* Blocks may be exchanged for other blocks with the same frames. *)
LEMMA Exchange ==
    ASSUME NEW B, NEW Old, NEW New, B \subseteq BlockSet, New \subseteq BlockSet,
           Old \subseteq B, Disjoint(B), Disjoint(New), FramesOf(New) = FramesOf(Old)
    PROVE  /\ Disjoint((B \ Old) \cup New)
           /\ FramesOf((B \ Old) \cup New) = FramesOf(B)
           /\ (B \ Old) \cap New = {}
<1>1. ASSUME NEW a \in B \ Old, NEW n \in New, NEW f, f \in FramesIn(a), f \in FramesIn(n)
      PROVE  FALSE
  <2>1. f \in FramesOf(Old)
    BY <1>1, FrameOfBlocks
  <2>2. PICK o \in Old : f \in FramesIn(o)
    BY <2>1, FrameOfBlocks
  <2>3. o \in B /\ a \in B /\ a # o
    OBVIOUS
  <2>4. QED
    BY <1>1, <2>2, <2>3 DEF Disjoint
<1>2. ASSUME NEW a \in (B \ Old) \cup New, NEW b \in (B \ Old) \cup New, a # b,
             NEW f, f \in FramesIn(a), f \in FramesIn(b)
      PROVE  FALSE
  <2>1. CASE a \in B \ Old /\ b \in B \ Old
    BY <1>2, <2>1 DEF Disjoint
  <2>2. CASE a \in New /\ b \in New
    BY <1>2, <2>2 DEF Disjoint
  <2>3. CASE a \in B \ Old /\ b \in New
    BY <1>1, <1>2, <2>3
  <2>4. CASE a \in New /\ b \in B \ Old
    BY <1>1, <1>2, <2>4
  <2>5. QED
    BY <1>2, <2>1, <2>2, <2>3, <2>4
<1>3. Disjoint((B \ Old) \cup New)
  BY <1>2, Zenon DEF Disjoint
<1>4. \A f : f \in FramesOf((B \ Old) \cup New) <=> f \in FramesOf(B)
  <2> SUFFICES ASSUME NEW f
               PROVE  f \in FramesOf((B \ Old) \cup New) <=> f \in FramesOf(B)
    OBVIOUS
  <2>1. f \in FramesOf((B \ Old) \cup New) <=>
            (\E b \in B \ Old : f \in FramesIn(b)) \/ f \in FramesOf(New)
    BY FrameOfBlocks
  <2>2. f \in FramesOf(B) <=> (\E b \in B \ Old : f \in FramesIn(b)) \/ f \in FramesOf(Old)
    BY FrameOfBlocks
  <2>3. QED
    BY <2>1, <2>2
<1>5. FramesOf((B \ Old) \cup New) = FramesOf(B)
  BY <1>4 DEF FramesOf
<1>6. (B \ Old) \cap New = {}
  <2> SUFFICES ASSUME NEW a \in B \ Old, a \in New
               PROVE  FALSE
    OBVIOUS
  <2>1. a.ppn \in FramesIn(a)
    BY FirstFrame
  <2>2. QED
    BY <1>1, <2>1
<1>7. QED
  BY <1>3, <1>5, <1>6

(* The block of a lower order with the buddies on the way covers the block *)
(* of the higher order, once.                                              *)
LEMMA ChainBlocks ==
    ASSUME NEW p \in Nat, NEW lo \in Nat, NEW hi \in Orders, lo <= hi
    PROVE  /\ lo \in Orders
           /\ {Block(block_of(p, lo), lo)} \cup Buddies(p, lo, hi) \subseteq BlockSet
           /\ Block(block_of(p, hi), hi) \in BlockSet
           /\ \A b \in {Block(block_of(p, lo), lo)} \cup Buddies(p, lo, hi) : Aligned(b.ppn, b.order)
           /\ Block(block_of(p, lo), lo) \notin Buddies(p, lo, hi)
           /\ Disjoint({Block(block_of(p, lo), lo)} \cup Buddies(p, lo, hi))
           /\ FramesOf({Block(block_of(p, lo), lo)} \cup Buddies(p, lo, hi)) =
                  FramesOf({Block(block_of(p, hi), hi)})
<1> DEFINE low == Block(block_of(p, lo), lo)
           top == Block(block_of(p, hi), hi)
           bud == Buddies(p, lo, hi)
<1>1. hi \in Nat /\ lo \in Orders /\ lo .. hi - 1 \subseteq Orders /\ lo .. hi - 1 \subseteq Nat
  BY BlocksAssumption DEF Orders
<1>2. low \in BlockSet /\ low.ppn = block_of(p, lo) /\ low.order = lo /\ Aligned(low.ppn, low.order)
  <2>1. block_of(p, lo) \in Nat /\ Aligned(block_of(p, lo), lo)
    BY BlockOf
  <2>2. low \in BlockSet /\ low.ppn = block_of(p, lo) /\ low.order = lo
    BY <1>1, <2>1, BlockFields
  <2>3. QED
    BY <2>1, <2>2
<1>3. FramesIn(low) = Frames(block_of(p, lo), lo)
  BY <1>1, BlockOf, BlockFields
<1>4. top \in BlockSet /\ FramesIn(top) = Frames(block_of(p, hi), hi)
  BY <1>1, BlockOf, BlockFields, Zenon
<1>5. ASSUME NEW b \in bud
      PROVE  \E k \in lo .. hi - 1 : /\ k \in Nat
                                     /\ b = Block(buddy_of(p, k), k)
                                     /\ b \in BlockSet
                                     /\ FramesIn(b) = Frames(buddy_of(p, k), k)
                                     /\ Aligned(b.ppn, b.order)
  <2>1. PICK k \in lo .. hi - 1 : b = Block(buddy_of(p, k), k)
    BY DEF Buddies, Block
  <2>2. k \in Nat /\ k \in Orders
    BY <1>1
  <2>3. buddy_of(p, k) \in Nat /\ Aligned(buddy_of(p, k), k)
    BY <2>2, BlockAndBuddy
  <2>4. b \in BlockSet /\ FramesIn(b) = Frames(buddy_of(p, k), k) /\ Aligned(b.ppn, b.order)
    BY <2>1, <2>2, <2>3, BlockFields
  <2>5. QED
    BY <2>1, <2>2, <2>4
<1>6. \A k \in lo .. hi - 1 : /\ Block(buddy_of(p, k), k) \in bud
                              /\ FramesIn(Block(buddy_of(p, k), k)) = Frames(buddy_of(p, k), k)
  BY DEF Buddies, Block, FramesIn
<1> HIDE DEF low, top, bud
<1>7. ASSUME NEW b \in bud
      PROVE  FramesIn(low) \cap FramesIn(b) = {}
  <2>1. PICK k \in lo .. hi - 1 : k \in Nat /\ FramesIn(b) = Frames(buddy_of(p, k), k)
    BY <1>5
  <2>2. lo <= k
    BY <2>1
  <2>3. QED
    BY <1>3, <2>1, <2>2, ChainDisjoint
<1>8. low \notin bud
  BY <1>2, <1>7, FirstFrame
<1>9. ASSUME NEW a \in bud, NEW b \in bud, a # b
      PROVE  FramesIn(a) \cap FramesIn(b) = {}
  <2>1. PICK j \in lo .. hi - 1 : /\ j \in Nat
                                  /\ a = Block(buddy_of(p, j), j)
                                  /\ FramesIn(a) = Frames(buddy_of(p, j), j)
    BY <1>5
  <2>2. PICK k \in lo .. hi - 1 : /\ k \in Nat
                                  /\ b = Block(buddy_of(p, k), k)
                                  /\ FramesIn(b) = Frames(buddy_of(p, k), k)
    BY <1>5
  <2>3. j < k \/ k < j
    BY <1>9, <2>1, <2>2
  <2>4. CASE j < k
    BY <2>1, <2>2, <2>4, ChainDisjoint
  <2>5. CASE k < j
    <3>1. Frames(buddy_of(p, k), k) \cap Frames(buddy_of(p, j), j) = {}
      BY <2>1, <2>2, <2>5, ChainDisjoint
    <3>2. QED
      BY <2>1, <2>2, <3>1
  <2>6. QED
    BY <2>3, <2>4, <2>5
<1>10. Disjoint({low} \cup bud)
  <2> SUFFICES ASSUME NEW a \in {low} \cup bud, NEW b \in {low} \cup bud, a # b
               PROVE  FramesIn(a) \cap FramesIn(b) = {}
    BY DEF Disjoint
  <2>1. CASE a = low
    BY <1>7, <2>1
  <2>2. CASE b = low
    BY <1>7, <2>2
  <2>3. CASE a \in bud /\ b \in bud
    BY <1>9, <2>3
  <2>4. QED
    BY <2>1, <2>2, <2>3
<1>11. \A f : f \in FramesOf({low} \cup bud) <=> f \in FramesOf({top})
  <2> SUFFICES ASSUME NEW f
               PROVE  f \in FramesOf({low} \cup bud) <=> f \in FramesOf({top})
    OBVIOUS
  <2>1. f \in FramesOf({top}) <=> f \in Frames(block_of(p, hi), hi)
    BY <1>4, FrameOfBlocks
  <2>2. f \in FramesOf({low} \cup bud) <=>
            f \in FramesIn(low) \/ \E b \in bud : f \in FramesIn(b)
    BY FrameOfBlocks
  <2>3. (\E b \in bud : f \in FramesIn(b)) <=>
            \E k \in lo .. hi - 1 : f \in Frames(buddy_of(p, k), k)
    BY <1>5, <1>6
  <2>4. f \in Frames(block_of(p, hi), hi) <=>
            \/ f \in Frames(block_of(p, lo), lo)
            \/ \E k \in lo .. hi - 1 : f \in Frames(buddy_of(p, k), k)
    BY <1>1, Chain
  <2>5. QED
    BY <1>3, <2>1, <2>2, <2>3, <2>4
<1>12. FramesOf({low} \cup bud) = FramesOf({top})
  BY <1>11 DEF FramesOf
<1>13. \A b \in {low} \cup bud : b \in BlockSet /\ Aligned(b.ppn, b.order)
  BY <1>2, <1>5
<1>14. QED
  BY <1>1, <1>4, <1>8, <1>10, <1>12, <1>13 DEF low, top, bud

LEMMA BlocksOfPlaced ==
    ASSUME NEW free, NEW held, Placed(free, held), NEW b \in free \cup held
    PROVE  /\ b \in BlockSet
           /\ b.ppn \in Nat /\ b.order \in Nat /\ b.order \in Orders
           /\ Aligned(b.ppn, b.order)
           /\ b = Block(b.ppn, b.order)
<1>1. b \in BlockSet /\ Aligned(b.ppn, b.order)
  BY DEF Placed
<1>2. QED
  BY <1>1, FirstFrame

(* alloc: a free block is split, and its first part is held. *)
IsSplit(free, held, p, lo, hi, free2, held2) ==
    /\ Placed(free, held) /\ Merged(free)
    /\ p \in Nat /\ lo \in Nat /\ hi \in Orders /\ lo <= hi /\ Block(p, hi) \in free
    /\ \A b \in free : b.order >= lo => b.order >= hi
    /\ free2 = (free \ {Block(p, hi)}) \cup Buddies(p, lo, hi)
    /\ held2 = held \cup {Block(p, lo)}

SplitKeeps(free, held, p, lo, free2, held2) ==
    /\ Placed(free2, held2)
    /\ Merged(free2)
    /\ FramesOf(free2 \cup held2) = FramesOf(free \cup held)
    /\ FramesOf(free2) = FramesOf(free) \ Frames(p, lo)
    /\ Block(p, lo) \notin held
    /\ Aligned(p, lo)
    /\ Frames(p, lo) \subseteq FramesOf(free)

LEMMA SplitBlocks ==
    ASSUME NEW free, NEW held, NEW p, NEW lo, NEW hi, NEW free2, NEW held2,
           IsSplit(free, held, p, lo, hi, free2, held2)
    PROVE  SplitKeeps(free, held, p, lo, free2, held2)
<1> SUFFICES ASSUME Placed(free, held), Merged(free), p \in Nat, lo \in Nat, hi \in Orders,
                    lo <= hi, Block(p, hi) \in free,
                    \A b \in free : b.order >= lo => b.order >= hi
             PROVE  SplitKeeps(free, held, p, lo, free2, held2)
  BY Zenon DEF IsSplit
<1> DEFINE low == Block(p, lo)
           top == Block(p, hi)
           bud == Buddies(p, lo, hi)
           freed == (free \ {top}) \cup bud
           kept == held \cup {low}
<1>1. hi \in Nat /\ lo \in Orders
  BY OrdersAreNat, ChainBlocks, Zenon
<1>2. Aligned(p, hi)
  BY <1>1, BlocksOfPlaced, BlockFields
<1>3. Aligned(p, lo)
  BY <1>1, <1>2, AlignedBelow
<1>4. block_of(p, lo) = p /\ block_of(p, hi) = p
  BY <1>1, <1>2, <1>3, OfABlock
<1>5. /\ {low} \cup bud \subseteq BlockSet
      /\ \A b \in {low} \cup bud : Aligned(b.ppn, b.order)
      /\ low \notin bud
      /\ Disjoint({low} \cup bud)
      /\ FramesOf({low} \cup bud) = FramesOf({top})
  <2> DEFINE part == Block(block_of(p, lo), lo)
             whole == Block(block_of(p, hi), hi)
  <2>1. part = low /\ whole = top
    BY <1>4
  <2>2. /\ {part} \cup bud \subseteq BlockSet
        /\ whole \in BlockSet
        /\ \A b \in {part} \cup bud : Aligned(b.ppn, b.order)
        /\ part \notin bud
        /\ Disjoint({part} \cup bud)
        /\ FramesOf({part} \cup bud) = FramesOf({whole})
    BY ChainBlocks, Zenon
  <2> HIDE DEF part, whole, low, top, bud
  <2>3. QED
    BY <2>1, <2>2
<1>6. low \in BlockSet /\ FramesIn(low) = Frames(p, lo)
  BY <1>1, BlockFields
<1>7. \A b \in bud : /\ b.order \in lo .. hi - 1
                     /\ b = Block(buddy_of(p, b.order), b.order)
  BY DEF Buddies, Block
<1> HIDE DEF low, top, bud
<1>8. /\ free \subseteq BlockSet /\ held \subseteq BlockSet
      /\ \A b \in free \cup held : Aligned(b.ppn, b.order)
      /\ free \cap held = {}
      /\ Disjoint(free \cup held)
  BY DEF Placed
<1>9. top \in free /\ top \notin held
  BY <1>8 DEF top
<1>10. /\ Disjoint(((free \cup held) \ {top}) \cup ({low} \cup bud))
       /\ FramesOf(((free \cup held) \ {top}) \cup ({low} \cup bud)) = FramesOf(free \cup held)
       /\ ((free \cup held) \ {top}) \cap ({low} \cup bud) = {}
  <2> DEFINE all == free \cup held
             old == {top}
             new == {low} \cup bud
  <2>1. /\ all \subseteq BlockSet /\ new \subseteq BlockSet /\ old \subseteq all
        /\ Disjoint(all) /\ Disjoint(new) /\ FramesOf(new) = FramesOf(old)
    BY <1>5, <1>8, <1>9
  <2> HIDE DEF all, old, new
  <2>2. /\ Disjoint((all \ old) \cup new)
        /\ FramesOf((all \ old) \cup new) = FramesOf(all)
        /\ (all \ old) \cap new = {}
    BY <2>1, Exchange
  <2>3. QED
    BY <2>2 DEF all, old, new
<1>11. ((free \cup held) \ {top}) \cup ({low} \cup bud) = freed \cup kept
  BY <1>9
<1>12. Disjoint(freed \cup kept) /\ FramesOf(freed \cup kept) = FramesOf(free \cup held)
  BY <1>10, <1>11, Zenon
<1>13. freed \cap kept = {}
  BY <1>5, <1>8, <1>9, <1>10
<1>14. Placed(freed, kept)
  <2>1. freed \subseteq BlockSet /\ kept \subseteq BlockSet
    BY <1>5, <1>8
  <2>2. \A b \in freed \cup kept : Aligned(b.ppn, b.order)
    BY <1>5, <1>8
  <2>3. QED
    BY <1>12, <1>13, <2>1, <2>2 DEF Placed
<1>15. Merged(freed)
  <2> SUFFICES ASSUME NEW b \in freed, b.order < MAX_ORDER - 1,
                      Block(buddy_of(b.ppn, b.order), b.order) \in freed
               PROVE  FALSE
    BY DEF Merged
  <2> DEFINE c == Block(buddy_of(b.ppn, b.order), b.order)
  <2>1. b.ppn \in Nat /\ b.order \in Nat /\ b.order \in Orders /\ Aligned(b.ppn, b.order)
    BY <1>14, BlocksOfPlaced
  <2>2. buddy_of(b.ppn, b.order) \in Nat /\ buddy_of(b.ppn, b.order) # b.ppn
    BY <2>1, BlockAndBuddy, OfABlock, Zenon
  <2>3. c.order = b.order /\ c # b
    BY <2>1, <2>2, BlockFields
  <2>4. ~(b \in free /\ c \in free)
    BY DEF Merged
  <2> HIDE DEF c
  <2>5. c \in freed
    BY DEF c
  <2>6. ASSUME NEW x \in bud, NEW y \in free, x.order = y.order
        PROVE  FALSE
    <3>1. y.order >= lo /\ ~(y.order >= hi) /\ y.order \in Nat
      BY <1>1, <1>7, <2>6
    <3>2. QED
      BY <3>1
  <2>7. b \in bud /\ c \in bud
    BY <2>3, <2>4, <2>5, <2>6
  <2>8. QED
    BY <1>7, <2>3, <2>7
<1>16. FramesOf(freed) = FramesOf(free) \ FramesIn(low)
  <2> SUFFICES ASSUME NEW f
               PROVE  f \in FramesOf(freed) <=> f \in FramesOf(free) /\ f \notin FramesIn(low)
    BY DEF FramesOf
  <2>1. f \in FramesOf({top}) <=> f \in FramesIn(top)
    BY FrameOfBlocks
  <2>2. f \in FramesOf({low} \cup bud) <=>
            f \in FramesIn(low) \/ \E b \in bud : f \in FramesIn(b)
    BY FrameOfBlocks
  <2>3. f \in FramesOf(freed) <=>
            (\E b \in free \ {top} : f \in FramesIn(b)) \/ \E b \in bud : f \in FramesIn(b)
    BY FrameOfBlocks
  <2>4. f \in FramesOf(free) <=> (\E b \in free \ {top} : f \in FramesIn(b)) \/ f \in FramesIn(top)
    BY <1>9, FrameOfBlocks
  <2>5. f \in FramesOf(freed) => f \notin FramesIn(low)
    <3> SUFFICES ASSUME NEW b \in freed, f \in FramesIn(b), f \in FramesIn(low)
                 PROVE  FALSE
      BY FrameOfBlocks
    <3>1. low \in kept /\ low # b
      BY <1>13
    <3>2. QED
      BY <1>12, <3>1 DEF Disjoint
  <2>6. QED
    BY <1>5, <2>1, <2>2, <2>3, <2>4, <2>5
<1>17. FramesIn(low) \subseteq FramesOf(free)
  <2> SUFFICES ASSUME NEW f \in FramesIn(low)
               PROVE  f \in FramesOf(free)
    OBVIOUS
  <2>1. f \in FramesOf({top})
    BY <1>5, FrameOfBlocks
  <2>2. f \in FramesIn(top)
    BY <2>1, FrameOfBlocks
  <2>3. QED
    BY <1>9, <2>2, FrameOfBlocks
<1>18. low \notin held
  BY <1>9, <1>10
<1>19. freed = free2 /\ kept = held2
  BY Zenon DEF IsSplit, low, top, bud
<1> HIDE DEF freed, kept
<1>20. QED
  BY <1>3, <1>6, <1>12, <1>14, <1>15, <1>16, <1>17, <1>18, <1>19 DEF SplitKeeps, low

(* dealloc: a held block is merged with the buddies that are free. *)
IsMerge(free, held, p, lo, hi, free2, held2) ==
    /\ Placed(free, held) /\ Merged(free)
    /\ p \in Nat /\ lo \in Nat /\ hi \in Orders /\ lo <= hi /\ Block(p, lo) \in held
    /\ \A k \in lo .. hi - 1 : Block(buddy_of(p, k), k) \in free
    /\ hi < MAX_ORDER - 1 => Block(buddy_of(p, hi), hi) \notin free
    /\ free2 = (free \ Buddies(p, lo, hi)) \cup {Block(block_of(p, hi), hi)}
    /\ held2 = held \ {Block(p, lo)}

MergeKeeps(free, held, p, lo, hi, free2, held2) ==
    /\ Placed(free2, held2)
    /\ Merged(free2)
    /\ FramesOf(free2 \cup held2) = FramesOf(free \cup held)
    /\ FramesOf(free2) = FramesOf(free) \cup Frames(p, lo)
    /\ Block(block_of(p, hi), hi) \notin free

LEMMA MergeBlocks ==
    ASSUME NEW free, NEW held, NEW p, NEW lo, NEW hi, NEW free2, NEW held2,
           IsMerge(free, held, p, lo, hi, free2, held2)
    PROVE  MergeKeeps(free, held, p, lo, hi, free2, held2)
<1> SUFFICES ASSUME Placed(free, held), Merged(free), p \in Nat, lo \in Nat, hi \in Orders,
                    lo <= hi, Block(p, lo) \in held,
                    \A k \in lo .. hi - 1 : Block(buddy_of(p, k), k) \in free,
                    hi < MAX_ORDER - 1 => Block(buddy_of(p, hi), hi) \notin free
             PROVE  MergeKeeps(free, held, p, lo, hi, free2, held2)
  BY Zenon DEF IsMerge
<1> DEFINE P == block_of(p, hi)
           low == Block(p, lo)
           top == Block(P, hi)
           bud == Buddies(p, lo, hi)
           freed == (free \ bud) \cup {top}
           kept == held \ {low}
<1>1. hi \in Nat /\ lo \in Orders
  BY OrdersAreNat, ChainBlocks, Zenon
<1>2. Aligned(p, lo)
  BY <1>1, BlocksOfPlaced, BlockFields
<1>3. block_of(p, lo) = p
  BY <1>2, OfABlock
<1>4. /\ {low} \cup bud \subseteq BlockSet
      /\ top \in BlockSet
      /\ low \notin bud
      /\ FramesOf({low} \cup bud) = FramesOf({top})
  <2> DEFINE part == Block(block_of(p, lo), lo)
             whole == Block(block_of(p, hi), hi)
  <2>1. part = low /\ whole = top
    BY <1>3
  <2>2. /\ {part} \cup bud \subseteq BlockSet
        /\ whole \in BlockSet
        /\ \A b \in {part} \cup bud : Aligned(b.ppn, b.order)
        /\ part \notin bud
        /\ Disjoint({part} \cup bud)
        /\ FramesOf({part} \cup bud) = FramesOf({whole})
    BY ChainBlocks, ZenonT(30)
  <2> HIDE DEF part, whole, low, top, bud
  <2>3. QED
    BY <2>1, <2>2
<1>5. P \in Nat /\ Aligned(P, hi) /\ top.ppn = P /\ top.order = hi
  BY <1>1, BlockOf, BlockFields, Zenon
<1>6. low \in BlockSet /\ FramesIn(low) = Frames(p, lo)
  BY <1>1, BlockFields
<1>7. bud \subseteq free /\ \A b \in bud : b.order # hi
  BY <1>1 DEF Buddies, Block
<1>8. buddy_of(P, hi) = buddy_of(p, hi)
  <2>1. block_of(P, hi) = P
    BY <1>1, <1>5, OfABlock
  <2>2. QED
    BY <2>1 DEF buddy_of
<1> HIDE DEF P, low, top, bud
<1>9. /\ free \subseteq BlockSet /\ held \subseteq BlockSet
      /\ \A b \in free \cup held : Aligned(b.ppn, b.order)
      /\ free \cap held = {}
      /\ Disjoint(free \cup held)
  BY DEF Placed
<1>10. low \in held /\ low \notin free
  BY <1>9 DEF low
<1>11. /\ Disjoint(((free \cup held) \ ({low} \cup bud)) \cup {top})
       /\ FramesOf(((free \cup held) \ ({low} \cup bud)) \cup {top}) = FramesOf(free \cup held)
       /\ ((free \cup held) \ ({low} \cup bud)) \cap {top} = {}
  <2>1. free \cup held \subseteq BlockSet /\ {low} \cup bud \subseteq free \cup held
    BY <1>7, <1>9, <1>10
  <2>2. Disjoint({top}) /\ {top} \subseteq BlockSet
    BY <1>4 DEF Disjoint
  <2>3. QED
    BY <1>4, <1>9, <2>1, <2>2, Exchange
<1>12. ((free \cup held) \ ({low} \cup bud)) \cup {top} = freed \cup kept
  BY <1>7, <1>9, <1>10
<1>13. Disjoint(freed \cup kept) /\ FramesOf(freed \cup kept) = FramesOf(free \cup held)
  BY <1>11, <1>12
<1>14. freed \cap kept = {}
  BY <1>7, <1>9, <1>11
<1>15. Placed(freed, kept)
  <2>1. freed \subseteq BlockSet /\ kept \subseteq BlockSet
    BY <1>4, <1>9
  <2>2. \A b \in freed \cup kept : Aligned(b.ppn, b.order)
    BY <1>5, <1>9
  <2>3. QED
    BY <1>13, <1>14, <2>1, <2>2 DEF Placed
<1>16. top \notin free
  BY <1>5, <1>7, <1>10, <1>11
<1>17. Merged(freed)
  <2> SUFFICES ASSUME NEW b \in freed, b.order < MAX_ORDER - 1,
                      Block(buddy_of(b.ppn, b.order), b.order) \in freed
               PROVE  FALSE
    BY DEF Merged
  <2> DEFINE q == buddy_of(b.ppn, b.order)
             c == Block(q, b.order)
  <2>1. /\ b.ppn \in Nat /\ b.order \in Nat /\ b.order \in Orders /\ Aligned(b.ppn, b.order)
        /\ b = Block(b.ppn, b.order)
    BY <1>15, BlocksOfPlaced
  <2>2. q \in Nat /\ q # b.ppn /\ buddy_of(q, b.order) = b.ppn
    BY <2>1, BlockAndBuddy, OfABlock, Zenon
  <2>3. c.ppn = q /\ c.order = b.order
    BY <2>1, <2>2, BlockFields
  <2>4. ~(b \in free /\ c \in free)
    BY DEF Merged
  <2>5. hi < MAX_ORDER - 1 => Block(buddy_of(P, hi), hi) \notin free
    BY <1>8
  <2>6. CASE b = top
    <3>1. c = Block(buddy_of(P, hi), hi) /\ c # top
      BY <1>5, <2>2, <2>3, <2>6
    <3>2. c \notin free
      BY <1>5, <2>5, <2>6, <3>1
    <3>3. QED
      BY <3>1, <3>2
  <2>7. CASE c = top /\ b \in free
    <3>1. b = Block(buddy_of(P, hi), hi) /\ b.order = hi
      BY <1>5, <2>1, <2>2, <2>3, <2>7
    <3>2. QED
      BY <2>5, <2>7, <3>1
  <2>8. QED
    BY <2>4, <2>6, <2>7
<1>18. FramesOf(freed) = FramesOf(free) \cup FramesIn(low)
  <2> SUFFICES ASSUME NEW f
               PROVE  f \in FramesOf(freed) <=> f \in FramesOf(free) \/ f \in FramesIn(low)
    BY DEF FramesOf
  <2>1. f \in FramesOf({top}) <=> f \in FramesIn(top)
    BY FrameOfBlocks
  <2>2. f \in FramesOf({low} \cup bud) <=>
            f \in FramesIn(low) \/ \E b \in bud : f \in FramesIn(b)
    BY FrameOfBlocks
  <2>3. f \in FramesOf(freed) <=>
            (\E b \in free \ bud : f \in FramesIn(b)) \/ f \in FramesIn(top)
    BY FrameOfBlocks
  <2>4. f \in FramesOf(free) <=>
            (\E b \in free \ bud : f \in FramesIn(b)) \/ \E b \in bud : f \in FramesIn(b)
    BY <1>7, FrameOfBlocks
  <2>5. QED
    BY <1>4, <2>1, <2>2, <2>3, <2>4
<1>19. freed = free2 /\ kept = held2
  BY Zenon DEF IsMerge, P, low, top, bud
<1> HIDE DEF freed, kept
<1>20. QED
  BY <1>6, <1>13, <1>15, <1>16, <1>17, <1>18, <1>19 DEF MergeKeeps, P, top

(* init_buddy_system: a block of new frames is added. *)
LEMMA AddBlock ==
    ASSUME NEW free, Placed(free, {}), NEW c \in BlockSet, Aligned(c.ppn, c.order),
           FramesIn(c) \cap FramesOf(free) = {}
    PROVE  /\ Placed(free \cup {c}, {})
           /\ FramesOf(free \cup {c}) = FramesOf(free) \cup FramesIn(c)
           /\ c \notin free
<1>1. \A b \in free : FramesIn(c) \cap FramesIn(b) = {}
  BY FrameOfBlocks
<1>2. c \notin free
  BY <1>1, FirstFrame
<1>3. free \subseteq BlockSet /\ Disjoint(free) /\ \A b \in free : Aligned(b.ppn, b.order)
  BY DEF Placed
<1>4. Disjoint(free \cup {c})
  <2> SUFFICES ASSUME NEW a \in free \cup {c}, NEW b \in free \cup {c}, a # b
               PROVE  FramesIn(a) \cap FramesIn(b) = {}
    BY DEF Disjoint
  <2>1. CASE a = c
    BY <1>1, <2>1
  <2>2. CASE b = c
    BY <1>1, <2>2
  <2>3. CASE a \in free /\ b \in free
    BY <1>3, <2>3 DEF Disjoint
  <2>4. QED
    BY <2>1, <2>2, <2>3
<1>5. Placed(free \cup {c}, {})
  BY <1>3, <1>4 DEF Placed
<1>6. FramesOf(free \cup {c}) = FramesOf(free) \cup FramesIn(c)
  <2> SUFFICES ASSUME NEW f
               PROVE  f \in FramesOf(free \cup {c}) <=> f \in FramesOf(free) \/ f \in FramesIn(c)
    BY DEF FramesOf
  <2>1. QED
    BY FrameOfBlocks
<1>7. QED
  BY <1>2, <1>5, <1>6

(* When merging is complete and every free block is smaller than an order, *)
(* no aligned run of that order is free: of the smallest free blocks in    *)
(* the run, one would have a buddy that is not free as a whole.            *)
LEMMA NoRun ==
    ASSUME NEW free, NEW held, Placed(free, held), Merged(free),
           NEW o \in Orders, \A b \in free : b.order < o,
           NEW p \in Nat, Aligned(p, o), Frames(p, o) \subseteq FramesOf(free)
    PROVE  FALSE
<1> DEFINE S == {j \in Nat : \E b \in free : b.order = j /\ b.ppn \in Frames(p, o)}
<1>1. o \in Nat /\ o <= MAX_ORDER - 1 /\ block_of(p, o) = p
  BY OrdersAreNat, OfABlock
<1>2. ASSUME NEW f \in Frames(p, o)
      PROVE  \E b \in free : f \in FramesIn(b) /\ block_of(f, b.order) = b.ppn
  <2>1. PICK b \in free : f \in FramesIn(b)
    BY FrameOfBlocks
  <2>2. b.ppn \in Nat /\ b.order \in Nat /\ Aligned(b.ppn, b.order)
    BY BlocksOfPlaced
  <2>3. f \in Nat /\ b.ppn <= f /\ f < b.ppn + block_pages[b.order]
    BY <2>1, <2>2, InFrames DEF FramesIn
  <2>4. QED
    BY <2>1, <2>2, <2>3, BlockOfUnique
<1>3. S # {}
  <2>1. p \in Frames(p, o)
    <3>1. p < p + block_pages[o]
      BY <1>1, BlockPages
    <3>2. QED
      BY <1>1, <3>1, InFrames
  <2>2. PICK b \in free : block_of(p, b.order) = b.ppn
    BY <1>2, <2>1
  <2>3. b.order \in Nat /\ b.order < o
    BY BlocksOfPlaced
  <2>4. Aligned(p, b.order)
    BY <1>1, <2>3, AlignedBelow
  <2>5. b.ppn = p
    BY <2>2, <2>3, <2>4, OfABlock
  <2>6. QED
    BY <2>1, <2>3, <2>5
<1>4. PICK j \in S : \A i \in S : j <= i
  <2>1. S \in SUBSET Nat
    OBVIOUS
  <2>2. QED
    BY <1>3, <2>1, LeastNat, Zenon
<1>5. PICK b \in free : b.order = j /\ b.ppn \in Frames(p, o)
  OBVIOUS
<1> DEFINE q == b.ppn
           r == buddy_of(q, j)
<1>6. /\ j \in Nat /\ q \in Nat /\ Aligned(q, j) /\ j < o /\ j \in Orders
      /\ b = Block(q, j) /\ b \in BlockSet
  BY <1>5, BlocksOfPlaced
<1>7. r \in Nat /\ Aligned(r, j) /\ block_of(q, j) = q /\ block_of(r, j) = r
  BY <1>6, BlockAndBuddy, OfABlock, Zenon
<1>8. j + 1 \in Nat /\ j + 1 <= o /\ j < MAX_ORDER - 1
  BY <1>1, <1>6, BlocksAssumption
<1>9. block_of(q, o) = p
  <2>1. q \in Nat /\ p <= q /\ q < p + block_pages[o]
    BY <1>1, <1>5, InFrames
  <2>2. QED
    BY <1>1, <2>1, BlockOfUnique
<1>10. Frames(block_of(q, j + 1), j + 1) = Frames(q, j) \cup Frames(r, j)
  BY <1>6, <1>7, Halves
<1>11. r \in Frames(r, j) /\ q \in Frames(q, j)
  <2>1. Block(r, j).ppn \in FramesIn(Block(r, j)) /\ Block(q, j).ppn \in FramesIn(Block(q, j))
    BY <1>6, <1>7, BlockFields, FirstFrame
  <2>2. QED
    BY <1>6, <1>7, <2>1, BlockFields
<1>12. r \in Frames(p, o)
  <2>1. Frames(block_of(q, j + 1), j + 1) \subseteq Frames(block_of(q, o), o)
    BY <1>1, <1>6, <1>8, Nested
  <2>2. QED
    BY <1>9, <1>10, <1>11, <2>1
<1>13. PICK c \in free : r \in FramesIn(c) /\ block_of(r, c.order) = c.ppn
  BY <1>2, <1>12
<1>14. c.order \in Nat /\ c.ppn \in Nat /\ Aligned(c.ppn, c.order) /\ c = Block(c.ppn, c.order)
  BY BlocksOfPlaced
<1> HIDE DEF q, r
<1>15. CASE c.order <= j
  <2>1. Aligned(r, c.order)
    BY <1>6, <1>7, <1>14, <1>15, AlignedBelow
  <2>2. c.ppn = r
    BY <1>7, <1>13, <1>14, <2>1, OfABlock
  <2>3. c.order \in S
    BY <1>12, <1>14, <2>2
  <2>4. c.order = j
    BY <1>4, <1>6, <1>14, <1>15, <2>3
  <2>5. Block(buddy_of(b.ppn, b.order), b.order) \in free
    BY <1>5, <1>14, <2>2, <2>4 DEF q, r
  <2>6. QED
    BY <1>5, <1>8, <2>5 DEF Merged
<1>16. CASE ~(c.order <= j)
  <2>1. j + 1 <= c.order
    BY <1>6, <1>14, <1>16
  <2>2. block_of(r, j + 1) = block_of(q, j + 1)
    <3>1. r \in Frames(block_of(q, j + 1), j + 1)
      BY <1>10, <1>11
    <3>2. block_of(q, j + 1) \in Nat /\ Aligned(block_of(q, j + 1), j + 1)
      BY <1>6, <1>8, BlockOf, Zenon
    <3>3. block_of(q, j + 1) <= r /\ r < block_of(q, j + 1) + block_pages[j + 1]
      BY <1>8, <3>1, <3>2, InFrames
    <3>4. QED
      BY <1>7, <1>8, <3>2, <3>3, BlockOfUnique
  <2>3. Frames(block_of(r, j + 1), j + 1) \subseteq Frames(block_of(r, c.order), c.order)
    BY <1>7, <1>8, <1>14, <2>1, Nested
  <2>4. q \in FramesIn(c) /\ q \in FramesIn(b)
    BY <1>5, <1>10, <1>11, <1>13, <2>2, <2>3 DEF FramesIn, q
  <2>5. b # c
    BY <1>5, <1>6, <1>16
  <2>6. QED
    BY <2>4, <2>5 DEF Placed, Disjoint
<1>17. QED
  BY <1>15, <1>16

----------------------------------------------------------------------------
(* Free lists *)

LEMMA ListElements ==
    ASSUME NEW s \in Seq(Nat)
    PROVE  /\ Len(s) \in Nat
           /\ DOMAIN s = 1 .. Len(s)
           /\ \A i \in 1 .. Len(s) : s[i] \in Nat
           /\ \A x : x \in Range(s) <=> \E i \in 1 .. Len(s) : s[i] = x
           /\ Range(s) \subseteq Nat
           /\ IsInjective(s) <=> \A i, j \in 1 .. Len(s) : s[i] = s[j] => i = j
<1>1. Len(s) \in Nat /\ DOMAIN s = 1 .. Len(s) /\ \A i \in 1 .. Len(s) : s[i] \in Nat
  OBVIOUS
<1>2. \A x : x \in Range(s) <=> \E i \in 1 .. Len(s) : s[i] = x
  BY <1>1 DEF Range
<1>3. Range(s) \subseteq Nat
  BY <1>1, <1>2
<1>4. IsInjective(s) <=> \A i, j \in 1 .. Len(s) : s[i] = s[j] => i = j
  BY <1>1 DEF IsInjective
<1>5. QED
  BY <1>1, <1>2, <1>3, <1>4

LEMMA HeadInserted ==
    ASSUME NEW s \in Seq(Nat), NEW p \in Nat
    PROVE  /\ <<p>> \o s \in Seq(Nat)
           /\ Range(<<p>> \o s) = {p} \cup Range(s)
           /\ IsInjective(s) /\ p \notin Range(s) => IsInjective(<<p>> \o s)
<1>1. PICK t : t = <<p>> \o s
  BY Zenon
<1>2. t \in Seq(Nat) /\ Len(t) = Len(s) + 1
  BY <1>1
<1>3. t[1] = p /\ \A i \in 1 .. Len(s) : t[i + 1] = s[i]
  BY <1>1
<1>4. Len(s) \in Nat
  BY ListElements
<1>5. \A i \in 1 .. Len(t) : i = 1 \/ (i - 1 \in 1 .. Len(s) /\ t[i] = s[i - 1])
  <2> SUFFICES ASSUME NEW i \in 1 .. Len(t), i # 1
               PROVE  i - 1 \in 1 .. Len(s) /\ t[i] = s[i - 1]
    OBVIOUS
  <2>1. i - 1 \in 1 .. Len(s) /\ (i - 1) + 1 = i
    BY <1>2, <1>4
  <2>2. QED
    BY <1>3, <2>1
<1>6. Range(t) = {p} \cup Range(s)
  <2>1. ASSUME NEW x \in Range(t)
        PROVE  x \in {p} \cup Range(s)
    <3>1. PICK i \in 1 .. Len(t) : t[i] = x
      BY <1>2, ListElements
    <3>2. QED
      BY <1>3, <1>5, <3>1, ListElements, Zenon
  <2>2. ASSUME NEW x \in {p} \cup Range(s)
        PROVE  x \in Range(t)
    <3>1. CASE x = p
      <4>1. 1 \in 1 .. Len(t)
        BY <1>2, <1>4
      <4>2. QED
        BY <1>2, <1>3, <3>1, <4>1, ListElements
    <3>2. CASE x \in Range(s)
      <4>1. PICK i \in 1 .. Len(s) : s[i] = x
        BY <3>2, ListElements
      <4>2. i + 1 \in 1 .. Len(t) /\ t[i + 1] = x
        BY <1>2, <1>3, <1>4, <4>1
      <4>3. QED
        BY <1>2, <4>2, ListElements, Zenon
    <3>3. QED
      BY <3>1, <3>2
  <2>3. QED
    BY <2>1, <2>2, Zenon
<1>7. ASSUME IsInjective(s), p \notin Range(s)
      PROVE  IsInjective(t)
  <2>1. ASSUME NEW i \in 1 .. Len(t), NEW j \in 1 .. Len(t), t[i] = t[j]
        PROVE  i = j
    <3>1. \A m \in 1 .. Len(s) : s[m] # p
      BY <1>7, ListElements
    <3>2. \A m, n \in 1 .. Len(s) : s[m] = s[n] => m = n
      BY <1>7, ListElements
    <3>3. CASE i = 1 \/ j = 1
      BY <1>3, <1>5, <2>1, <3>1, <3>3, Zenon
    <3>4. CASE i # 1 /\ j # 1
      <4>1. i - 1 \in 1 .. Len(s) /\ j - 1 \in 1 .. Len(s) /\ s[i - 1] = s[j - 1]
        BY <1>5, <2>1, <3>4
      <4>2. i - 1 = j - 1
        BY <3>2, <4>1, Zenon
      <4>3. QED
        BY <4>2
    <3>5. QED
      BY <3>3, <3>4
  <2>2. QED
    BY <1>2, <2>1, ListElements, Zenon
<1>8. QED
  BY <1>1, <1>2, <1>6, <1>7

LEMMA HeadTaken ==
    ASSUME NEW s \in Seq(Nat), s # << >>, IsInjective(s)
    PROVE  /\ Head(s) \in Range(s)
           /\ Tail(s) \in Seq(Nat)
           /\ Range(Tail(s)) = Range(s) \ {Head(s)}
           /\ IsInjective(Tail(s))
<1>1. Len(s) \in Nat \ {0} /\ Head(s) = s[1]
  OBVIOUS
<1>2. PICK t : t = Tail(s)
  BY Zenon
<1>3. t \in Seq(Nat) /\ Len(t) = Len(s) - 1 /\ \A i \in 1 .. Len(t) : t[i] = s[i + 1]
  BY <1>2
<1>4. \A i, j \in 1 .. Len(s) : s[i] = s[j] => i = j
  BY ListElements
<1>5. 1 \in 1 .. Len(s)
  BY <1>1
<1>6. Head(s) \in Range(s)
  BY <1>1, <1>5, ListElements
<1>7. \A i \in 1 .. Len(t) : i + 1 \in 1 .. Len(s) /\ i + 1 # 1
  BY <1>1, <1>3
<1>8. ASSUME NEW x \in Range(t)
      PROVE  x \in Range(s) /\ x # s[1]
  <2>1. PICK i \in 1 .. Len(t) : t[i] = x
    BY <1>3, ListElements
  <2>2. i + 1 \in 1 .. Len(s) /\ s[i + 1] = x /\ i + 1 # 1
    BY <1>3, <1>7, <2>1, Zenon
  <2>3. QED
    BY <1>4, <1>5, <2>2, ListElements
<1>9. ASSUME NEW x \in Range(s), x # s[1]
      PROVE  x \in Range(t)
  <2>1. PICK i \in 1 .. Len(s) : s[i] = x
    BY ListElements
  <2>2. i # 1
    BY <1>9, <2>1
  <2>3. i - 1 \in 1 .. Len(t) /\ (i - 1) + 1 = i
    BY <1>1, <1>3, <2>2
  <2>4. t[i - 1] = x
    BY <1>3, <2>1, <2>3, Zenon
  <2>5. QED
    BY <1>3, <2>3, <2>4, ListElements, Zenon
<1>10. IsInjective(t)
  <2>1. ASSUME NEW i \in 1 .. Len(t), NEW j \in 1 .. Len(t), t[i] = t[j]
        PROVE  i = j
    <3>1. i + 1 = j + 1
      BY <1>3, <1>4, <1>7, <2>1, ZenonT(30)
    <3>2. QED
      BY <3>1
  <2>2. QED
    BY <1>3, <2>1, ListElements, Zenon
<1>11. Range(t) = Range(s) \ {s[1]}
  BY <1>8, <1>9
<1>12. QED
  BY <1>1, <1>2, <1>3, <1>6, <1>10, <1>11

LEMMA Concatenated ==
    ASSUME NEW u \in Seq(Nat), NEW v \in Seq(Nat), NEW i \in 1 .. Len(u) + Len(v)
    PROVE  (u \o v)[i] = IF i <= Len(u) THEN u[i] ELSE v[i - Len(u)]
OBVIOUS

LEMMA ConcatenatedLen ==
    ASSUME NEW u \in Seq(Nat), NEW v \in Seq(Nat)
    PROVE  u \o v \in Seq(Nat) /\ Len(u \o v) = Len(u) + Len(v)
OBVIOUS

LEMMA NodeRemoved ==
    ASSUME NEW s \in Seq(Nat), IsInjective(s), NEW b \in Range(s)
    PROVE  /\ try_remove_from_list(s, b) \in Seq(Nat)
           /\ Range(try_remove_from_list(s, b)) = Range(s) \ {b}
           /\ IsInjective(try_remove_from_list(s, b))
<1> DEFINE First(i) == s[i] = b /\ \A j \in 1 .. i - 1 : s[j] # b
           n == CHOOSE i \in 1 .. Len(s) : First(i)
<1>1. Len(s) \in Nat /\ \A i \in 1 .. Len(s) : s[i] \in Nat
  BY ListElements
<1>2. \A i, j \in 1 .. Len(s) : s[i] = s[j] => i = j
  BY ListElements
<1>3. PICK m \in 1 .. Len(s) : s[m] = b
  BY ListElements
<1>4. First(m)
  <2>1. ASSUME NEW j \in 1 .. m - 1
        PROVE  s[j] # b
    <3>1. j \in 1 .. Len(s) /\ j # m
      BY <1>1
    <3>2. QED
      BY <1>2, <1>3, <3>1
  <2>2. QED
    BY <1>3, <2>1
<1>5. n \in 1 .. Len(s) /\ First(n)
  <2> HIDE DEF First
  <2>1. QED
    BY <1>4
<1>6. try_remove_from_list(s, b) = SubSeq(s, 1, n - 1) \o SubSeq(s, n + 1, Len(s))
  BY DEF try_remove_from_list
<1>7. n \in 1 .. Len(s) /\ s[n] = b
  BY <1>5
<1> HIDE DEF First, n
<1>8. PICK u : u = SubSeq(s, 1, n - 1)
  BY Zenon
<1>9. PICK v : v = SubSeq(s, n + 1, Len(s))
  BY Zenon
<1>10. u \in Seq(Nat) /\ Len(u) = n - 1 /\ \A i \in 1 .. n - 1 : u[i] = s[i]
  <2>1. \A i \in 1 .. n - 1 : s[i] \in Nat
    BY <1>1, <1>7
  <2>2. u \in Seq(Nat)
    BY <1>7, <1>8, <2>1
  <2>3. Len(u) = n - 1
    BY <1>7, <1>8, <2>1
  <2>4. \A i \in 1 .. n - 1 : u[i] = s[i]
    BY <1>7, <1>8, <2>1, <2>3
  <2>5. QED
    BY <2>2, <2>3, <2>4
<1>11. v \in Seq(Nat) /\ Len(v) = Len(s) - n /\ \A i \in 1 .. Len(s) - n : v[i] = s[n + i]
  <2>1. \A i \in n + 1 .. Len(s) : s[i] \in Nat
    BY <1>1, <1>7
  <2>2. n + 1 \in Int /\ Len(s) \in Int
    BY <1>1, <1>7
  <2>3. v \in Seq(Nat)
    BY <1>9, <2>1, <2>2
  <2>4. Len(v) = Len(s) - n
    BY <1>1, <1>7, <1>9, <2>1, <2>2
  <2>5. \A i \in 1 .. Len(s) - n : v[i] = s[n + i]
    BY <1>1, <1>7, <1>9, <2>1, <2>2, <2>4
  <2>6. QED
    BY <2>3, <2>4, <2>5
<1>12. PICK t : t = u \o v
  BY Zenon
<1>13. /\ t \in Seq(Nat)
       /\ Len(t) = Len(s) - 1
       /\ \A i \in 1 .. Len(s) - 1 : t[i] = IF i < n THEN s[i] ELSE s[i + 1]
  <2>1. t \in Seq(Nat) /\ Len(t) = Len(u) + Len(v)
    BY <1>10, <1>11, <1>12, ConcatenatedLen, ZenonT(30)
  <2>2. Len(t) = Len(s) - 1
    BY <1>1, <1>7, <1>10, <1>11, <2>1
  <2>3. ASSUME NEW i \in 1 .. Len(s) - 1
        PROVE  t[i] = IF i < n THEN s[i] ELSE s[i + 1]
    <3>1. i \in 1 .. Len(u) + Len(v)
      BY <2>1, <2>2
    <3>2. t[i] = IF i <= Len(u) THEN u[i] ELSE v[i - Len(u)]
      BY <1>10, <1>11, <1>12, <3>1, Concatenated, ZenonT(30)
    <3>3. CASE i < n
      <4>1. i \in 1 .. n - 1 /\ i <= Len(u)
        BY <1>7, <1>10, <3>3
      <4>2. QED
        BY <1>10, <3>2, <3>3, <4>1
    <3>4. CASE ~(i < n)
      <4>1. /\ ~(i <= Len(u))
            /\ i - Len(u) \in 1 .. Len(s) - n
            /\ n + (i - Len(u)) = i + 1
        BY <1>1, <1>7, <1>10, <3>4
      <4>2. QED
        BY <1>11, <3>2, <3>4, <4>1, ZenonT(30)
    <3>5. QED
      BY <3>3, <3>4
  <2>4. QED
    BY <2>1, <2>2, <2>3, Zenon
<1>14. ASSUME NEW i \in 1 .. Len(t)
       PROVE  \E j \in 1 .. Len(s) : j # n /\ t[i] = s[j] /\ j = IF i < n THEN i ELSE i + 1
  <2>1. CASE i < n
    <3>0. Len(s) \in Nat /\ Len(t) = Len(s) - 1 /\ n \in 1 .. Len(s)
      BY <1>1, <1>7, <1>13
    <3>1. i \in 1 .. Len(s) - 1 /\ i \in 1 .. Len(s) /\ i # n
      BY <2>1, <3>0
    <3>2. t[i] = s[i]
      BY <1>13, <2>1, <3>1
    <3>3. QED
      BY <2>1, <3>1, <3>2
  <2>2. CASE ~(i < n)
    <3>0. Len(s) \in Nat /\ Len(t) = Len(s) - 1 /\ n \in 1 .. Len(s)
      BY <1>1, <1>7, <1>13
    <3>1. i \in 1 .. Len(s) - 1 /\ i + 1 \in 1 .. Len(s) /\ i + 1 # n
      BY <2>2, <3>0
    <3>2. t[i] = s[i + 1]
      BY <1>13, <2>2, <3>1
    <3>3. QED
      BY <2>2, <3>1, <3>2
  <2>3. QED
    BY <2>1, <2>2
<1>15. ASSUME NEW x \in Range(t)
       PROVE  x \in Range(s) /\ x # b
  <2>1. PICK i \in 1 .. Len(t) : t[i] = x
    BY <1>13, ListElements
  <2>2. PICK j \in 1 .. Len(s) : j # n /\ s[j] = x
    BY <1>14, <2>1, Zenon
  <2>3. QED
    BY <1>2, <1>7, <2>2, ListElements, Zenon
<1>16. ASSUME NEW x \in Range(s), x # b
       PROVE  x \in Range(t)
  <2>1. PICK j \in 1 .. Len(s) : s[j] = x
    BY ListElements
  <2>2. j # n
    BY <1>7, <1>16, <2>1
  <2>3. CASE j < n
    <3>1. j \in 1 .. Len(s) - 1
      BY <1>1, <1>7, <2>3
    <3>2. t[j] = x
      BY <1>13, <2>1, <2>3, <3>1, Zenon
    <3>3. QED
      BY <1>13, <3>1, <3>2, ListElements, Zenon
  <2>4. CASE ~(j < n)
    <3>1. j - 1 \in 1 .. Len(t) /\ ~(j - 1 < n) /\ (j - 1) + 1 = j
      BY <1>1, <1>7, <1>13, <2>2, <2>4
    <3>2. t[j - 1] = x
      BY <1>13, <2>1, <3>1, Zenon
    <3>3. QED
      BY <1>13, <3>1, <3>2, ListElements, Zenon
  <2>5. QED
    BY <2>3, <2>4
<1>17. IsInjective(t)
  <2>1. ASSUME NEW i \in 1 .. Len(t), NEW k \in 1 .. Len(t), t[i] = t[k]
        PROVE  i = k
    <3>1. PICK j \in 1 .. Len(s) : t[i] = s[j] /\ j = IF i < n THEN i ELSE i + 1
      BY <1>14, ZenonT(30)
    <3>2. PICK l \in 1 .. Len(s) : t[k] = s[l] /\ l = IF k < n THEN k ELSE k + 1
      BY <1>14
    <3>3. j = l
      BY <1>2, <2>1, <3>1, <3>2, ZenonT(30)
    <3>4. QED
      BY <1>7, <3>1, <3>2, <3>3
  <2>2. QED
    BY <1>13, <2>1, ListElements, Zenon
<1>18. Range(t) = Range(s) \ {b}
  BY <1>15, <1>16
<1>19. t = try_remove_from_list(s, b)
  BY <1>6, <1>8, <1>9, <1>12
<1>20. QED
  BY <1>13, <1>17, <1>18, <1>19

----------------------------------------------------------------------------
(* Cutting the regions into blocks *)

RegionHolds(i, p, k) == Regions[i].start <= p /\ p + block_pages[k] <= Regions[i].end

(* While init_buddy_system runs, a free block lies in one region, and the  *)
(* block an order above it lies in none.                                   *)
FromRegions(free) == \A b \in free : \E i \in 1 .. Len(Regions) : RegionHolds(i, b.ppn, b.order)
Largest(free) ==
    \A b \in free : b.order < MAX_ORDER - 1 =>
        \A i \in 1 .. Len(Regions) : ~RegionHolds(i, block_of(b.ppn, b.order + 1), b.order + 1)

(* The loop never stands inside a block that the region holds as a whole. *)
CursorAt(r, c) ==
    /\ Regions[r].start <= c
    /\ c = Regions[r].start \/ c < Regions[r].end
    /\ \A k \in Orders : block_of(c, k) < c => ~RegionHolds(r, block_of(c, k), k)

(* The block the loop cuts off at c *)
CutAt(r, c, k) ==
    /\ c < Regions[r].end
    /\ c + block_pages[k] <= Regions[r].end
    /\ Aligned(c, k)
    /\ \A j \in Orders : c + block_pages[j] <= Regions[r].end /\ Aligned(c, j) => j <= k

(* Where the loop is in the region after this one *)
StartAfter(r) == IF r = Len(Regions) THEN 0 ELSE Regions[r + 1].start

LEMMA RegionFields ==
    /\ Len(Regions) \in Nat
    /\ \A i \in 1 .. Len(Regions) : Regions[i].start \in Nat /\ Regions[i].end \in Nat
    /\ \A i, j \in 1 .. Len(Regions) : i < j => Regions[i].end < Regions[j].start
<1>1. Len(Regions) \in Nat
  BY RegionsAssumption
<1>2. \A i \in 1 .. Len(Regions) : Regions[i] \in [start : Nat, end : Nat]
  <2> SUFFICES ASSUME NEW S, Regions \in Seq(S), NEW i \in 1 .. Len(Regions)
               PROVE  Regions[i] \in S
    BY RegionsAssumption, Zenon
  <2>1. QED
    OBVIOUS
<1>3. QED
  BY <1>1, <1>2, RegionsAssumption

LEMMA CutsAreMerged ==
    ASSUME NEW free, Placed(free, {}), FromRegions(free), Largest(free)
    PROVE  Merged(free)
<1> SUFFICES ASSUME NEW b \in free, b.order < MAX_ORDER - 1,
                    Block(buddy_of(b.ppn, b.order), b.order) \in free
             PROVE  FALSE
  BY DEF Merged
<1> DEFINE k == b.order
           q == buddy_of(b.ppn, k)
           P == block_of(b.ppn, k + 1)
           n == block_pages[k]
<1>1. b.ppn \in Nat /\ k \in Nat /\ k \in Orders /\ Aligned(b.ppn, k)
  BY BlocksOfPlaced
<1>2. q \in Nat /\ n \in Nat \ {0} /\ block_pages[k + 1] = 2 * n
  BY <1>1, BlockAndBuddy, BlockPages, Zenon
<1>3. k + 1 \in Nat
  BY <1>1
<1>4. P \in Nat
  BY <1>1, <1>3, BlockOf, Zenon
<1>5. (b.ppn = P /\ q = P + n) \/ (b.ppn = P + n /\ q = P)
  <2>1. block_of(b.ppn, k) = b.ppn
    BY <1>1, OfABlock
  <2>2. QED
    BY <1>1, <2>1, BlockAndBuddy, Zenon
<1>6. PICK i \in 1 .. Len(Regions) : RegionHolds(i, b.ppn, k)
  BY DEF FromRegions
<1>7. PICK j \in 1 .. Len(Regions) : RegionHolds(j, q, k)
  <2>1. Block(q, k).ppn = q /\ Block(q, k).order = k
    BY <1>1, <1>2, BlockFields
  <2>2. QED
    BY <2>1 DEF FromRegions
<1>8. ~RegionHolds(i, P, k + 1)
  BY <1>6 DEF Largest
<1> HIDE DEF k, q, P, n
<1>9. /\ Regions[i].start <= b.ppn /\ b.ppn + n <= Regions[i].end
      /\ Regions[j].start <= q /\ q + n <= Regions[j].end
      /\ ~(Regions[i].start <= P /\ P + 2 * n <= Regions[i].end)
  BY <1>2, <1>6, <1>7, <1>8 DEF RegionHolds, n
<1>10. PICK s1 \in Nat, e1 \in Nat, s2 \in Nat, e2 \in Nat :
           /\ s1 = Regions[i].start /\ e1 = Regions[i].end
           /\ s2 = Regions[j].start /\ e2 = Regions[j].end
  BY RegionFields
<1>11. (i < j => e1 < s2) /\ (j < i => e2 < s1) /\ (i = j => s1 = s2 /\ e1 = e2)
  BY <1>10, RegionFields, Zenon
<1>12. /\ s1 <= b.ppn /\ b.ppn + n <= e1
       /\ s2 <= q /\ q + n <= e2
       /\ ~(s1 <= P /\ P + 2 * n <= e1)
  BY <1>9, <1>10
<1>13. i < j \/ j < i \/ i = j
  OBVIOUS
<1>14. CASE b.ppn = P /\ q = P + n
  BY <1>2, <1>4, <1>11, <1>12, <1>13, <1>14
<1>15. CASE b.ppn = P + n /\ q = P
  BY <1>2, <1>4, <1>11, <1>12, <1>13, <1>15
<1>16. QED
  BY <1>5, <1>14, <1>15

LEMMA CursorStarts ==
    ASSUME NEW r \in 1 .. Len(Regions)
    PROVE  CursorAt(r, Regions[r].start)
<1>1. Regions[r].start \in Nat
  BY RegionFields
<1>2. ASSUME NEW k \in Orders, block_of(Regions[r].start, k) < Regions[r].start
      PROVE  ~RegionHolds(r, block_of(Regions[r].start, k), k)
  <2>1. block_of(Regions[r].start, k) \in Nat
    BY <1>1, BlockOf, OrdersAreNat, Zenon
  <2>2. QED
    BY <1>1, <1>2, <2>1 DEF RegionHolds
<1>3. QED
  BY <1>1, <1>2 DEF CursorAt

LEMMA CursorMoves ==
    ASSUME NEW r \in 1 .. Len(Regions), NEW c \in Nat, NEW k \in Orders,
           CursorAt(r, c), CutAt(r, c, k), c + block_pages[k] < Regions[r].end
    PROVE  CursorAt(r, c + block_pages[k])
<1> DEFINE n == block_pages[k]
           d == c + n
<1>1. k \in Nat /\ n \in Nat \ {0} /\ Regions[r].start \in Nat /\ Regions[r].end \in Nat
  BY OrdersAreNat, BlockPages, RegionFields, Zenon
<1>2. d \in Nat /\ c < d /\ Regions[r].start <= d /\ d < Regions[r].end
  BY <1>1 DEF CursorAt
<1>3. ASSUME NEW j \in Orders, block_of(d, j) < d, RegionHolds(r, block_of(d, j), j)
      PROVE  FALSE
  <2> DEFINE B == block_of(d, j)
  <2>1. j \in Nat
    BY OrdersAreNat
  <2>2. B \in Nat /\ Aligned(B, j) /\ d < B + block_pages[j] /\ block_pages[j] \in Nat
    BY <1>2, <2>1, BlockOf, BlockPages, Zenon
  <2>3. B < d /\ Regions[r].start <= B /\ B + block_pages[j] <= Regions[r].end
    BY <1>3 DEF RegionHolds
  <2> HIDE DEF B, d
  <2>4. CASE B < c
    <3>1. c < B + block_pages[j]
      BY <1>1, <1>2, <2>2
    <3>2. block_of(c, j) = B
      BY <2>1, <2>2, <2>4, <3>1, BlockOfUnique
    <3>3. QED
      BY <2>3, <2>4, <3>2 DEF CursorAt, RegionHolds
  <2>5. CASE ~(B < c)
    <3>1. c <= B /\ B < c + n
      BY <2>2, <2>3, <2>5 DEF d
    <3>2. j > k
      <4> SUFFICES ASSUME j <= k
                   PROVE  FALSE
        BY <1>1, <2>1
      <4>1. Aligned(c, k)
        BY DEF CutAt
      <4>2. Aligned(c, j)
        BY <1>1, <2>1, <4>1, AlignedBelow
      <4>3. Aligned(B, j) /\ block_of(B, k) = c
        BY <1>1, <2>2, <3>1, <4>1, BlockOfUnique DEF n
      <4>4. d < B + block_pages[j] /\ B < d
        BY <2>2, <2>3
      <4>5. Frames(block_of(B, j), j) \subseteq Frames(block_of(B, k), k)
        BY <1>1, <2>1, <2>2, Nested
      <4>6. block_of(B, j) = B
        BY <2>1, <2>2, OfABlock
      <4>7. d \in Frames(B, j)
        BY <1>2, <2>1, <2>2, <4>4, InFrames
      <4>8. d \in Frames(c, k)
        BY <4>3, <4>5, <4>6, <4>7
      <4>9. d < c + n
        BY <1>1, <4>8, InFrames DEF n
      <4>10. QED
        BY <1>1, <4>9 DEF d
    <3>3. Aligned(B, k)
      BY <1>1, <2>1, <2>2, <3>2, AlignedBelow
    <3>4. B = c
      <4>1. block_of(B, k) = B
        BY <1>1, <2>2, <3>3, OfABlock
      <4>2. block_of(B, k) = c
        BY <1>1, <2>2, <3>1, BlockOfUnique DEF CutAt, n
      <4>3. QED
        BY <4>1, <4>2
    <3>5. j <= k
      BY <2>2, <2>3, <3>4 DEF CutAt
    <3>6. QED
      BY <1>1, <2>1, <3>2, <3>5
  <2>6. QED
    BY <2>4, <2>5
<1>4. QED
  BY <1>2, <1>3 DEF CursorAt

(* A frame of a region is in no other region. *)
LEMMA RegionOfFrame ==
    ASSUME NEW r \in 1 .. Len(Regions), NEW i \in 1 .. Len(Regions), NEW f \in Nat,
           Regions[r].start <= f, f < Regions[r].end,
           Regions[i].start <= f, f < Regions[i].end
    PROVE  i = r
<1>1. PICK s1 \in Nat, e1 \in Nat, s2 \in Nat, e2 \in Nat :
           /\ s1 = Regions[i].start /\ e1 = Regions[i].end
           /\ s2 = Regions[r].start /\ e2 = Regions[r].end
  BY RegionFields, Zenon
<1>2. (i < r => e1 < s2) /\ (r < i => e2 < s1)
  BY <1>1, RegionFields
<1>3. s1 <= f /\ f < e1 /\ s2 <= f /\ f < e2
  BY <1>1
<1>4. ~(i < r) /\ ~(r < i)
  BY <1>2, <1>3
<1>5. QED
  BY <1>4

LEMMA CutIsLargest ==
    ASSUME NEW r \in 1 .. Len(Regions), NEW c \in Nat, NEW k \in Orders,
           CursorAt(r, c), CutAt(r, c, k), k < MAX_ORDER - 1, NEW i \in 1 .. Len(Regions)
    PROVE  ~RegionHolds(i, block_of(c, k + 1), k + 1)
<1> DEFINE P == block_of(c, k + 1)
<1>1. k \in Nat /\ k + 1 \in Nat /\ k + 1 \in Orders
  BY BlocksAssumption DEF Orders
<1>2. P \in Nat /\ Aligned(P, k + 1) /\ P <= c /\ c < P + block_pages[k + 1]
  BY <1>1, BlockOf, Zenon
<1>3. block_pages[k + 1] \in Nat
  BY <1>1, BlockPages, Zenon
<1> HIDE DEF P
<1> SUFFICES ASSUME RegionHolds(i, P, k + 1)
             PROVE  FALSE
  BY DEF P
<1>4. Regions[i].start \in Nat /\ Regions[i].end \in Nat
  BY RegionFields
<1>5. Regions[i].start <= P /\ P + block_pages[k + 1] <= Regions[i].end
  BY DEF RegionHolds
<1>6. Regions[i].start <= c /\ c < Regions[i].end
  BY <1>2, <1>3, <1>4, <1>5
<1>7. i = r
  BY <1>6, RegionOfFrame DEF CursorAt, CutAt
<1>8. CASE P < c
  BY <1>1, <1>7, <1>8 DEF CursorAt, P
<1>9. CASE P = c
  <2>1. k + 1 <= k
    BY <1>1, <1>2, <1>5, <1>7, <1>9 DEF CutAt
  <2>2. QED
    BY <1>1, <2>1
<1>10. QED
  BY <1>2, <1>8, <1>9

(* block_order finds it. *)
LEMMA BlockOrder ==
    ASSUME NEW r \in 1 .. Len(Regions), current_ppn \in Nat, current_ppn < Regions[r].end
    PROVE  LET k == block_order(Regions[r].end - current_ppn)
           IN  k \in Orders /\ CutAt(r, current_ppn, k)
<1> DEFINE rem == Regions[r].end - current_ppn
           Fit(k) == fits(k, rem)
           S == {d \in Nat : d <= MAX_ORDER - 1 /\ Fit((MAX_ORDER - 1) - d)}
<1>1. Regions[r].end \in Nat /\ rem \in Nat /\ rem >= 1 /\ MAX_ORDER - 1 \in Nat
  BY RegionFields, BlocksAssumption
<1>2. Fit(0)
  <2>1. 0 \in Nat /\ block_pages[0] = 1
    BY BlockPages
  <2>2. block_of(current_ppn, 0) = current_ppn
    <3>1. /\ block_of(current_ppn, 0) \in Nat
          /\ block_of(current_ppn, 0) <= current_ppn
          /\ current_ppn < block_of(current_ppn, 0) + block_pages[0]
      BY <2>1, BlockOf
    <3>2. QED
      BY <2>1, <3>1
  <2>3. Aligned(current_ppn, 0)
    BY <2>1, <2>2, BlockOf
  <2>4. QED
    BY <1>1, <2>1, <2>3 DEF fits
<1>3. S # {} /\ S \in SUBSET Nat
  <2>1. (MAX_ORDER - 1) - (MAX_ORDER - 1) = 0
    BY <1>1
  <2>2. MAX_ORDER - 1 \in S
    BY <1>1, <1>2, <2>1
  <2>3. QED
    BY <2>2
<1>4. PICK d \in S : \A e \in S : d <= e
  BY <1>3, LeastNat, Zenon
<1> DEFINE m == (MAX_ORDER - 1) - d
<1>5. m \in Orders /\ Fit(m)
  BY <1>1, <1>4 DEF Orders
<1>6. \A j \in Orders : Fit(j) => j <= m
  <2> SUFFICES ASSUME NEW j \in Orders, Fit(j)
               PROVE  j <= m
    OBVIOUS
  <2> HIDE DEF Fit
  <2>1. /\ (MAX_ORDER - 1) - j \in Nat /\ (MAX_ORDER - 1) - j <= MAX_ORDER - 1
        /\ (MAX_ORDER - 1) - ((MAX_ORDER - 1) - j) = j
    BY <1>1 DEF Orders
  <2>2. (MAX_ORDER - 1) - j \in S
    BY <2>1
  <2>3. d <= (MAX_ORDER - 1) - j /\ d \in Nat
    BY <1>4, <2>2
  <2>4. QED
    BY <1>1, <2>3 DEF Orders
<1> DEFINE k == block_order(rem)
<1>7. k \in Orders /\ Fit(k) /\ \A j \in Orders : Fit(j) => j <= k
  <2>1. k = CHOOSE n \in Orders : Fit(n) /\ \A j \in Orders : Fit(j) => j <= n
    BY DEF block_order
  <2> HIDE DEF Fit, m, k
  <2>2. QED
    BY <1>5, <1>6, <2>1
<1>8. \A j \in Orders : Fit(j) <=>
          current_ppn + block_pages[j] <= Regions[r].end /\ Aligned(current_ppn, j)
  <2> SUFFICES ASSUME NEW j \in Orders
               PROVE  block_pages[j] <= rem <=> current_ppn + block_pages[j] <= Regions[r].end
    BY DEF fits
  <2>1. block_pages[j] \in Nat
    BY BlockPages, OrdersAreNat
  <2>2. QED
    BY <1>1, <2>1
<1> HIDE DEF Fit, k
<1>9. QED
  BY <1>7, <1>8 DEF CutAt, k

(* What has been added when the loop is at c in region r *)
AddedAt(r, c) ==
    (UNION {Regions[i].start .. Regions[i].end - 1 : i \in 1 .. r - 1})
    \cup (IF r <= Len(Regions) THEN Regions[r].start .. c - 1 ELSE {})

LEMMA InAdded ==
    ASSUME NEW r \in 1 .. Len(Regions) + 1, NEW c \in Nat, NEW f
    PROVE  f \in AddedAt(r, c) <=>
               \/ \E i \in 1 .. r - 1 : f \in Nat /\ Regions[i].start <= f /\ f < Regions[i].end
               \/ f \in Nat /\ r <= Len(Regions) /\ Regions[r].start <= f /\ f < c
<1>1. \A i \in 1 .. Len(Regions) : Regions[i].start \in Nat /\ Regions[i].end \in Nat
  BY RegionFields
<1>2. \A i \in 1 .. r - 1 : i \in 1 .. Len(Regions)
  BY RegionFields
<1>3. r <= Len(Regions) => r \in 1 .. Len(Regions)
  BY RegionFields
<1>4. \A s, e \in Nat : f \in s .. e - 1 <=> f \in Nat /\ s <= f /\ f < e
  OBVIOUS
<1>5. (\E i \in 1 .. r - 1 : f \in Regions[i].start .. Regions[i].end - 1) <=>
          \E i \in 1 .. r - 1 : f \in Nat /\ Regions[i].start <= f /\ f < Regions[i].end
  BY <1>1, <1>2, <1>4
<1>6. r <= Len(Regions) =>
          (f \in Regions[r].start .. c - 1 <=> f \in Nat /\ Regions[r].start <= f /\ f < c)
  BY <1>1, <1>3, <1>4
<1>7. f \in AddedAt(r, c) <=>
          \/ \E i \in 1 .. r - 1 : f \in Regions[i].start .. Regions[i].end - 1
          \/ r <= Len(Regions) /\ f \in Regions[r].start .. c - 1
  <2> DEFINE before == UNION {Regions[i].start .. Regions[i].end - 1 : i \in 1 .. r - 1}
             now == IF r <= Len(Regions) THEN Regions[r].start .. c - 1 ELSE {}
  <2>1. f \in before <=> \E i \in 1 .. r - 1 : f \in Regions[i].start .. Regions[i].end - 1
    BY Zenon
  <2>2. f \in now <=> r <= Len(Regions) /\ f \in Regions[r].start .. c - 1
    BY Zenon
  <2>3. AddedAt(r, c) = before \cup now
    BY DEF AddedAt
  <2> HIDE DEF before, now
  <2>4. QED
    BY <2>1, <2>2, <2>3
<1>8. QED
  BY <1>5, <1>6, <1>7

(* The next region starts with nothing added of it. *)
LEMMA AddedInNextRegion ==
    ASSUME NEW r \in 1 .. Len(Regions)
    PROVE  /\ r + 1 \in 1 .. Len(Regions) + 1
           /\ StartAfter(r) \in Nat
           /\ \A f : f \in AddedAt(r + 1, StartAfter(r)) <=>
                  \E i \in 1 .. r : f \in Nat /\ Regions[i].start <= f /\ f < Regions[i].end
<1>1. r + 1 \in 1 .. Len(Regions) + 1 /\ (r + 1) - 1 = r /\ Len(Regions) \in Nat
  BY RegionFields
<1>2. r # Len(Regions) => r + 1 \in 1 .. Len(Regions)
  BY <1>1
<1>3. StartAfter(r) \in Nat
  BY <1>2, RegionFields DEF StartAfter
<1>4. ASSUME NEW f
      PROVE  f \in AddedAt(r + 1, StartAfter(r)) <=>
                 \E i \in 1 .. r : f \in Nat /\ Regions[i].start <= f /\ f < Regions[i].end
  <2>1. f \in AddedAt(r + 1, StartAfter(r)) <=>
            \/ \E i \in 1 .. r : f \in Nat /\ Regions[i].start <= f /\ f < Regions[i].end
            \/ /\ f \in Nat /\ r + 1 <= Len(Regions)
               /\ Regions[r + 1].start <= f /\ f < StartAfter(r)
    BY <1>1, <1>3, InAdded, Zenon
  <2>2. ~(/\ f \in Nat /\ r + 1 <= Len(Regions)
          /\ Regions[r + 1].start <= f /\ f < StartAfter(r))
    <3>1. r + 1 <= Len(Regions) => /\ StartAfter(r) = Regions[r + 1].start
                                   /\ Regions[r + 1].start \in Nat
      BY <1>1, <1>2, RegionFields DEF StartAfter
    <3>2. QED
      BY <3>1
  <2>3. QED
    BY <2>1, <2>2
<1>5. QED
  BY <1>1, <1>3, <1>4

(* One turn of the loop adds the block it cuts off, and nothing else. *)
LEMMA AddedByCut ==
    ASSUME NEW r \in 1 .. Len(Regions), NEW c \in Nat, NEW k \in Orders,
           CursorAt(r, c), CutAt(r, c, k)
    PROVE  /\ Frames(c, k) \cap AddedAt(r, c) = {}
           /\ AddedAt(r, c + block_pages[k]) = AddedAt(r, c) \cup Frames(c, k)
           /\ c + block_pages[k] = Regions[r].end =>
                  AddedAt(r + 1, StartAfter(r)) = AddedAt(r, c) \cup Frames(c, k)
<1> DEFINE n == block_pages[k]
           Earlier(f) == \E i \in 1 .. r - 1 :
                             f \in Nat /\ Regions[i].start <= f /\ f < Regions[i].end
<1>1. /\ k \in Nat /\ n \in Nat \ {0} /\ c + n \in Nat
      /\ Regions[r].start \in Nat /\ Regions[r].end \in Nat
  <2>1. k \in Nat
    BY OrdersAreNat
  <2>2. n \in Nat \ {0}
    BY <2>1, BlockPages
  <2>3. QED
    BY <2>1, <2>2, RegionFields
<1>2. Regions[r].start <= c /\ c < Regions[r].end /\ c + n <= Regions[r].end
  BY DEF CursorAt, CutAt
<1>3. r \in 1 .. Len(Regions) + 1 /\ r <= Len(Regions)
  BY RegionFields
<1>4. \A f : f \in Frames(c, k) <=> f \in Nat /\ c <= f /\ f < c + n
  BY <1>1, InFrames
<1>5. \A f : f \in AddedAt(r, c) <=>
          Earlier(f) \/ (f \in Nat /\ Regions[r].start <= f /\ f < c)
  BY <1>3, InAdded
<1>6. \A f : f \in AddedAt(r, c + n) <=>
          Earlier(f) \/ (f \in Nat /\ Regions[r].start <= f /\ f < c + n)
  BY <1>1, <1>3, InAdded, Zenon
<1>7. \A f : f \in AddedAt(r + 1, StartAfter(r)) <=>
          Earlier(f) \/ (f \in Nat /\ Regions[r].start <= f /\ f < Regions[r].end)
  <2> SUFFICES ASSUME NEW f
               PROVE  f \in AddedAt(r + 1, StartAfter(r)) <=>
                          Earlier(f) \/ (f \in Nat /\ Regions[r].start <= f /\ f < Regions[r].end)
    OBVIOUS
  <2>1. f \in AddedAt(r + 1, StartAfter(r)) <=>
            \E i \in 1 .. r : f \in Nat /\ Regions[i].start <= f /\ f < Regions[i].end
    BY AddedInNextRegion, Zenon
  <2>2. \A i : i \in 1 .. r <=> i \in 1 .. r - 1 \/ i = r
    OBVIOUS
  <2>3. QED
    BY <2>1, <2>2
<1>8. \A f : f \in Frames(c, k) => ~Earlier(f)
  <2> SUFFICES ASSUME NEW f \in Frames(c, k), NEW i \in 1 .. r - 1,
                      f \in Nat, Regions[i].start <= f, f < Regions[i].end
               PROVE  FALSE
    OBVIOUS
  <2>1. c <= f /\ f < c + n
    BY <1>4
  <2>2. Regions[r].start <= f /\ f < Regions[r].end
    BY <1>1, <1>2, <2>1
  <2>3. i \in 1 .. Len(Regions) /\ i # r
    BY RegionFields
  <2>4. QED
    BY <2>2, <2>3, RegionOfFrame
<1> HIDE DEF Earlier, n
<1>9. ASSUME NEW f
      PROVE  /\ ~(f \in Frames(c, k) /\ f \in AddedAt(r, c))
             /\ f \in AddedAt(r, c + n) <=> f \in AddedAt(r, c) \/ f \in Frames(c, k)
             /\ c + n = Regions[r].end =>
                    (f \in AddedAt(r + 1, StartAfter(r)) <=>
                         f \in AddedAt(r, c) \/ f \in Frames(c, k))
  <2>1. CASE f \notin Nat
    BY <1>4, <1>5, <1>6, <1>7, <1>8, <2>1
  <2>2. CASE f \in Nat
    <3>1. f \in Frames(c, k) <=> c <= f /\ f < c + n
      BY <1>4, <2>2
    <3>2. f \in AddedAt(r, c) <=> Earlier(f) \/ (Regions[r].start <= f /\ f < c)
      BY <1>5, <2>2
    <3>3. f \in AddedAt(r, c + n) <=> Earlier(f) \/ (Regions[r].start <= f /\ f < c + n)
      BY <1>6, <2>2
    <3>4. f \in AddedAt(r + 1, StartAfter(r)) <=>
              Earlier(f) \/ (Regions[r].start <= f /\ f < Regions[r].end)
      BY <1>7, <2>2
    <3>5. c <= f /\ f < c + n => ~Earlier(f)
      BY <1>8, <3>1
    <3>6. QED
      BY <1>1, <1>2, <2>2, <3>1, <3>2, <3>3, <3>4, <3>5
  <2>3. QED
    BY <2>1, <2>2
<1>10. Frames(c, k) \cap AddedAt(r, c) = {}
  BY <1>9
<1>11. AddedAt(r, c + n) = AddedAt(r, c) \cup Frames(c, k)
  BY <1>9
<1>12. c + n = Regions[r].end => AddedAt(r + 1, StartAfter(r)) = AddedAt(r, c) \cup Frames(c, k)
  BY <1>9
<1>13. QED
  BY <1>10, <1>11, <1>12 DEF n

(* A region without a whole page adds nothing. *)
LEMMA AddedByEmpty ==
    ASSUME NEW r \in 1 .. Len(Regions), NEW c \in Nat, CursorAt(r, c), c >= Regions[r].end
    PROVE  AddedAt(r + 1, StartAfter(r)) = AddedAt(r, c)
<1>1. Regions[r].start \in Nat /\ Regions[r].end \in Nat /\ r \in 1 .. Len(Regions) + 1
  BY RegionFields
<1>2. c = Regions[r].start
  BY <1>1 DEF CursorAt
<1>3. ASSUME NEW f
      PROVE  f \in AddedAt(r + 1, StartAfter(r)) <=> f \in AddedAt(r, c)
  <2>1. f \in AddedAt(r + 1, StartAfter(r)) <=>
            \E i \in 1 .. r : f \in Nat /\ Regions[i].start <= f /\ f < Regions[i].end
    BY AddedInNextRegion
  <2>2. \A i : i \in 1 .. r <=> i \in 1 .. r - 1 \/ i = r
    OBVIOUS
  <2>3. ~(f \in Nat /\ Regions[r].start <= f /\ f < Regions[r].end)
    BY <1>1, <1>2
  <2>4. ~(f \in Nat /\ Regions[r].start <= f /\ f < c)
    BY <1>1, <1>2
  <2>5. f \in AddedAt(r, c) <=>
            \/ \E i \in 1 .. r - 1 : f \in Nat /\ Regions[i].start <= f /\ f < Regions[i].end
            \/ f \in Nat /\ r <= Len(Regions) /\ Regions[r].start <= f /\ f < c
    BY <1>1, InAdded
  <2>6. QED
    BY <2>1, <2>2, <2>3, <2>4, <2>5
<1>4. QED
  BY <1>3, Zenon

----------------------------------------------------------------------------
(* The inductive invariant *)

BlocksIn(lists) == {b \in BlockSet : b.ppn \in Range(lists[b.order])}
HeldBlock(a) == Block(a.ppn, pages_to_order(a.pages))
HeldIn(held) == {HeldBlock(a) : a \in held}

BuddyTypeOK ==
    /\ free_lists \in [Orders -> Seq(Nat)]
    /\ allocated \subseteq [ppn : Nat, pages : PageCounts]
    /\ region \in 1 .. Len(Regions) + 1
    /\ current_ppn \in Nat

(* Two callers never hold the same block, whatever sizes they asked for. *)
HeldOnce == \A a, b \in allocated : HeldBlock(a) = HeldBlock(b) => a = b

BootInv ==
    Booting =>
        /\ allocated = {}
        /\ CursorAt(region, current_ppn)
        /\ FromRegions(BlocksIn(free_lists))
        /\ Largest(BlocksIn(free_lists))

BuddyInv ==
    /\ BuddyTypeOK
    /\ \A k \in Orders : IsInjective(free_lists[k])
    /\ Placed(BlocksIn(free_lists), HeldIn(allocated))
    /\ Merged(BlocksIn(free_lists))
    /\ FramesOf(BlocksIn(free_lists) \cup HeldIn(allocated)) = AddedAt(region, current_ppn)
    /\ HeldOnce
    /\ BootInv

LEMMA InLists ==
    ASSUME NEW lists, NEW p \in Nat, NEW k \in Orders
    PROVE  Block(p, k) \in BlocksIn(lists) <=> p \in Range(lists[k])
<1>1. Block(p, k) \in BlockSet /\ Block(p, k).ppn = p /\ Block(p, k).order = k
  BY BlockFields
<1>2. QED
  BY <1>1 DEF BlocksIn

LEMMA InBuddies ==
    ASSUME NEW p \in Nat, NEW lo \in Nat, NEW hi \in Orders, lo <= hi, NEW b \in BlockSet
    PROVE  b \in Buddies(p, lo, hi) <=> b.order \in lo .. hi - 1 /\ b.ppn = buddy_of(p, b.order)
<1>1. b.order \in Nat /\ b = Block(b.ppn, b.order)
  BY FirstFrame
<1>2. ASSUME b \in Buddies(p, lo, hi)
      PROVE  b.order \in lo .. hi - 1 /\ b.ppn = buddy_of(p, b.order)
  BY <1>2 DEF Buddies
<1>3. ASSUME b.order \in lo .. hi - 1, b.ppn = buddy_of(p, b.order)
      PROVE  b \in Buddies(p, lo, hi)
  BY <1>1, <1>3 DEF Buddies, Block
<1>4. QED
  BY <1>2, <1>3

(* The blocks of the lists after add_free_block *)
LEMMA AddList ==
    ASSUME free_lists \in [Orders -> Seq(Nat)], \A k \in Orders : IsInjective(free_lists[k]),
           NEW p \in Nat, NEW o \in Orders, p \notin Range(free_lists[o])
    PROVE  LET lists == add_free_block(p, o)
           IN  /\ lists \in [Orders -> Seq(Nat)]
               /\ \A k \in Orders : IsInjective(lists[k])
               /\ BlocksIn(lists) = BlocksIn(free_lists) \cup {Block(p, o)}
<1> DEFINE lists == add_free_block(p, o)
<1>1. <<p>> \o free_lists[o] \in Seq(Nat)
  BY HeadInserted
<1>2. lists \in [Orders -> Seq(Nat)]
  BY <1>1 DEF add_free_block
<1>3. lists[o] = <<p>> \o free_lists[o] /\ \A k \in Orders \ {o} : lists[k] = free_lists[k]
  BY DEF add_free_block
<1> HIDE DEF lists
<1>4. Range(lists[o]) = {p} \cup Range(free_lists[o]) /\ IsInjective(lists[o])
  <2>1. free_lists[o] \in Seq(Nat)
    OBVIOUS
  <2>2. QED
    BY <1>3, <2>1, HeadInserted
<1>5. \A k \in Orders : IsInjective(lists[k])
  BY <1>3, <1>4, Zenon
<1>6. ASSUME NEW b \in BlockSet
      PROVE  b \in BlocksIn(lists) <=> b \in BlocksIn(free_lists) \cup {Block(p, o)}
  <2>1. b.order \in Orders /\ b = Block(b.ppn, b.order)
    BY FirstFrame
  <2>2. b = Block(p, o) <=> b.ppn = p /\ b.order = o
    BY <2>1, BlockFields
  <2>3. Range(lists[b.order]) = IF b.order = o THEN {p} \cup Range(free_lists[o])
                                              ELSE Range(free_lists[b.order])
    BY <1>3, <1>4, <2>1, Zenon
  <2>4. QED
    BY <2>2, <2>3 DEF BlocksIn
<1>7. BlocksIn(lists) = BlocksIn(free_lists) \cup {Block(p, o)}
  <2>1. Block(p, o) \in BlockSet
    BY BlockFields
  <2>2. BlocksIn(lists) \subseteq BlockSet /\ BlocksIn(free_lists) \subseteq BlockSet
    BY DEF BlocksIn
  <2>3. QED
    BY <1>6, <2>1, <2>2
<1>8. QED
  BY <1>2, <1>5, <1>7 DEF lists

(* ... after the split of the head of a list, the lists between being empty *)
LEMMA SplitList ==
    ASSUME free_lists \in [Orders -> Seq(Nat)], \A k \in Orders : IsInjective(free_lists[k]),
           NEW p \in Nat, NEW lo \in Nat, NEW hi \in Orders, lo <= hi, Aligned(p, hi),
           free_lists[hi] # << >>, p = Head(free_lists[hi]),
           \A k \in lo .. hi - 1 : free_lists[k] = << >>
    PROVE  LET lists == split(lo, hi, p)
           IN  /\ lists \in [Orders -> Seq(Nat)]
               /\ \A k \in Orders : IsInjective(lists[k])
               /\ BlocksIn(lists) = (BlocksIn(free_lists) \ {Block(p, hi)}) \cup Buddies(p, lo, hi)
<1> DEFINE lists == split(lo, hi, p)
           list(k) == IF k = hi THEN Tail(free_lists[k])
                      ELSE IF k >= lo /\ k < hi THEN <<p + block_pages[k]>> \o free_lists[k]
                      ELSE free_lists[k]
<1>1. lists = [k \in Orders |-> list(k)]
  BY DEF split
<1>2. hi \in Nat
  BY OrdersAreNat
<1>3. ASSUME NEW k \in lo .. hi - 1
      PROVE  /\ k \in Orders /\ k \in Nat /\ buddy_of(p, k) = p + block_pages[k]
             /\ p + block_pages[k] \in Nat
  <2>1. k \in Orders /\ k \in Nat /\ k + 1 \in Nat /\ k + 1 <= hi
    BY <1>2, BlocksAssumption DEF Orders
  <2>2. Aligned(p, k) /\ Aligned(p, k + 1)
    BY <1>2, <2>1, AlignedBelow
  <2>3. block_of(p, k) = p
    BY <2>1, <2>2, OfABlock
  <2>4. block_pages[k] \in Nat
    BY <2>1, BlockPages, ZenonT(30)
  <2>5. p + block_pages[k] \in Nat
    BY <2>4
  <2>6. buddy_of(p, k) = p + block_pages[k]
    BY <2>2, <2>3, Zenon DEF buddy_of
  <2>7. QED
    BY <2>1, <2>5, <2>6
<1>4. ASSUME NEW k \in Orders
      PROVE  /\ list(k) \in Seq(Nat)
             /\ IsInjective(list(k))
             /\ \A x : x \in Range(list(k)) <=>
                    \/ x \in Range(free_lists[k]) /\ ~(x = p /\ k = hi)
                    \/ k \in lo .. hi - 1 /\ x = buddy_of(p, k)
  <2>1. k \in Nat /\ free_lists[k] \in Seq(Nat) /\ IsInjective(free_lists[k])
    BY OrdersAreNat
  <2>2. CASE k = hi
    <3>1. list(k) = Tail(free_lists[k]) /\ k \notin lo .. hi - 1
      BY <1>2, <2>2
    <3>2. /\ Tail(free_lists[k]) \in Seq(Nat)
          /\ Range(Tail(free_lists[k])) = Range(free_lists[k]) \ {p}
          /\ IsInjective(Tail(free_lists[k]))
      BY <2>1, <2>2, HeadTaken
    <3> HIDE DEF list
    <3>3. QED
      BY <2>2, <3>1, <3>2
  <2>3. CASE k \in lo .. hi - 1
    <3>1. list(k) = <<p + block_pages[k]>> \o free_lists[k] /\ k # hi
      BY <1>2, <2>1, <2>3
    <3>2. free_lists[k] = << >> /\ Range(free_lists[k]) = {}
      BY <2>3 DEF Range
    <3>3. /\ list(k) \in Seq(Nat)
          /\ Range(list(k)) = {p + block_pages[k]} \cup Range(free_lists[k])
          /\ IsInjective(list(k))
      <4>1. p + block_pages[k] \in Nat /\ p + block_pages[k] \notin Range(free_lists[k])
        BY <1>3, <2>3, <3>2
      <4> HIDE DEF list
      <4>2. QED
        BY <2>1, <3>1, <4>1, HeadInserted
    <3> HIDE DEF list
    <3>4. QED
      BY <1>3, <2>3, <3>1, <3>2, <3>3, Zenon
  <2>4. CASE k # hi /\ k \notin lo .. hi - 1
    <3>1. list(k) = free_lists[k]
      BY <1>2, <2>1, <2>4
    <3> HIDE DEF list
    <3>2. QED
      BY <2>1, <2>4, <3>1
  <2>5. QED
    BY <2>2, <2>3, <2>4, Zenon
<1> HIDE DEF list, lists
<1>5. lists \in [Orders -> Seq(Nat)] /\ \A k \in Orders : lists[k] = list(k)
  BY <1>1, <1>4
<1>6. \A k \in Orders : IsInjective(lists[k])
  BY <1>4, <1>5
<1>7. ASSUME NEW b \in BlockSet
      PROVE  b \in BlocksIn(lists) <=>
                 b \in (BlocksIn(free_lists) \ {Block(p, hi)}) \cup Buddies(p, lo, hi)
  <2>1. b.order \in Orders /\ b = Block(b.ppn, b.order)
    BY FirstFrame
  <2>2. b = Block(p, hi) <=> b.ppn = p /\ b.order = hi
    BY <2>1, BlockFields
  <2>3. b \in Buddies(p, lo, hi) <=> b.order \in lo .. hi - 1 /\ b.ppn = buddy_of(p, b.order)
    BY InBuddies
  <2>4. b.ppn \in Range(lists[b.order]) <=>
            \/ b.ppn \in Range(free_lists[b.order]) /\ ~(b.ppn = p /\ b.order = hi)
            \/ b.order \in lo .. hi - 1 /\ b.ppn = buddy_of(p, b.order)
    BY <1>4, <1>5, <2>1
  <2>5. QED
    BY <2>2, <2>3, <2>4 DEF BlocksIn
<1>8. BlocksIn(lists) = (BlocksIn(free_lists) \ {Block(p, hi)}) \cup Buddies(p, lo, hi)
  <2>1. Buddies(p, lo, hi) \subseteq BlockSet
    BY ChainBlocks, Zenon
  <2>2. BlocksIn(lists) \subseteq BlockSet /\ BlocksIn(free_lists) \subseteq BlockSet
    BY DEF BlocksIn
  <2>3. QED
    BY <1>7, <2>1, <2>2
<1>9. QED
  BY <1>5, <1>6, <1>8 DEF lists

(* ... and after the merge of a block *)
LEMMA MergeList ==
    ASSUME free_lists \in [Orders -> Seq(Nat)], \A k \in Orders : IsInjective(free_lists[k]),
           NEW p \in Nat, NEW lo \in Nat, NEW hi \in Orders, lo <= hi,
           \A k \in lo .. hi - 1 : buddy_of(p, k) \in Range(free_lists[k]),
           block_of(p, hi) \notin Range(free_lists[hi])
    PROVE  LET lists == merge(p, lo, hi)
           IN  /\ lists \in [Orders -> Seq(Nat)]
               /\ \A k \in Orders : IsInjective(lists[k])
               /\ BlocksIn(lists) =
                      (BlocksIn(free_lists) \ Buddies(p, lo, hi)) \cup {Block(block_of(p, hi), hi)}
<1> DEFINE lists == merge(p, lo, hi)
           P == block_of(p, hi)
           list(k) == IF k = hi THEN <<block_of(p, k)>> \o free_lists[k]
                      ELSE IF k >= lo /\ k < hi
                           THEN try_remove_from_list(free_lists[k], buddy_of(p, k))
                      ELSE free_lists[k]
<1>1. lists = [k \in Orders |-> list(k)]
  BY DEF merge
<1>2. hi \in Nat /\ P \in Nat
  BY OrdersAreNat, BlockOf
<1>3. ASSUME NEW k \in Orders
      PROVE  /\ list(k) \in Seq(Nat)
             /\ IsInjective(list(k))
             /\ \A x : x \in Range(list(k)) <=>
                    \/ x \in Range(free_lists[k]) /\ ~(k \in lo .. hi - 1 /\ x = buddy_of(p, k))
                    \/ k = hi /\ x = P
  <2>1. k \in Nat /\ free_lists[k] \in Seq(Nat) /\ IsInjective(free_lists[k])
    BY OrdersAreNat
  <2>2. CASE k = hi
    <3>1. list(k) = <<P>> \o free_lists[k] /\ k \notin lo .. hi - 1
      BY <1>2, <2>2
    <3>2. P \notin Range(free_lists[k])
      BY <2>2
    <3> HIDE DEF list, P
    <3>3. /\ list(k) \in Seq(Nat)
          /\ Range(list(k)) = {P} \cup Range(free_lists[k])
          /\ IsInjective(list(k))
      BY <1>2, <2>1, <3>1, <3>2, HeadInserted
    <3>4. QED
      BY <2>2, <3>1, <3>3
  <2>3. CASE k \in lo .. hi - 1
    <3>1. list(k) = try_remove_from_list(free_lists[k], buddy_of(p, k)) /\ k # hi
      BY <1>2, <2>1, <2>3
    <3>2. buddy_of(p, k) \in Range(free_lists[k])
      BY <2>3
    <3> HIDE DEF list, P
    <3>3. /\ list(k) \in Seq(Nat)
          /\ Range(list(k)) = Range(free_lists[k]) \ {buddy_of(p, k)}
          /\ IsInjective(list(k))
      BY <2>1, <3>1, <3>2, NodeRemoved
    <3>4. QED
      BY <2>3, <3>1, <3>3
  <2>4. CASE k # hi /\ k \notin lo .. hi - 1
    <3>1. list(k) = free_lists[k]
      BY <1>2, <2>1, <2>4
    <3> HIDE DEF list
    <3>2. QED
      BY <2>1, <2>4, <3>1
  <2>5. QED
    BY <2>2, <2>3, <2>4
<1> HIDE DEF list, lists, P
<1>4. lists \in [Orders -> Seq(Nat)] /\ \A k \in Orders : lists[k] = list(k)
  BY <1>1, <1>3
<1>5. \A k \in Orders : IsInjective(lists[k])
  BY <1>3, <1>4
<1>6. ASSUME NEW b \in BlockSet
      PROVE  b \in BlocksIn(lists) <=>
                 b \in (BlocksIn(free_lists) \ Buddies(p, lo, hi)) \cup {Block(P, hi)}
  <2>1. b.order \in Orders /\ b = Block(b.ppn, b.order)
    BY FirstFrame
  <2>2. b = Block(P, hi) <=> b.ppn = P /\ b.order = hi
    BY <1>2, <2>1, BlockFields
  <2>3. b \in Buddies(p, lo, hi) <=> b.order \in lo .. hi - 1 /\ b.ppn = buddy_of(p, b.order)
    BY InBuddies
  <2>4. b.ppn \in Range(lists[b.order]) <=>
            \/ /\ b.ppn \in Range(free_lists[b.order])
               /\ ~(b.order \in lo .. hi - 1 /\ b.ppn = buddy_of(p, b.order))
            \/ b.order = hi /\ b.ppn = P
    BY <1>3, <1>4, <2>1
  <2>5. QED
    BY <2>2, <2>3, <2>4 DEF BlocksIn
<1>7. BlocksIn(lists) = (BlocksIn(free_lists) \ Buddies(p, lo, hi)) \cup {Block(P, hi)}
  <2>1. Block(P, hi) \in BlockSet
    BY <1>2, BlockFields
  <2>2. BlocksIn(lists) \subseteq BlockSet /\ BlocksIn(free_lists) \subseteq BlockSet
    BY DEF BlocksIn
  <2>3. QED
    BY <1>6, <2>1, <2>2
<1>8. QED
  BY <1>4, <1>5, <1>7 DEF lists, P

(* The loop of dealloc stops at an order. *)
LEMMA MergedOrder ==
    ASSUME NEW p \in Nat, NEW lo \in Orders
    PROVE  LET m == merged_order(p, lo)
           IN  /\ m \in Orders /\ lo <= m
               /\ m < MAX_ORDER - 1 => ~buddy_is_free(p, m)
               /\ \A k \in lo .. m - 1 : buddy_is_free(p, k)
<1> DEFINE Stops(k) == k < MAX_ORDER - 1 => ~buddy_is_free(p, k)
           S == {k \in Nat : lo <= k /\ k <= MAX_ORDER - 1 /\ Stops(k)}
           m == merged_order(p, lo)
<1>1. MAX_ORDER - 1 \in Nat /\ lo \in Nat /\ lo <= MAX_ORDER - 1
  BY BlocksAssumption DEF Orders
<1>2. MAX_ORDER - 1 \in S /\ S \in SUBSET Nat
  BY <1>1
<1>3. S # {}
  BY <1>2
<1>4. PICK n \in S : \A k \in S : n <= k
  BY <1>2, <1>3, LeastNat, Zenon
<1>5. n \in lo .. MAX_ORDER - 1 /\ Stops(n)
  BY <1>1, <1>4
<1>6. \A k \in lo .. n - 1 : buddy_is_free(p, k)
  <2> SUFFICES ASSUME NEW k \in lo .. n - 1, ~buddy_is_free(p, k)
               PROVE  FALSE
    OBVIOUS
  <2>1. k \in Nat /\ lo <= k /\ k <= MAX_ORDER - 1 /\ k < n
    BY <1>1, <1>5
  <2>2. k \in S
    BY <2>1
  <2>3. QED
    BY <1>1, <1>4, <1>5, <2>1, <2>2
<1>7. /\ m \in lo .. MAX_ORDER - 1
      /\ Stops(m)
      /\ \A k \in lo .. m - 1 : buddy_is_free(p, k)
  BY <1>5, <1>6, Zenon DEF merged_order
<1> HIDE DEF m
<1>8. m \in Orders /\ lo <= m
  BY <1>1, <1>7 DEF Orders
<1>9. QED
  BY <1>7, <1>8 DEF m

----------------------------------------------------------------------------
(* The steps *)

LEMMA OrderOfRequest ==
    ASSUME NEW pages \in PageCounts
    PROVE  pages_to_order(pages) \in Nat
<1>1. pages \in Nat \ {0}
  BY BlocksAssumption
<1>2. QED
  BY <1>1, PagesToOrder

LEMMA AllocStep ==
    ASSUME BuddyInv, NEW pages \in PageCounts, alloc(pages)
    PROVE  /\ BuddyInv'
           /\ pages_to_order(pages) \in Orders
           /\ \E p \in Nat :
                  /\ Aligned(p, pages_to_order(pages))
                  /\ Frames(p, pages_to_order(pages)) \subseteq FramesOf(BlocksIn(free_lists))
                  /\ FramesOf(BlocksIn(free_lists')) =
                         FramesOf(BlocksIn(free_lists)) \ Frames(p, pages_to_order(pages))
                  /\ allocated' = allocated \cup {[ppn |-> p, pages |-> pages]}
                  /\ result' = [pages |-> pages, ppn |-> p]
<1> DEFINE lo == pages_to_order(pages)
           F == BlocksIn(free_lists)
           H == HeldIn(allocated)
<1>1. lo \in Nat
  BY OrderOfRequest
<1>2. PICK hi \in Nonempty(lo) :
          /\ \A k \in Nonempty(lo) : hi <= k
          /\ free_lists' = split(lo, hi, Head(free_lists[hi]))
          /\ allocated' = allocated \cup {[ppn |-> Head(free_lists[hi]), pages |-> pages]}
          /\ result' = [pages |-> pages, ppn |-> Head(free_lists[hi])]
  BY DEF alloc
<1>3. ~Booting /\ region' = region /\ current_ppn' = current_ppn
  BY DEF alloc
<1>4. hi \in Orders /\ hi \in Nat /\ lo <= hi /\ free_lists[hi] # << >>
  BY <1>1, <1>2, OrdersAreNat DEF Nonempty
<1>5. /\ free_lists \in [Orders -> Seq(Nat)]
      /\ allocated \subseteq [ppn : Nat, pages : PageCounts]
      /\ region \in 1 .. Len(Regions) + 1 /\ current_ppn \in Nat
      /\ \A k \in Orders : IsInjective(free_lists[k])
      /\ Placed(F, H) /\ Merged(F) /\ HeldOnce
      /\ FramesOf(F \cup H) = AddedAt(region, current_ppn)
  BY DEF BuddyInv, BuddyTypeOK
<1> DEFINE p == Head(free_lists[hi])
<1>6. p \in Range(free_lists[hi]) /\ p \in Nat
  <2>1. free_lists[hi] \in Seq(Nat) /\ IsInjective(free_lists[hi])
    BY <1>4, <1>5
  <2>2. QED
    BY <1>4, <2>1, HeadTaken, ListElements, Zenon
<1> HIDE DEF lo, p
<1>7. Block(p, hi) \in F
  BY <1>4, <1>6, InLists
<1>8. Aligned(p, hi)
  <2>1. Block(p, hi).ppn = p /\ Block(p, hi).order = hi
    BY <1>4, <1>6, BlockFields
  <2>2. QED
    BY <1>5, <1>7, <2>1, BlocksOfPlaced
<1>9. ASSUME NEW k \in Orders, lo <= k, free_lists[k] # << >>
      PROVE  hi <= k
  <2>1. k \in Nonempty(lo)
    BY <1>1, <1>9, OrdersAreNat DEF Nonempty
  <2>2. QED
    BY <1>2, <2>1
<1>10. \A k \in lo .. hi - 1 : free_lists[k] = << >>
  <2> SUFFICES ASSUME NEW k \in lo .. hi - 1, free_lists[k] # << >>
               PROVE  FALSE
    OBVIOUS
  <2>1. k \in Orders /\ lo <= k /\ ~(hi <= k)
    BY <1>1, <1>4, BlocksAssumption DEF Orders
  <2>2. QED
    BY <1>9, <2>1
<1>11. \A b \in F : b.order >= lo => b.order >= hi
  <2> SUFFICES ASSUME NEW b \in F, b.order >= lo
               PROVE  b.order >= hi
    OBVIOUS
  <2>1. b.order \in Orders /\ b.order \in Nat
    BY <1>5, BlocksOfPlaced
  <2>2. b.ppn \in Range(free_lists[b.order])
    BY DEF BlocksIn
  <2>3. free_lists[b.order] # << >>
    BY <2>2 DEF Range
  <2>4. hi <= b.order
    BY <1>1, <1>9, <2>1, <2>3
  <2>5. QED
    BY <1>4, <2>1, <2>4
<1> DEFINE F2 == (F \ {Block(p, hi)}) \cup Buddies(p, lo, hi)
           H2 == H \cup {Block(p, lo)}
<1>12. /\ free_lists' \in [Orders -> Seq(Nat)]
       /\ \A k \in Orders : IsInjective(free_lists'[k])
       /\ BlocksIn(free_lists') = F2
  BY <1>1, <1>2, <1>4, <1>5, <1>6, <1>8, <1>10, SplitList, Zenon DEF p
<1>13. /\ Placed(F2, H2) /\ Merged(F2)
       /\ FramesOf(F2 \cup H2) = FramesOf(F \cup H)
       /\ FramesOf(F2) = FramesOf(F) \ Frames(p, lo)
       /\ Block(p, lo) \notin H
       /\ Aligned(p, lo)
       /\ Frames(p, lo) \subseteq FramesOf(F)
  <2> HIDE DEF F, H
  <2>1. Placed(F, H) /\ Merged(F)
    BY <1>5
  <2>2. F2 = (F \ {Block(p, hi)}) \cup Buddies(p, lo, hi) /\ H2 = H \cup {Block(p, lo)}
    OBVIOUS
  <2> HIDE DEF F2, H2
  <2>3. p \in Nat /\ lo \in Nat /\ hi \in Orders /\ lo <= hi
    BY <1>1, <1>4, <1>6
  <2>4. IsSplit(F, H, p, lo, hi, F2, H2)
    BY <1>7, <1>11, <2>1, <2>2, <2>3, Zenon DEF IsSplit
  <2>5. SplitKeeps(F, H, p, lo, F2, H2)
    BY <2>4, SplitBlocks, Zenon
  <2>6. QED
    BY <2>5, Zenon DEF SplitKeeps
<1> DEFINE a == [ppn |-> p, pages |-> pages]
<1>14. a \in [ppn : Nat, pages : PageCounts] /\ HeldBlock(a) = Block(p, lo)
  BY <1>6 DEF HeldBlock, lo
<1>15. allocated' = allocated \cup {a} /\ result' = [pages |-> pages, ppn |-> p]
  BY <1>2 DEF p
<1> HIDE DEF a
<1>16. HeldIn(allocated') = H2
  BY <1>14, <1>15 DEF HeldIn
<1>17. HeldOnce'
  <2> SUFFICES ASSUME NEW x \in allocated', NEW y \in allocated', HeldBlock(x) = HeldBlock(y)
               PROVE  x = y
    BY DEF HeldOnce
  <2>1. \A z \in allocated : HeldBlock(z) # HeldBlock(a)
    BY <1>13, <1>14, Zenon DEF HeldIn
  <2>2. QED
    BY <1>5, <1>15, <2>1 DEF HeldOnce
<1>18. BuddyTypeOK'
  BY <1>3, <1>5, <1>12, <1>14, <1>15 DEF BuddyTypeOK
<1>19. BootInv'
  BY <1>3 DEF BootInv, Booting
<1> HIDE DEF F, H, F2, H2
<1>20. BuddyInv'
  BY <1>3, <1>5, <1>12, <1>13, <1>16, <1>17, <1>18, <1>19 DEF BuddyInv
<1>21. lo \in Orders
  BY <1>1, <1>4, ChainBlocks, <1>6, Zenon
<1>22. QED
  BY <1>6, <1>12, <1>13, <1>15, <1>20, <1>21 DEF lo, F, a

LEMMA DeallocStep ==
    ASSUME BuddyInv, NEW a \in allocated, dealloc(a)
    PROVE  /\ BuddyInv'
           /\ FramesOf(BlocksIn(free_lists')) =
                  FramesOf(BlocksIn(free_lists)) \cup Frames(a.ppn, pages_to_order(a.pages))
           /\ allocated' = allocated \ {a}
           /\ result' = result
<1> DEFINE lo == pages_to_order(a.pages)
           p == a.ppn
           hi == merged_order(p, lo)
           F == BlocksIn(free_lists)
           H == HeldIn(allocated)
<1>1. /\ ~Booting /\ region' = region /\ current_ppn' = current_ppn
      /\ free_lists' = merge(p, lo, hi)
      /\ allocated' = allocated \ {a}
      /\ result' = result
  BY DEF dealloc
<1>2. /\ free_lists \in [Orders -> Seq(Nat)]
      /\ allocated \subseteq [ppn : Nat, pages : PageCounts]
      /\ region \in 1 .. Len(Regions) + 1 /\ current_ppn \in Nat
      /\ \A k \in Orders : IsInjective(free_lists[k])
      /\ Placed(F, H) /\ Merged(F) /\ HeldOnce
      /\ FramesOf(F \cup H) = AddedAt(region, current_ppn)
  BY DEF BuddyInv, BuddyTypeOK
<1>3. HeldBlock(a) \in H /\ HeldBlock(a) = Block(p, lo)
  BY DEF HeldIn, HeldBlock
<1>4. p \in Nat /\ lo \in Orders /\ lo \in Nat
  <2>1. p \in Nat
    BY <1>2
  <2>2. Block(p, lo).order = lo
    BY DEF Block
  <2>3. QED
    BY <1>2, <1>3, <2>1, <2>2, BlocksOfPlaced
<1>5. /\ hi \in Orders /\ lo <= hi
      /\ hi < MAX_ORDER - 1 => ~buddy_is_free(p, hi)
      /\ \A k \in lo .. hi - 1 : buddy_is_free(p, k)
  BY <1>4, MergedOrder
<1> HIDE DEF lo, p, hi
<1>6. \A k \in lo .. hi - 1 : buddy_of(p, k) \in Range(free_lists[k])
  BY <1>5 DEF buddy_is_free
<1>7. hi \in Nat /\ block_of(p, hi) \in Nat /\ buddy_of(p, hi) \in Nat
  BY <1>4, <1>5, OrdersAreNat, BlockOf, BlockAndBuddy, Zenon
<1>8. \A k \in lo .. hi - 1 : Block(buddy_of(p, k), k) \in F
  <2> SUFFICES ASSUME NEW k \in lo .. hi - 1
               PROVE  Block(buddy_of(p, k), k) \in F
    OBVIOUS
  <2>1. k \in Orders /\ k \in Nat
    BY <1>4, <1>5, <1>7, BlocksAssumption DEF Orders
  <2>2. buddy_of(p, k) \in Nat
    BY <1>4, <2>1, BlockAndBuddy, Zenon
  <2>3. QED
    BY <1>6, <2>1, <2>2, InLists
<1>9. hi < MAX_ORDER - 1 => Block(buddy_of(p, hi), hi) \notin F
  BY <1>5, <1>7, InLists DEF buddy_is_free
<1> DEFINE F2 == (F \ Buddies(p, lo, hi)) \cup {Block(block_of(p, hi), hi)}
           H2 == H \ {Block(p, lo)}
<1>10. /\ Placed(F2, H2) /\ Merged(F2)
       /\ FramesOf(F2 \cup H2) = FramesOf(F \cup H)
       /\ FramesOf(F2) = FramesOf(F) \cup Frames(p, lo)
       /\ Block(block_of(p, hi), hi) \notin F
  <2> HIDE DEF F, H
  <2>1. Placed(F, H) /\ Merged(F) /\ Block(p, lo) \in H
    BY <1>2, <1>3
  <2>2. p \in Nat /\ lo \in Nat /\ hi \in Orders /\ lo <= hi
    BY <1>4, <1>5
  <2>3. /\ F2 = (F \ Buddies(p, lo, hi)) \cup {Block(block_of(p, hi), hi)}
        /\ H2 = H \ {Block(p, lo)}
    OBVIOUS
  <2> HIDE DEF F2, H2
  <2>4. IsMerge(F, H, p, lo, hi, F2, H2)
    BY <1>8, <1>9, <2>1, <2>2, <2>3, Zenon DEF IsMerge
  <2>5. MergeKeeps(F, H, p, lo, hi, F2, H2)
    BY <2>4, MergeBlocks, Zenon
  <2>6. QED
    BY <2>5, Zenon DEF MergeKeeps
<1>11. block_of(p, hi) \notin Range(free_lists[hi])
  BY <1>5, <1>7, <1>10, InLists
<1>12. /\ free_lists' \in [Orders -> Seq(Nat)]
       /\ \A k \in Orders : IsInjective(free_lists'[k])
       /\ BlocksIn(free_lists') = F2
  BY <1>1, <1>2, <1>4, <1>5, <1>6, <1>11, MergeList, Zenon
<1>13. HeldIn(allocated') = H2
  <2>1. \A b \in allocated : HeldBlock(b) = HeldBlock(a) => b = a
    BY <1>2 DEF HeldOnce
  <2>2. QED
    BY <1>1, <1>3, <2>1 DEF HeldIn
<1>14. HeldOnce' /\ BuddyTypeOK' /\ BootInv'
  <2>1. HeldOnce'
    BY <1>1, <1>2 DEF HeldOnce
  <2>2. BuddyTypeOK'
    BY <1>1, <1>2, <1>12 DEF BuddyTypeOK
  <2>3. BootInv'
    BY <1>1 DEF BootInv, Booting
  <2>4. QED
    BY <2>1, <2>2, <2>3
<1> HIDE DEF F, H, F2, H2
<1>15. BuddyInv'
  BY <1>1, <1>2, <1>10, <1>12, <1>13, <1>14, Zenon DEF BuddyInv
<1>16. QED
  BY <1>1, <1>10, <1>12, <1>15 DEF lo, p, F

LEMMA AllocNoneStep ==
    ASSUME BuddyInv, NEW pages \in PageCounts, alloc_none(pages)
    PROVE  /\ BuddyInv'
           /\ free_lists' = free_lists /\ allocated' = allocated
           /\ result' = [pages |-> pages, ppn |-> NoFrame]
           /\ pages_to_order(pages) \in Orders =>
                  \A p \in Nat : Aligned(p, pages_to_order(pages)) =>
                      ~(Frames(p, pages_to_order(pages)) \subseteq FramesOf(BlocksIn(free_lists)))
<1> DEFINE o == pages_to_order(pages)
           F == BlocksIn(free_lists)
<1>1. /\ free_lists' = free_lists /\ allocated' = allocated
      /\ region' = region /\ current_ppn' = current_ppn
      /\ result' = [pages |-> pages, ppn |-> NoFrame]
      /\ Nonempty(o) = {}
  BY DEF alloc_none
<1>2. BuddyInv'
  BY <1>1 DEF BuddyInv, BuddyTypeOK, HeldOnce, BootInv, Booting
<1>3. Placed(F, HeldIn(allocated)) /\ Merged(F)
  BY DEF BuddyInv
<1>4. ASSUME NEW b \in F, o \in Orders
      PROVE  b.order < o
  <2>1. b.order \in Orders /\ b.order \in Nat /\ o \in Nat
    BY <1>3, <1>4, BlocksOfPlaced, OrdersAreNat, ZenonT(30)
  <2>2. b.ppn \in Range(free_lists[b.order])
    BY DEF BlocksIn
  <2>3. free_lists[b.order] # << >>
    BY <2>2 DEF Range
  <2>4. ~(b.order >= o)
    BY <1>1, <2>1, <2>3 DEF Nonempty
  <2>5. QED
    BY <2>1, <2>4
<1> HIDE DEF o, F
<1>5. ASSUME o \in Orders, NEW p \in Nat, Aligned(p, o), Frames(p, o) \subseteq FramesOf(F)
      PROVE  FALSE
  <2>1. \A b \in F : b.order < o
    BY <1>4, <1>5
  <2>2. QED
    BY <1>3, <1>5, <2>1, NoRun
<1>6. QED
  BY <1>1, <1>2, <1>5 DEF o, F

LEMMA NextRegion ==
    ASSUME region \in 1 .. Len(Regions), next_region
    PROVE  /\ region' = region + 1 /\ current_ppn' = StartAfter(region)
           /\ region' \in 1 .. Len(Regions) + 1 /\ current_ppn' \in Nat
           /\ Booting' => CursorAt(region', current_ppn')
<1>1. region' = region + 1 /\ current_ppn' = StartAfter(region)
  BY DEF next_region, StartAfter
<1>2. region' \in 1 .. Len(Regions) + 1 /\ current_ppn' \in Nat
  BY <1>1, AddedInNextRegion
<1>3. ASSUME Booting'
      PROVE  CursorAt(region', current_ppn')
  <2>1. region' <= Len(Regions) /\ Len(Regions) \in Nat
    BY <1>3, RegionFields DEF Booting
  <2>2. region' \in 1 .. Len(Regions) /\ region # Len(Regions)
    BY <1>1, <1>2, <2>1
  <2>3. current_ppn' = Regions[region'].start
    BY <1>1, <2>2 DEF StartAfter
  <2>4. QED
    BY <2>2, <2>3, CursorStarts
<1>4. QED
  BY <1>1, <1>2, <1>3

LEMMA HeldNone == HeldIn({}) = {}
BY DEF HeldIn

LEMMA AddStep ==
    ASSUME BuddyInv, add_free_region
    PROVE  /\ BuddyInv'
           /\ allocated = {} /\ allocated' = allocated /\ result' = result
           /\ FramesOf(BlocksIn(free_lists)) \subseteq FramesOf(BlocksIn(free_lists'))
<1>0. PICK r, c, k, n :
          r = region /\ c = current_ppn /\ k = block_order(Regions[r].end - c) /\ n = block_pages[k]
  OBVIOUS
<1>f. PICK F, F2 : F = BlocksIn(free_lists) /\ F2 = F \cup {Block(c, k)}
  BY Zenon
<1>1. /\ Booting /\ c < Regions[r].end
      /\ free_lists' = add_free_block(c, k)
      /\ IF c + n < Regions[r].end THEN current_ppn' = c + n /\ region' = region ELSE next_region
      /\ allocated' = allocated /\ result' = result
  BY <1>0, Zenon DEF add_free_region
<1>2. /\ free_lists \in [Orders -> Seq(Nat)]
      /\ region \in 1 .. Len(Regions) + 1 /\ c \in Nat
      /\ \A j \in Orders : IsInjective(free_lists[j])
      /\ Placed(F, HeldIn(allocated)) /\ Merged(F) /\ HeldOnce
      /\ FramesOf(F \cup HeldIn(allocated)) = AddedAt(r, c)
      /\ allocated = {} /\ CursorAt(r, c) /\ FromRegions(F) /\ Largest(F)
  <2>1. /\ free_lists \in [Orders -> Seq(Nat)]
        /\ region \in 1 .. Len(Regions) + 1 /\ c \in Nat
    BY <1>0, ZenonT(30) DEF BuddyInv, BuddyTypeOK
  <2>2. /\ \A j \in Orders : IsInjective(free_lists[j])
        /\ Placed(F, HeldIn(allocated)) /\ Merged(F) /\ HeldOnce
        /\ FramesOf(F \cup HeldIn(allocated)) = AddedAt(r, c)
    BY <1>0, <1>f DEF BuddyInv
  <2>3. allocated = {} /\ CursorAt(r, c) /\ FromRegions(F) /\ Largest(F)
    BY <1>0, <1>1, <1>f, Zenon DEF BuddyInv, BootInv
  <2>4. QED
    BY <2>1, <2>2, <2>3
<1>3. r \in 1 .. Len(Regions)
  <2>1. region \in 1 .. Len(Regions) + 1 /\ region <= Len(Regions)
    BY <1>1, <1>2, Zenon DEF Booting
  <2>2. Len(Regions) \in Nat
    BY RegionFields
  <2>3. QED
    BY <1>0, <2>1, <2>2
<1>4. k \in Orders /\ CutAt(r, c, k)
  <2>1. c \in Nat /\ CursorAt(r, c)
    BY <1>2
  <2>2. c < Regions[r].end /\ k = block_order(Regions[r].end - c)
    BY <1>0, <1>1
  <2>3. QED
    BY <1>0, <1>3, <2>1, <2>2, BlockOrder
<1>5. k \in Nat /\ n \in Nat \ {0} /\ Regions[r].start \in Nat /\ Regions[r].end \in Nat
  <2>1. k \in Nat
    BY <1>4, OrdersAreNat
  <2>2. QED
    BY <1>0, <1>3, <2>1, BlockPages, RegionFields, Zenon
<1>6. Placed(F, {}) /\ FramesOf(F) = AddedAt(r, c)
  <2>1. HeldIn(allocated) = {} /\ F \cup HeldIn(allocated) = F
    BY <1>2, HeldNone
  <2>2. QED
    BY <1>2, <2>1, ZenonT(30)
<1>7. /\ Block(c, k) \in BlockSet /\ Block(c, k).ppn = c /\ Block(c, k).order = k
      /\ FramesIn(Block(c, k)) = Frames(c, k)
  BY <1>2, <1>4, BlockFields
<1>8. /\ Frames(c, k) \cap AddedAt(r, c) = {}
      /\ AddedAt(r, c + n) = AddedAt(r, c) \cup Frames(c, k)
      /\ c + n = Regions[r].end => AddedAt(r + 1, StartAfter(r)) = AddedAt(r, c) \cup Frames(c, k)
  <2>1. c \in Nat /\ CursorAt(r, c)
    BY <1>2
  <2>2. n = block_pages[k]
    BY <1>0
  <2>3. QED
    BY <1>3, <1>4, <2>1, <2>2, AddedByCut
<1>9. Aligned(c, k) /\ c + n <= Regions[r].end
  BY <1>0, <1>4 DEF CutAt
<1>10. /\ Placed(F2, {})
       /\ FramesOf(F2) = FramesOf(F) \cup Frames(c, k)
       /\ Block(c, k) \notin F
  <2> DEFINE b == Block(c, k)
  <2>1. b \in BlockSet /\ Aligned(b.ppn, b.order) /\ FramesIn(b) \cap FramesOf(F) = {}
    BY <1>6, <1>7, <1>8, <1>9, Zenon
  <2> HIDE DEF b
  <2>2. Placed(F \cup {b}, {}) /\ FramesOf(F \cup {b}) = FramesOf(F) \cup FramesIn(b) /\ b \notin F
    BY <1>6, <2>1, AddBlock, Zenon
  <2>3. QED
    BY <1>7, <1>f, <2>2 DEF b
<1>11. c \notin Range(free_lists[k])
  BY <1>2, <1>4, <1>10, <1>f, InLists
<1>12. /\ free_lists' \in [Orders -> Seq(Nat)]
       /\ \A j \in Orders : IsInjective(free_lists'[j])
       /\ BlocksIn(free_lists') = F2
  BY <1>1, <1>2, <1>4, <1>11, <1>f, AddList, ZenonT(30)
<1>13. FromRegions(F2)
  <2>1. RegionHolds(r, c, k)
    BY <1>0, <1>2, <1>9, Zenon DEF CursorAt, RegionHolds
  <2>2. QED
    BY <1>2, <1>3, <1>7, <1>f, <2>1 DEF FromRegions
<1>14. Largest(F2)
  <2> SUFFICES ASSUME NEW b \in F2, b.order < MAX_ORDER - 1, NEW i \in 1 .. Len(Regions)
               PROVE  ~RegionHolds(i, block_of(b.ppn, b.order + 1), b.order + 1)
    BY DEF Largest
  <2>1. CASE b \in F
    BY <1>2, <2>1 DEF Largest
  <2>2. CASE b = Block(c, k)
    BY <1>2, <1>3, <1>4, <1>7, <2>2, CutIsLargest
  <2>3. QED
    BY <1>f, <2>1, <2>2
<1>15. Merged(F2)
  BY <1>10, <1>13, <1>14, CutsAreMerged
<1>16. /\ region' \in 1 .. Len(Regions) + 1 /\ current_ppn' \in Nat
       /\ AddedAt(region', current_ppn') = FramesOf(F2)
       /\ Booting' => CursorAt(region', current_ppn')
  <2>1. CASE c + n < Regions[r].end
    <3>1. current_ppn' = c + n /\ region' = r
      BY <1>0, <1>1, <2>1
    <3>2. CursorAt(r, c + n)
      BY <1>0, <1>2, <1>3, <1>4, <2>1, CursorMoves
    <3>3. r \in 1 .. Len(Regions) + 1 /\ c + n \in Nat
      BY <1>2, <1>3, <1>5, RegionFields
    <3>4. QED
      BY <1>6, <1>8, <1>10, <3>1, <3>2, <3>3
  <2>2. CASE ~(c + n < Regions[r].end)
    <3>1. next_region
      BY <1>1, <2>2
    <3>2. c + n = Regions[r].end
      <4>1. c \in Nat
        BY <1>2
      <4>2. QED
        BY <1>5, <1>9, <2>2, <4>1
    <3>3. /\ region' = r + 1 /\ current_ppn' = StartAfter(r)
          /\ region' \in 1 .. Len(Regions) + 1 /\ current_ppn' \in Nat
          /\ Booting' => CursorAt(region', current_ppn')
      BY <1>0, <1>3, <3>1, NextRegion
    <3>4. QED
      BY <1>6, <1>8, <1>10, <3>2, <3>3
  <2>3. QED
    BY <2>1, <2>2
<1>17. BuddyTypeOK'
  BY <1>1, <1>2, <1>12, <1>16, Zenon DEF BuddyTypeOK
<1>18. HeldOnce' /\ BootInv'
  <2>1. HeldOnce'
    BY <1>1, <1>2, ZenonT(30) DEF HeldOnce
  <2>2. BootInv'
    BY <1>1, <1>2, <1>12, <1>13, <1>14, <1>16, Zenon DEF BootInv
  <2>3. QED
    BY <2>1, <2>2
<1>19. /\ Placed(BlocksIn(free_lists'), HeldIn(allocated'))
       /\ FramesOf(BlocksIn(free_lists') \cup HeldIn(allocated')) = AddedAt(region', current_ppn')
  <2>1. HeldIn(allocated') = {} /\ F2 \cup HeldIn(allocated') = F2
    BY <1>1, <1>2, HeldNone
  <2>2. QED
    BY <1>10, <1>12, <1>16, <2>1
<1>20. BuddyInv'
  BY <1>12, <1>15, <1>17, <1>18, <1>19 DEF BuddyInv
<1>21. QED
  BY <1>1, <1>2, <1>10, <1>12, <1>20, <1>f, Zenon

LEMMA EmptyStep ==
    ASSUME BuddyInv, add_free_region_empty
    PROVE  /\ BuddyInv'
           /\ free_lists' = free_lists /\ allocated' = allocated /\ result' = result
           /\ allocated = {}
<1>1. /\ Booting /\ current_ppn >= Regions[region].end /\ next_region
      /\ free_lists' = free_lists /\ allocated' = allocated /\ result' = result
  BY DEF add_free_region_empty
<1>2. /\ region \in 1 .. Len(Regions) + 1 /\ current_ppn \in Nat
      /\ allocated = {} /\ CursorAt(region, current_ppn)
  BY <1>1, Zenon DEF BuddyInv, BuddyTypeOK, BootInv
<1>3. region \in 1 .. Len(Regions)
  BY <1>1, <1>2, RegionFields DEF Booting
<1>4. /\ region' = region + 1 /\ current_ppn' = StartAfter(region)
      /\ region' \in 1 .. Len(Regions) + 1 /\ current_ppn' \in Nat
      /\ Booting' => CursorAt(region', current_ppn')
  BY <1>1, <1>3, NextRegion
<1>5. AddedAt(region', current_ppn') = AddedAt(region, current_ppn)
  BY <1>1, <1>2, <1>3, <1>4, AddedByEmpty
<1>6. BuddyTypeOK' /\ HeldOnce'
  BY <1>1, <1>4 DEF BuddyInv, BuddyTypeOK, HeldOnce
<1>7. BootInv'
  BY <1>1, <1>2, <1>4, ZenonT(30) DEF BuddyInv, BootInv
<1>8. BuddyInv'
  BY <1>1, <1>5, <1>6, <1>7, ZenonT(30) DEF BuddyInv
<1>9. QED
  BY <1>1, <1>2, <1>8

LEMMA FreeBlocksAre ==
    ASSUME NEW lists \in [Orders -> Seq(Nat)]
    PROVE  UNION {{[ppn |-> b, order |-> k] : b \in Range(lists[k])} : k \in Orders} = BlocksIn(lists)
<1> DEFINE Of(k) == {[ppn |-> b, order |-> k] : b \in Range(lists[k])}
           U == UNION {Of(k) : k \in Orders}
<1>1. \A k \in Orders : Range(lists[k]) \subseteq Nat
  BY ListElements
<1>2. ASSUME NEW x \in U
      PROVE  x \in BlocksIn(lists)
  <2>1. PICK k \in Orders : x \in Of(k)
    OBVIOUS
  <2>2. PICK b \in Range(lists[k]) : x = [ppn |-> b, order |-> k]
    BY <2>1
  <2>3. QED
    BY <1>1, <2>2 DEF BlocksIn, BlockSet
<1>3. ASSUME NEW x \in BlocksIn(lists)
      PROVE  x \in U
  <2>1. x \in BlockSet /\ x.ppn \in Range(lists[x.order])
    BY DEF BlocksIn
  <2>2. x.order \in Orders /\ x = [ppn |-> x.ppn, order |-> x.order]
    BY <2>1 DEF BlockSet
  <2>3. x \in Of(x.order)
    BY <2>1, <2>2
  <2> HIDE DEF Of
  <2>4. QED
    BY <2>2, <2>3
<1>4. U = BlocksIn(lists)
  <2> HIDE DEF U
  <2>1. QED
    BY <1>2, <1>3, Zenon
<1>5. QED
  BY <1>4, Zenon

LEMMA HeldBlocksAre == HeldBlocks = HeldIn(allocated)
BY DEF HeldBlocks, HeldIn, HeldBlock, Block

(* The invariant gives the three properties. *)
LEMMA InvGivesProperties ==
    ASSUME BuddyInv
    PROVE  BlocksDisjoint /\ FramesConserved /\ FullyMerged
<1>1. free_lists \in [Orders -> Seq(Nat)] /\ Placed(BlocksIn(free_lists), HeldIn(allocated))
  BY DEF BuddyInv, BuddyTypeOK
<1>2. FreeBlocks = BlocksIn(free_lists)
  BY <1>1, FreeBlocksAre DEF FreeBlocks
<1>3. HeldBlocks = HeldIn(allocated)
  BY HeldBlocksAre
<1>4. BlocksDisjoint
  <2>1. Placed(FreeBlocks, HeldBlocks) /\ \A k \in Orders : IsInjective(free_lists[k])
    BY <1>1, <1>2, <1>3 DEF BuddyInv
  <2> HIDE DEF FreeBlocks, HeldBlocks
  <2>2. QED
    BY <2>1 DEF BlocksDisjoint, Placed, Disjoint, FramesIn
<1>5. FramesConserved
  <2>1. Added = AddedAt(region, current_ppn)
    BY DEF Added, AddedAt, Booting
  <2>2. FramesOf(FreeBlocks \cup HeldBlocks) = AddedAt(region, current_ppn)
    BY <1>2, <1>3 DEF BuddyInv
  <2>3. QED
    BY <2>1, <2>2 DEF FramesConserved
<1>6. FullyMerged
  <2> SUFFICES ASSUME NEW k \in 0 .. MAX_ORDER - 2, NEW b \in Range(free_lists[k]),
                      buddy_of(b, k) \in Range(free_lists[k])
               PROVE  FALSE
    BY DEF FullyMerged
  <2>1. k \in Orders /\ k \in Nat /\ k < MAX_ORDER - 1
    BY BlocksAssumption DEF Orders
  <2>2. b \in Nat
    BY <1>1, <2>1, ListElements
  <2>3. buddy_of(b, k) \in Nat
    BY <2>1, <2>2, BlockAndBuddy
  <2>4. Block(b, k) \in BlocksIn(free_lists) /\ Block(buddy_of(b, k), k) \in BlocksIn(free_lists)
    BY <2>1, <2>2, <2>3, InLists
  <2>5. Block(b, k).ppn = b /\ Block(b, k).order = k
    BY <2>1, <2>2, BlockFields
  <2>6. Merged(BlocksIn(free_lists))
    BY DEF BuddyInv
  <2>7. QED
    BY <2>1, <2>4, <2>5, <2>6 DEF Merged
<1>7. QED
  BY <1>4, <1>5, <1>6

LEMMA InvInit ==
    ASSUME BuddyInit
    PROVE  BuddyInv
<1>1. /\ free_lists = [k \in Orders |-> << >>]
      /\ allocated = {} /\ region = 1
      /\ current_ppn = IF Regions = << >> THEN 0 ELSE Regions[1].start
  BY DEF BuddyInit
<1>2. BlocksIn(free_lists) = {}
  <2> SUFFICES ASSUME NEW b \in BlocksIn(free_lists)
               PROVE  FALSE
    OBVIOUS
  <2>1. b \in BlockSet /\ b.ppn \in Range(free_lists[b.order])
    BY DEF BlocksIn
  <2>2. free_lists[b.order] = << >>
    BY <1>1, <2>1, FirstFrame
  <2>3. QED
    BY <2>1, <2>2 DEF Range
<1>3. HeldIn(allocated) = {}
  BY <1>1, HeldNone
<1>4. Len(Regions) \in Nat /\ (Regions = << >> \/ 1 \in 1 .. Len(Regions))
  BY RegionsAssumption
<1>5. Regions = << >> => Len(Regions) = 0
  OBVIOUS
<1>6. BuddyTypeOK
  <2>1. current_ppn \in Nat
    BY <1>1, <1>4, RegionFields
  <2>2. region \in 1 .. Len(Regions) + 1
    BY <1>1, <1>4
  <2>3. free_lists \in [Orders -> Seq(Nat)]
    BY <1>1
  <2>4. QED
    BY <1>1, <2>1, <2>2, <2>3 DEF BuddyTypeOK
<1>7. \A k \in Orders : IsInjective(free_lists[k])
  <2> SUFFICES ASSUME NEW k \in Orders
               PROVE  IsInjective(free_lists[k])
    OBVIOUS
  <2>1. free_lists[k] = << >>
    BY <1>1
  <2>2. QED
    BY <2>1 DEF IsInjective
<1>8. Placed({}, {}) /\ Merged({}) /\ FramesOf({} \cup {}) = {}
  BY DEF Placed, Merged, Disjoint, FramesOf
<1>9. AddedAt(region, current_ppn) = {}
  <2> SUFFICES ASSUME NEW f \in AddedAt(region, current_ppn)
               PROVE  FALSE
    OBVIOUS
  <2>1. \/ \E i \in 1 .. region - 1 : f \in Nat /\ Regions[i].start <= f /\ f < Regions[i].end
        \/ f \in Nat /\ region <= Len(Regions) /\ Regions[region].start <= f /\ f < current_ppn
    BY <1>6, InAdded DEF BuddyTypeOK
  <2>2. f \in Nat /\ 1 <= Len(Regions) /\ Regions[1].start <= f /\ f < current_ppn
    BY <1>1, <2>1
  <2>3. Regions # << >> /\ current_ppn = Regions[1].start /\ current_ppn \in Nat
    BY <1>1, <1>5, <1>6, <2>2 DEF BuddyTypeOK
  <2>4. QED
    BY <2>2, <2>3
<1>10. HeldOnce
  BY <1>1 DEF HeldOnce
<1>11. BootInv
  <2> SUFFICES ASSUME Booting
               PROVE  /\ allocated = {}
                      /\ CursorAt(region, current_ppn)
                      /\ FromRegions({})
                      /\ Largest({})
    BY <1>2 DEF BootInv
  <2>1. region \in 1 .. Len(Regions) /\ Regions # << >>
    BY <1>1, <1>4, <1>5 DEF Booting
  <2>2. current_ppn = Regions[region].start
    BY <1>1, <2>1
  <2>3. CursorAt(region, current_ppn)
    BY <2>1, <2>2, CursorStarts
  <2>4. QED
    BY <1>1, <2>3 DEF FromRegions, Largest
<1>12. QED
  BY <1>2, <1>3, <1>6, <1>7, <1>8, <1>9, <1>10, <1>11 DEF BuddyInv

LEMMA InvStutters ==
    ASSUME BuddyInv, UNCHANGED buddyVars
    PROVE  BuddyInv'
BY DEF BuddyInv, BuddyTypeOK, HeldOnce, BootInv, Booting, buddyVars

LEMMA InvStep ==
    ASSUME BuddyInv, [BuddyNext]_buddyVars
    PROVE  BuddyInv'
<1>1. CASE add_free_region
  BY <1>1, AddStep
<1>2. CASE add_free_region_empty
  BY <1>2, EmptyStep
<1>3. CASE \E pages \in PageCounts : alloc(pages) \/ alloc_none(pages)
  BY <1>3, AllocStep, AllocNoneStep, Zenon
<1>4. CASE \E a \in allocated : dealloc(a)
  BY <1>4, DeallocStep
<1>5. CASE UNCHANGED buddyVars
  BY <1>5, InvStutters
<1>6. QED
  BY <1>1, <1>2, <1>3, <1>4, <1>5 DEF BuddyNext

----------------------------------------------------------------------------
(* Theorems *)

(* The invariant holds from boot on: lists, callers and the loop of        *)
(* add_free_region stay in step.                                           *)
THEOREM BuddyInvariant == BuddySpec => []BuddyInv
<1>1. BuddyInit => BuddyInv
  BY InvInit
<1>2. BuddyInv /\ [BuddyNext]_buddyVars => BuddyInv'
  BY InvStep
<1>3. QED
  BY <1>1, <1>2, PTL DEF BuddySpec

(* No two blocks of the buddy system overlap, free or held, and every      *)
(* block is where dealloc looks for a buddy.                               *)
THEOREM BlocksStayDisjoint == BuddySpec => []BlocksDisjoint
<1>1. BuddyInv => BlocksDisjoint
  BY InvGivesProperties
<1>2. QED
  BY <1>1, BuddyInvariant, PTL

(* split and merge lose no frame and make none up.                         *)
THEOREM FramesStayConserved == BuddySpec => []FramesConserved
<1>1. BuddyInv => FramesConserved
  BY InvGivesProperties
<1>2. QED
  BY <1>1, BuddyInvariant, PTL

(* Two buddies are never free side by side: neither what add_free_region   *)
(* cuts nor what alloc splits nor what dealloc puts back leaves a pair.    *)
THEOREM BuddiesStayMerged == BuddySpec => []FullyMerged
<1>1. BuddyInv => FullyMerged
  BY InvGivesProperties
<1>2. QED
  BY <1>1, BuddyInvariant, PTL

(* The abstract specification has its own copy of the block arithmetic. *)
LEMMA SameBlocks ==
    /\ Abstract!Orders = Orders
    /\ \A p, k : Abstract!Frames(p, k) = Frames(p, k)
    /\ \A p, k : Abstract!Aligned(p, k) = Aligned(p, k)
    /\ \A n : Abstract!pages_to_order(n) = pages_to_order(n)
<1>1. Abstract!block_pages = block_pages
  BY DEF Abstract!block_pages, block_pages
<1>2. Abstract!Orders = Orders
  BY DEF Abstract!Orders, Orders
<1>3. \A p, k : Abstract!Frames(p, k) = Frames(p, k)
  BY <1>1, Zenon DEF Abstract!Frames, Frames
<1>4. \A p, k : Abstract!Aligned(p, k) = Aligned(p, k)
  BY <1>1, Zenon DEF Abstract!Aligned, Aligned
<1>5. \A n : Abstract!pages_to_order(n) = pages_to_order(n)
  BY <1>1, Zenon DEF Abstract!pages_to_order, pages_to_order
<1>6. QED
  BY <1>2, <1>3, <1>4, <1>5

LEMMA AbstractStep ==
    ASSUME BuddyInv, BuddyInv', [BuddyNext]_buddyVars
    PROVE  [Abstract!Donate \/ Abstract!Alloc \/ Abstract!AllocNone \/ Abstract!Dealloc]_(Abstract!frameVars)
<1> DEFINE free == FramesOf(FreeBlocks)
           bef == FramesOf(BlocksIn(free_lists))
           aft == FramesOf(BlocksIn(free_lists'))
<1>1. free = bef
  <2>1. free_lists \in [Orders -> Seq(Nat)]
    BY DEF BuddyInv, BuddyTypeOK
  <2>2. FreeBlocks = BlocksIn(free_lists)
    BY <2>1, FreeBlocksAre DEF FreeBlocks
  <2>3. QED
    BY <2>2
<1>2. free' = aft
  <2>1. free_lists' \in [Orders -> Seq(Nat)]
    BY DEF BuddyInv, BuddyTypeOK
  <2>2. FreeBlocks' = BlocksIn(free_lists')
    BY <2>1, FreeBlocksAre DEF FreeBlocks
  <2>3. free' = FramesOf(FreeBlocks')
    BY DEF FramesOf
  <2>4. QED
    BY <2>2, <2>3
<1> HIDE DEF free, bef, aft
<1>3. ASSUME allocated = {}, bef \subseteq aft, allocated' = allocated, result' = result
      PROVE  Abstract!Donate
  <2>1. Abstract!Held = {}
    BY <1>3 DEF Abstract!Held
  <2>2. QED
    BY <1>1, <1>2, <1>3, <2>1 DEF Abstract!Donate, free
<1>4. CASE add_free_region
  BY <1>3, <1>4, AddStep DEF bef, aft
<1>5. CASE add_free_region_empty
  BY <1>3, <1>5, EmptyStep DEF bef, aft
<1>6. ASSUME NEW pages \in PageCounts, alloc(pages)
      PROVE  Abstract!Alloc
  <2> DEFINE o == pages_to_order(pages)
  <2>1. o \in Orders
    BY <1>6, AllocStep
  <2>2. PICK p \in Nat :
            /\ Aligned(p, o)
            /\ Frames(p, o) \subseteq bef
            /\ aft = bef \ Frames(p, o)
            /\ allocated' = allocated \cup {[ppn |-> p, pages |-> pages]}
            /\ result' = [pages |-> pages, ppn |-> p]
    BY <1>6, AllocStep DEF bef, aft
  <2>3. p \in bef
    <3>1. Block(p, o).ppn \in FramesIn(Block(p, o))
      BY <2>1, BlockFields, FirstFrame
    <3>2. QED
      BY <2>1, <2>2, <3>1, BlockFields, ZenonT(30)
  <2> HIDE DEF o
  <2>4. Abstract!pages_to_order(pages) = o /\ o \in Abstract!Orders
    BY <2>1, SameBlocks DEF o
  <2>5. p \in Abstract!Runs(o)
    BY <1>1, <2>2, <2>3, SameBlocks DEF Abstract!Runs, free
  <2>6. free' = free \ Abstract!Frames(p, o)
    BY <1>1, <1>2, <2>2, SameBlocks
  <2>7. QED
    BY <2>2, <2>4, <2>5, <2>6 DEF Abstract!Alloc, free
<1>7. ASSUME NEW pages \in PageCounts, alloc_none(pages)
      PROVE  Abstract!AllocNone
  <2> DEFINE o == pages_to_order(pages)
  <2>1. /\ free_lists' = free_lists /\ allocated' = allocated
        /\ result' = [pages |-> pages, ppn |-> NoFrame]
    BY <1>7, AllocNoneStep
  <2>2. o \in Orders => \A p \in Nat : Aligned(p, o) => ~(Frames(p, o) \subseteq bef)
    BY <1>7, AllocNoneStep DEF bef
  <2>3. bef \subseteq Nat
    <3> SUFFICES ASSUME NEW f \in bef
                 PROVE  f \in Nat
      OBVIOUS
    <3>1. PICK b \in BlocksIn(free_lists) : f \in FramesIn(b)
      BY FrameOfBlocks DEF bef
    <3>2. b.ppn \in Nat /\ b.order \in Nat
      BY FirstFrame DEF BlocksIn
    <3>3. QED
      BY <3>1, <3>2, InFrames DEF FramesIn
  <2> HIDE DEF o
  <2>4. Abstract!pages_to_order(pages) = o /\ Abstract!Orders = Orders
    BY SameBlocks DEF o
  <2>5. o \in Orders => Abstract!Runs(o) = {}
    BY <1>1, <2>2, <2>3, SameBlocks, Zenon DEF Abstract!Runs, free
  <2>6. free' = free
    BY <1>1, <1>2, <2>1 DEF bef, aft
  <2>7. QED
    BY <2>1, <2>4, <2>5, <2>6 DEF Abstract!AllocNone, free
<1>8. ASSUME NEW a \in allocated, dealloc(a)
      PROVE  Abstract!Dealloc
  <2>1. /\ aft = bef \cup Frames(a.ppn, pages_to_order(a.pages))
        /\ allocated' = allocated \ {a} /\ result' = result
    BY <1>8, DeallocStep DEF bef, aft
  <2>2. free' = free \cup Abstract!Frames(a.ppn, Abstract!pages_to_order(a.pages))
    BY <1>1, <1>2, <2>1, SameBlocks
  <2>3. QED
    BY <2>1, <2>2 DEF Abstract!Dealloc, free
<1>9. CASE UNCHANGED buddyVars
  <2>1. free_lists' = free_lists /\ allocated' = allocated /\ result' = result
    BY <1>9 DEF buddyVars
  <2>2. free' = free
    BY <1>1, <1>2, <2>1 DEF bef, aft
  <2>3. QED
    BY <2>1, <2>2 DEF Abstract!frameVars, free
<1>10. QED
  BY <1>3, <1>4, <1>5, <1>6, <1>7, <1>8, <1>9 DEF BuddyNext

(* The free lists implement the allocator of frames the kernel relies on:  *)
(* alloc returns an aligned run of frames that were free, and None only    *)
(* when there is no such run; dealloc frees exactly what alloc gave out.   *)
THEOREM BuddyImplementsFrames == BuddySpec => ImplementsFrames
<1>1. BuddyInit => Abstract!FrameInit
  <2> SUFFICES ASSUME BuddyInit
               PROVE  Abstract!FrameInit
    OBVIOUS
  <2>1. FreeBlocks = {}
    BY DEF BuddyInit, FreeBlocks, Range
  <2>2. FramesOf(FreeBlocks) = {}
    BY <2>1 DEF FramesOf
  <2>3. QED
    BY <2>2 DEF BuddyInit, Abstract!FrameInit
<1>2. BuddyInv /\ BuddyInv' /\ [BuddyNext]_buddyVars =>
          [Abstract!Donate \/ Abstract!Alloc \/ Abstract!AllocNone \/ Abstract!Dealloc]_(Abstract!frameVars)
  BY AbstractStep
<1>3. QED
  BY <1>1, <1>2, BuddyInvariant, PTL DEF BuddySpec, ImplementsFrames, Abstract!FrameSpec

=============================================================================
