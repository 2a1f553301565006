--------------------------- MODULE Services_proofs ---------------------------
(***************************************************************************)
(* Proofs about two kernel services that do not schedule.  The memory pool,*)
(* for every pool size, every set of free lists, any sizes and alignments  *)
(* asked for and any number of blocks.  The software timers, for any number*)
(* of timers and callers, every setting and every interval: blocks, lists  *)
(* and times agree, an ID that is accepted is its caller's, and a timer    *)
(* that is not to be aligned never expires early.                          *)
(***************************************************************************)
EXTENDS Heap, Swtmr, PendList_proofs

(***************************************************************************)
(*                             The memory pool                             *)
(***************************************************************************)

N == LARGE + LEVELS
Span == Shift(SLI)

LEMMA Parameters ==
  /\ FIRST \in Nat \ {0} /\ POOL \in Nat /\ POOL >= 4 /\ FIRST + POOL < USED_FLAG
  /\ USED_FLAG \in Nat
  /\ LARGE \in Nat \ {0} /\ LEVELS \in Nat \ {0} /\ WORD \in Nat \ {0} /\ Span \in Nat \ {0}
  /\ N \in Nat /\ N = LARGE + LEVELS
<1>1. USED_FLAG \in Nat
  BY HeapAssumption
<1> QED
  BY <1>1, HeapAssumption, ShiftAssumption DEF N, Span

-----------------------------------------------------------------------------
(* Sizes and their lists *)

LEMMA ShiftIs ==
  /\ Shift(0) = 1
  /\ \A n \in 0..N : Shift(n) \in Nat \ {0} /\ Shift(n + 1) = 2 * Shift(n)
  /\ USED_FLAG <= Shift(N)
  BY ShiftAssumption DEF N

LEMMA ShiftMonotone ==
  ASSUME NEW m \in 0..N, NEW n \in 0..N, m <= n
  PROVE  Shift(m) <= Shift(n)
<1> DEFINE bad == {k \in m..N : ~(Shift(m) <= Shift(k))}
<1>1. bad = {}
  <2> SUFFICES ASSUME bad # {} PROVE FALSE
    OBVIOUS
  <2>1. N \in Nat /\ m \in Nat
    BY Parameters
  <2>2. bad \in SUBSET Nat
    BY <2>1
  <2>3. Min(bad) \in bad /\ \A k \in bad : Min(bad) <= k
    BY <2>2, LeastNatural
  <2>4. PICK k \in m..N : ~(Shift(m) <= Shift(k)) /\ \A l \in bad : k <= l
    BY <2>3
  <2>5. k # m
    BY <2>1, <2>4, ShiftIs
  <2>6. k - 1 \in m..N /\ k - 1 \in 0..N /\ (k - 1) + 1 = k /\ ~(k <= k - 1)
    BY <2>1, <2>4, <2>5
  <2>7. Shift(m) <= Shift(k - 1)
    BY <2>4, <2>6
  <2>8. Shift(k) = 2 * Shift(k - 1) /\ Shift(k - 1) \in Nat /\ Shift(m) \in Nat
    BY <2>6, ShiftIs
  <2> QED
    BY <2>4, <2>7, <2>8
<1>2. n \in m..N
  BY Parameters
<1> QED
  BY <1>1, <1>2

LEMMA Log2Is ==
  ASSUME NEW size \in 1..(USED_FLAG - 1)
  PROVE  /\ Log2(size) \in 0..(N - 1)
         /\ Shift(Log2(size)) \in Nat \ {0}
         /\ Shift(Log2(size)) <= size /\ size < 2 * Shift(Log2(size))
         /\ Shift(Log2(size) + 1) = 2 * Shift(Log2(size))
<1> DEFINE above == {f \in 0..(N - 1) : size < Shift(f + 1)}
<1>1. N \in Nat \ {0} /\ USED_FLAG \in Nat /\ size \in Nat \ {0} /\ size < USED_FLAG
  BY Parameters
<1>2. N - 1 \in above
  <2>1. (N - 1) + 1 = N /\ N - 1 \in 0..(N - 1) /\ N \in 0..N
    BY <1>1
  <2>2. size < Shift(N)
    BY <1>1, <2>1, ShiftIs
  <2> QED
    BY <2>1, <2>2
<1>3. above \in SUBSET Nat /\ above # {}
  <2>1. \A f \in 0..(N - 1) : f \in Nat
    OBVIOUS
  <2>2. above \subseteq 0..(N - 1)
    OBVIOUS
  <2> HIDE DEF above
  <2> QED
    BY <1>2, <2>1, <2>2
<1>4. Min(above) \in above /\ \A f \in above : Min(above) <= f
  BY <1>3, LeastNatural
<1>5. PICK f \in 0..(N - 1) : size < Shift(f + 1) /\ \A g \in above : f <= g
  BY <1>4
<1>6. Shift(f) <= size
  <2>1. CASE f = 0
    BY <2>1, <1>1, ShiftIs
  <2>2. CASE f # 0
    <3>1. f - 1 \in 0..(N - 1) /\ (f - 1) + 1 = f /\ ~(f <= f - 1) /\ f \in 0..N
      BY <2>2, <1>1
    <3>2. ~(size < Shift(f))
      BY <3>1, <1>5
    <3>3. Shift(f) \in Nat
      BY <3>1, ShiftIs
    <3> QED
      BY <3>2, <3>3, <1>1
  <2> QED
    BY <2>1, <2>2
<1>7. Log2(size) \in 0..(N - 1) /\ Shift(Log2(size)) <= size /\ size < Shift(Log2(size) + 1)
  <2> DEFINE range == 0..(LARGE + LEVELS - 1)
             fits(g) == Shift(g) <= size /\ size < Shift(g + 1)
  <2>1. 0..(N - 1) = range
    BY Parameters DEF N
  <2>2. f \in range /\ fits(f)
    BY <1>5, <1>6, <2>1
  <2>3. Log2(size) = CHOOSE g \in range : fits(g)
    BY Zenon DEF Log2
  <2> HIDE DEF range, fits
  <2>4. Log2(size) \in range /\ fits(Log2(size))
    BY <2>2, <2>3, Zenon
  <2> QED
    BY <2>1, <2>4 DEF fits
<1>8. Log2(size) \in 0..N
  BY <1>1, <1>7
<1> QED
  BY <1>7, <1>8, ShiftIs

\* A quotient of a number between a power and its double.
LEMMA Quotient ==
  ASSUME NEW a \in Nat \ {0}, NEW b \in Nat \ {0}, NEW p \in Nat \ {0}
  PROVE  /\ (a * b) \div p \in Nat
         /\ p <= a /\ a < 2 * p => (a * b) \div p >= b /\ (a * b) \div p < 2 * b
<1>1. PICK x \in Nat : x = a * b
  OBVIOUS
<1>2. \A y \in Nat, m \in Nat \ {0} :
        /\ y \div m \in Nat
        /\ m * (y \div m) <= y /\ y < m * (y \div m) + m
  OBVIOUS
<1>3. PICK q \in Nat : q = x \div p /\ p * q <= x /\ x < p * q + p
  BY <1>2
<1>4. ASSUME p <= a, a < 2 * p PROVE q >= b /\ q < 2 * b
  <2>1. p * b <= x
    BY <1>1, <1>4
  <2>2. x < (2 * p) * b
    BY <1>1, <1>4
  <2>3. q >= b
    <3> SUFFICES ASSUME q + 1 <= b PROVE FALSE
      BY <1>3
    <3>1. p * (q + 1) <= p * b
      OBVIOUS
    <3>2. p * (q + 1) = p * q + p
      OBVIOUS
    <3>3. p * q \in Nat /\ p * b \in Nat
      OBVIOUS
    <3> HIDE <1>1
    <3> QED
      BY <3>1, <3>2, <3>3, <2>1, <1>3
  <2>4. q < 2 * b
    <3> SUFFICES ASSUME 2 * b <= q PROVE FALSE
      BY <1>3
    <3>1. p * (2 * b) <= p * q
      OBVIOUS
    <3>2. p * (2 * b) = (2 * p) * b
      OBVIOUS
    <3> QED
      BY <3>1, <3>2, <2>2, <1>3
  <2> QED
    BY <2>3, <2>4
<1> QED
  BY <1>1, <1>3, <1>4

\* Larger numbers have larger quotients.
LEMMA QuotientGrows ==
  ASSUME NEW x \in Nat, NEW y \in Nat, NEW p \in Nat \ {0}, x <= y
  PROVE  x \div p <= y \div p
<1>1. \A z \in Nat, m \in Nat \ {0} :
        /\ z \div m \in Nat
        /\ m * (z \div m) <= z /\ z < m * (z \div m) + m
  OBVIOUS
<1>2. PICK q \in Nat : q = x \div p /\ p * q <= x
  BY <1>1
<1>3. PICK r \in Nat : r = y \div p /\ y < p * r + p
  BY <1>1
<1> SUFFICES ASSUME r + 1 <= q PROVE FALSE
  BY <1>2, <1>3
<1>4. p * (r + 1) <= p * q
  OBVIOUS
<1>5. p * (r + 1) = p * r + p
  OBVIOUS
<1> QED
  BY <1>2, <1>3, <1>4, <1>5

\* Where the list of a large size is.
Large(size) == SMALL + (Log2(size) - LARGE) * Span

LEMMA LargeIs ==
  ASSUME NEW size \in 1..(USED_FLAG - 1), size > SMALL
  PROVE  /\ Log2(size) \in LARGE..(N - 1)
         /\ FreeListIndexGet(size) =
              Large(size) + ((size * Span) \div Shift(Log2(size))) - Span
         /\ Large(size) \in Nat /\ Large(size) >= SMALL
         /\ FreeListIndexGet(size) >= Large(size)
         /\ FreeListIndexGet(size) < Large(size) + Span
         /\ FreeListIndexGet(size) \in Nat
<1> DEFINE f == Log2(size)
           P == Shift(f)
           q == (size * Span) \div P
<1>1. /\ f \in 0..(N - 1) /\ P \in Nat \ {0} /\ P <= size /\ size < 2 * P
      /\ Shift(f + 1) = 2 * P
  BY Log2Is
<1>2. /\ N \in Nat /\ N = LARGE + LEVELS /\ LARGE \in Nat /\ LEVELS \in Nat /\ Span \in Nat \ {0}
      /\ size \in Nat \ {0}
  BY Parameters
<1>3. SMALL = Shift(LARGE) - 1 /\ Shift(LARGE) \in Nat \ {0}
  <2>1. LARGE \in 0..N
    BY <1>2
  <2> QED
    BY <2>1, ShiftIs DEF SMALL
<1>4. f \in LARGE..(N - 1)
  <2> SUFFICES ASSUME f < LARGE PROVE FALSE
    BY <1>1, <1>2
  <2>1. f + 1 \in 0..N /\ LARGE \in 0..N /\ f + 1 <= LARGE
    BY <1>1, <1>2
  <2>2. Shift(f + 1) <= Shift(LARGE)
    BY <2>1, ShiftMonotone
  <2> QED
    BY <2>2, <1>1, <1>2, <1>3
<1>5. q \in Nat /\ q >= Span /\ q < 2 * Span
  <2> HIDE DEF P, f
  <2> QED
    BY <1>1, <1>2, Quotient
<1>6. FreeListIndexGet(size) = SMALL + (f - LARGE) * Span + q - Span
  <2>1. ~(size <= SMALL)
    BY <1>2, <1>3
  <2> QED
    BY <2>1 DEF FreeListIndexGet, Span
<1>7. (f - LARGE) * Span \in Nat
  <2>1. f - LARGE \in Nat
    BY <1>2, <1>4
  <2> HIDE DEF f
  <2> QED
    BY <2>1, <1>2
<1>8. Large(size) = SMALL + (f - LARGE) * Span
  BY DEF Large
<1> HIDE DEF q, P, f
<1>9. SMALL \in Nat
  BY <1>3
<1>10. PICK x \in Nat : x = (f - LARGE) * Span
  BY <1>7
<1>11. Large(size) = SMALL + x /\ FreeListIndexGet(size) = SMALL + x + q - Span
  BY <1>6, <1>8, <1>10
<1>12. FreeListIndexGet(size) = Large(size) + q - Span
  BY <1>2, <1>5, <1>9, <1>11
<1> QED
  BY <1>2, <1>4, <1>5, <1>9, <1>11, <1>12 DEF q, P, f

\* Every size below the flag has a list, small sizes a list of their own.
LEMMA IndexIs ==
  ASSUME NEW size \in 1..(USED_FLAG - 1)
  PROVE  /\ FreeListIndexGet(size) \in Lists
         /\ size <= SMALL => FreeListIndexGet(size) = size - 1
<1>1. /\ N \in Nat /\ N = LARGE + LEVELS /\ LARGE \in Nat /\ LEVELS \in Nat \ {0} /\ Span \in Nat \ {0}
      /\ size \in Nat \ {0}
  BY Parameters
<1>2. SMALL \in Nat
  <2>1. LARGE \in 0..N
    BY <1>1
  <2>2. Shift(LARGE) \in Nat \ {0}
    BY <2>1, ShiftIs
  <2> QED
    BY <2>2 DEF SMALL
<1>3. LEVELS * Span \in Nat \ {0}
  BY <1>1
<1>4. Lists = 0..(SMALL + LEVELS * Span - 1)
  BY DEF Lists, Span
<1>5. CASE size <= SMALL
  <2>1. FreeListIndexGet(size) = size - 1
    BY <1>5 DEF FreeListIndexGet
  <2>2. PICK x \in Nat \ {0} : x = LEVELS * Span
    BY <1>3
  <2>3. size - 1 \in 0..(SMALL + x - 1)
    BY <1>1, <1>2, <1>5
  <2> QED
    BY <2>1, <2>2, <2>3, <1>4
<1>6. CASE ~(size <= SMALL)
  <2>1. size > SMALL
    BY <1>1, <1>2, <1>6
  <2>2. /\ Log2(size) \in LARGE..(N - 1)
        /\ FreeListIndexGet(size) < Large(size) + Span
        /\ FreeListIndexGet(size) \in Nat
    BY <2>1, LargeIs
  <2>3. PICK f \in Nat : f = Log2(size) - LARGE /\ f + 1 <= LEVELS
    BY <1>1, <2>2
  <2>4. (f + 1) * Span <= LEVELS * Span
    BY <1>1, <2>3
  <2>5. f * Span \in Nat /\ (f + 1) * Span = f * Span + Span
    BY <1>1
  <2>6. Large(size) = SMALL + f * Span
    BY <2>3 DEF Large
  <2>7. PICK x \in Nat, y \in Nat : x = LEVELS * Span /\ y = f * Span
    BY <1>3, <2>5
  <2>8. FreeListIndexGet(size) \in 0..(SMALL + x - 1)
    BY <1>1, <1>2, <2>2, <2>4, <2>5, <2>6, <2>7
  <2> QED
    BY <2>7, <2>8, <1>4, <1>6
<1> QED
  BY <1>5, <1>6

LEMMA IndexMonotone ==
  ASSUME NEW s \in 1..(USED_FLAG - 1), NEW t \in 1..(USED_FLAG - 1), s <= t
  PROVE  FreeListIndexGet(s) <= FreeListIndexGet(t)
<1>1. /\ N \in Nat /\ N = LARGE + LEVELS /\ LARGE \in Nat /\ LEVELS \in Nat \ {0} /\ Span \in Nat \ {0}
      /\ s \in Nat \ {0} /\ t \in Nat \ {0}
  BY Parameters
<1>2. SMALL \in Nat
  <2>1. LARGE \in 0..N
    BY <1>1
  <2>2. Shift(LARGE) \in Nat \ {0}
    BY <2>1, ShiftIs
  <2> QED
    BY <2>2 DEF SMALL
<1>3. CASE t <= SMALL
  <2>1. s <= SMALL
    BY <1>1, <1>2, <1>3
  <2>2. FreeListIndexGet(s) = s - 1 /\ FreeListIndexGet(t) = t - 1
    BY <1>3, <2>1, IndexIs
  <2> QED
    BY <2>2, <1>1
<1>4. CASE s <= SMALL /\ t > SMALL
  <2>1. FreeListIndexGet(s) = s - 1
    BY <1>4, IndexIs
  <2>2. FreeListIndexGet(t) \in Nat /\ FreeListIndexGet(t) >= Large(t)
        /\ Large(t) \in Nat /\ Large(t) >= SMALL
    BY <1>4, LargeIs
  <2> QED
    BY <2>1, <2>2, <1>1, <1>2, <1>4
<1>5. CASE s > SMALL /\ t > SMALL
  <2> DEFINE f == Log2(s)
             g == Log2(t)
  <2>1. /\ f \in LARGE..(N - 1) /\ Large(s) \in Nat
        /\ FreeListIndexGet(s) = Large(s) + ((s * Span) \div Shift(f)) - Span
        /\ FreeListIndexGet(s) < Large(s) + Span /\ FreeListIndexGet(s) \in Nat
    BY <1>5, LargeIs
  <2>2. /\ g \in LARGE..(N - 1) /\ Large(t) \in Nat
        /\ FreeListIndexGet(t) = Large(t) + ((t * Span) \div Shift(g)) - Span
        /\ FreeListIndexGet(t) >= Large(t) /\ FreeListIndexGet(t) \in Nat
    BY <1>5, LargeIs
  <2>3. Shift(f) \in Nat \ {0} /\ Shift(f) <= s
    BY Log2Is
  <2>4. Shift(g) \in Nat \ {0} /\ t < Shift(g + 1) /\ Shift(g + 1) = 2 * Shift(g)
    BY Log2Is
  <2>5. Large(s) = SMALL + (f - LARGE) * Span /\ Large(t) = SMALL + (g - LARGE) * Span
    BY DEF Large
  <2> HIDE DEF f, g
  <2>6. f <= g
    <3> SUFFICES ASSUME g + 1 <= f PROVE FALSE
      BY <1>1, <2>1, <2>2
    <3>1. g + 1 \in 0..N /\ f \in 0..N
      BY <1>1, <2>1, <2>2
    <3>2. Shift(g + 1) <= Shift(f)
      BY <3>1, ShiftMonotone
    <3> QED
      BY <3>2, <2>3, <2>4, <1>1
  <2>7. CASE f = g
    <3>1. s * Span \in Nat /\ t * Span \in Nat /\ s * Span <= t * Span
      BY <1>1
    <3>2. (s * Span) \div Shift(f) <= (t * Span) \div Shift(f)
      BY <3>1, <2>3, QuotientGrows
    <3>3. (s * Span) \div Shift(f) \in Nat /\ (t * Span) \div Shift(f) \in Nat
      BY <1>1, <2>3, Quotient
    <3>4. Large(s) = Large(t)
      BY <2>5, <2>7
    <3> QED
      BY <3>2, <3>3, <3>4, <2>1, <2>2, <2>7, <1>1
  <2>8. CASE f < g
    <3>1. PICK x \in Nat, y \in Nat : x = f - LARGE /\ y = g - LARGE /\ x + 1 <= y
      BY <1>1, <2>1, <2>2, <2>8
    <3>2. (x + 1) * Span <= y * Span
      BY <1>1, <3>1
    <3>3. x * Span \in Nat /\ (x + 1) * Span = x * Span + Span /\ y * Span \in Nat
      BY <1>1
    <3>4. Large(s) = SMALL + x * Span /\ Large(t) = SMALL + y * Span
      BY <2>5, <3>1
    <3>5. PICK u \in Nat, v \in Nat : u = x * Span /\ v = y * Span
      BY <3>3
    <3> QED
      BY <3>2, <3>3, <3>4, <3>5, <2>1, <2>2, <1>1, <1>2
  <2> QED
    BY <2>6, <2>7, <2>8, <1>1, <2>1, <2>2
<1> QED
  BY <1>1, <1>2, <1>3, <1>4, <1>5

-----------------------------------------------------------------------------
(* What a sound pool is *)

Header == [prev : Nat, size : Nat, used : BOOLEAN]

PoolType == [head : [Addresses -> Header], freeList : [Lists -> Seq(Addresses)],
             bitmap : SUBSET Lists, curUsedSize : Int]

(***************************************************************************)
(* The headers h are one chain through the addresses of the set C, forth   *)
(* and back, and there is no other header.                                 *)
(***************************************************************************)
Chained(h, C) ==
  /\ C \in SUBSET Addresses /\ FIRST \in C /\ END \in C
  /\ \A a \in Addresses \ C : h[a] = Data
  /\ h[FIRST].prev = END /\ h[END].used /\ h[END].size = 0
  /\ \A a \in C \ {END} : /\ h[a].size >= MIN_LEFT
                          /\ a + h[a].size \in C
                          /\ h[a + h[a].size].prev = a
                          /\ \A b \in C : b <= a \/ a + h[a].size <= b
  /\ \A a \in C \ {FIRST} : /\ h[a].prev \in C \ {END}
                            /\ h[a].prev + h[h[a].prev].size = a

\* The free lists have the nodes of the set F, each in the list of its size.
Listed(p, F) ==
  /\ F \in SUBSET Addresses
  /\ \A a \in F : p.head[a].size \in 1..POOL
  /\ \A i \in Lists :
       /\ IsInjective(p.freeList[i])
       /\ ToSet(p.freeList[i]) = {a \in F : FreeListIndexGet(p.head[a].size) = i}
       /\ i \in p.bitmap <=> p.freeList[i] # << >>

(***************************************************************************)
(* The pool p in the middle of a call that works on the nodes of the set X:*)
(* these are in no free list, and may be free next to another free node.   *)
(***************************************************************************)
Open(p, C, X) ==
  /\ p \in PoolType
  /\ Chained(p.head, C)
  /\ Listed(p, {a \in C \ X : ~p.head[a].used})
  /\ \A a \in C \ (X \cup {END}) : p.head[a].used \/ p.head[a + p.head[a].size].used

\* The used nodes other than w stay used and keep their sizes, no other gets used.
Kept(p, q, w) ==
  \A a \in Addresses \ {w} : /\ q.head[a].used <=> p.head[a].used
                             /\ p.head[a].used => q.head[a].size = p.head[a].size

-----------------------------------------------------------------------------
(* The free lists *)

LEMMA Places2 ==
  /\ Addresses = FIRST..END /\ END = FIRST + POOL
  /\ FIRST \in Addresses /\ END \in Addresses /\ FIRST # END
  /\ \A a \in Addresses : a \in Nat /\ a # NULL /\ FIRST <= a /\ a <= END
  /\ END \in Nat
  BY Parameters DEF Addresses, END, NULL

LEMMA SizeHasList ==
  ASSUME NEW size \in 1..POOL
  PROVE  size \in 1..(USED_FLAG - 1) /\ FreeListIndexGet(size) \in Lists
<1>1. size \in 1..(USED_FLAG - 1)
  BY Parameters
<1> QED
  BY <1>1, IndexIs

LEMMA SingleMember ==
  ASSUME NEW T, NEW x \in T
  PROVE  <<x>> \in Seq(T) /\ ToSet(<<x>>) = {x} /\ IsInjective(<<x>>)
<1>1. DOMAIN <<x>> = {1} /\ <<x>>[1] = x
  OBVIOUS
<1>2. <<x>> \in Seq(T)
  OBVIOUS
<1> QED
  BY <1>1, <1>2 DEF ToSet, IsInjective

LEMMA NodeAdded ==
  ASSUME NEW p \in PoolType, NEW F, Listed(p, F), NEW node \in Addresses \ F,
         p.head[node].size \in 1..POOL
  PROVE  /\ FreeNodeAdd(p, node) \in PoolType
         /\ FreeNodeAdd(p, node).head = p.head
         /\ Listed(FreeNodeAdd(p, node), F \cup {node})
<1> DEFINE index == FreeListIndexGet(p.head[node].size)
           q == FreeNodeAdd(p, node)
           one == <<node>>
           list == one \o p.freeList[index]
<1>1. index \in Lists
  BY SizeHasList
<1>2. /\ p.freeList \in [Lists -> Seq(Addresses)] /\ p.bitmap \in SUBSET Lists
      /\ p.head \in [Addresses -> Header]
  BY DEF PoolType
<1>3. /\ q = [p EXCEPT !.freeList[index] = <<node>> \o @, !.bitmap = @ \cup {index}]
  BY DEF FreeNodeAdd
<1> HIDE DEF index, q
<1>4. p.freeList[index] \in Seq(Addresses)
  BY <1>1, <1>2
<1>5. one \in Seq(Addresses) /\ ToSet(one) = {node} /\ IsInjective(one)
  BY SingleMember
<1> HIDE DEF one
<1>6. list \in Seq(Addresses) /\ ToSet(list) = {node} \cup ToSet(p.freeList[index])
  BY <1>4, <1>5, ConcatMembers
<1>7. /\ q.head = p.head
      /\ q.freeList = [p.freeList EXCEPT ![index] = list]
      /\ q.bitmap = p.bitmap \cup {index}
  BY <1>3 DEF PoolType, one
<1>8. q \in PoolType
  <2>1. [p.freeList EXCEPT ![index] = list] \in [Lists -> Seq(Addresses)]
    BY <1>2, <1>6
  <2>2. p.bitmap \cup {index} \in SUBSET Lists
    BY <1>1, <1>2
  <2> HIDE DEF list
  <2>3. q = [p EXCEPT !.freeList = [p.freeList EXCEPT ![index] = list], !.bitmap = p.bitmap \cup {index}]
    BY <1>3 DEF list, one, PoolType
  <2> QED
    BY <2>1, <2>2, <2>3 DEF PoolType
<1>9. ASSUME NEW i \in Lists
      PROVE  /\ IsInjective(q.freeList[i])
             /\ ToSet(q.freeList[i]) = {a \in F \cup {node} : FreeListIndexGet(p.head[a].size) = i}
             /\ i \in q.bitmap <=> q.freeList[i] # << >>
  <2>1. /\ IsInjective(p.freeList[i])
        /\ ToSet(p.freeList[i]) = {a \in F : FreeListIndexGet(p.head[a].size) = i}
        /\ i \in p.bitmap <=> p.freeList[i] # << >>
    BY DEF Listed
  <2>2. CASE i # index
    <3>1. q.freeList[i] = p.freeList[i] /\ (i \in q.bitmap <=> i \in p.bitmap)
      BY <2>2, <1>2, <1>7
    <3> QED
      BY <2>1, <2>2, <3>1 DEF index
  <2>3. CASE i = index
    <3>1. q.freeList[i] = list /\ i \in q.bitmap
      BY <2>3, <1>2, <1>7
    <3>2. IsInjective(list)
      <4>1. ToSet(one) \cap ToSet(p.freeList[index]) = {}
        BY <2>1, <2>3, <1>5
      <4> QED
        BY <4>1, <2>1, <2>3, <1>4, <1>5, ConcatMembers
    <3>3. list # << >>
      <4>1. node \in ToSet(list)
        BY <1>6
      <4> QED
        BY <4>1, <1>6, EmptyMembers
    <3> QED
      BY <2>1, <2>3, <3>1, <3>2, <3>3, <1>6 DEF index
  <2> QED
    BY <2>2, <2>3
<1>10. \A a \in F \cup {node} : p.head[a].size \in 1..POOL
  BY DEF Listed
<1>11. F \cup {node} \in SUBSET Addresses
  BY DEF Listed
<1>12. Listed(q, F \cup {node})
  BY <1>7, <1>9, <1>10, <1>11 DEF Listed
<1> QED
  BY <1>7, <1>8, <1>12 DEF q

LEMMA NodeDeleted ==
  ASSUME NEW p \in PoolType, NEW F, Listed(p, F), NEW node \in F, NEW index,
         index = FreeListIndexGet(p.head[node].size)
  PROVE  /\ ListDelete(p, index, node) \in PoolType
         /\ ListDelete(p, index, node).head = p.head
         /\ Listed(ListDelete(p, index, node), F \ {node})
<1> DEFINE q == ListDelete(p, index, node)
           rest == Leave(p.freeList[index], {node})
           bits == IF rest = << >> THEN p.bitmap \ {index} ELSE p.bitmap
<1>1. index \in Lists
  BY SizeHasList DEF Listed
<1>2. /\ p.freeList \in [Lists -> Seq(Addresses)] /\ p.bitmap \in SUBSET Lists
      /\ p.head \in [Addresses -> Header]
  BY DEF PoolType
<1>3. q = [p EXCEPT !.freeList[index] = rest,
                    !.bitmap = IF rest = << >> THEN @ \ {index} ELSE @]
  BY DEF ListDelete
<1>4. p.freeList[index] \in Seq(Addresses)
  BY <1>1, <1>2
<1> HIDE DEF q
<1>5. /\ rest \in Seq(Addresses) /\ ToSet(rest) = ToSet(p.freeList[index]) \ {node}
      /\ IsInjective(p.freeList[index]) => IsInjective(rest)
  BY <1>4, LeaveMembers
<1> HIDE DEF rest
<1>6. q.head = p.head /\ q.freeList = [p.freeList EXCEPT ![index] = rest] /\ q.bitmap = bits
  BY <1>3 DEF PoolType
<1>7. q \in PoolType
  <2>1. [p.freeList EXCEPT ![index] = rest] \in [Lists -> Seq(Addresses)]
    BY <1>2, <1>5
  <2>2. bits \in SUBSET Lists
    BY <1>1, <1>2
  <2>3. q = [p EXCEPT !.freeList = [p.freeList EXCEPT ![index] = rest], !.bitmap = bits]
    BY <1>3 DEF PoolType
  <2> HIDE DEF bits
  <2> QED
    BY <2>1, <2>2, <2>3 DEF PoolType
<1>8. ASSUME NEW i \in Lists
      PROVE  /\ IsInjective(q.freeList[i])
             /\ ToSet(q.freeList[i]) = {a \in F \ {node} : FreeListIndexGet(p.head[a].size) = i}
             /\ i \in q.bitmap <=> q.freeList[i] # << >>
  <2>1. /\ IsInjective(p.freeList[i])
        /\ ToSet(p.freeList[i]) = {a \in F : FreeListIndexGet(p.head[a].size) = i}
        /\ i \in p.bitmap <=> p.freeList[i] # << >>
    BY DEF Listed
  <2>2. CASE i # index
    <3>1. q.freeList[i] = p.freeList[i] /\ (i \in q.bitmap <=> i \in p.bitmap)
      BY <2>2, <1>2, <1>6
    <3> QED
      BY <2>1, <2>2, <3>1
  <2>3. CASE i = index
    <3>1. q.freeList[i] = rest
      BY <2>3, <1>1, <1>2, <1>6
    <3>2. p.freeList[i] # << >>
      <4>1. node \in ToSet(p.freeList[i])
        BY <2>1, <2>3
      <4>2. ToSet(<< >>) = {}
        BY <1>4, EmptyMembers
      <4> QED
        BY <4>1, <4>2
    <3>3. i \in q.bitmap <=> rest # << >>
      BY <2>1, <2>3, <3>2, <1>6
    <3> QED
      BY <2>1, <2>3, <3>1, <3>3, <1>5
  <2> QED
    BY <2>2, <2>3
<1>9. Listed(q, F \ {node})
  BY <1>6, <1>8 DEF Listed
<1> QED
  BY <1>6, <1>7, <1>9 DEF q

\* Changes to nodes that are in no list do not disturb the lists.
LEMMA ListsStay ==
  ASSUME NEW p \in PoolType, NEW q \in PoolType, NEW F, Listed(p, F),
         q.freeList = p.freeList, q.bitmap = p.bitmap,
         \A a \in F : q.head[a].size = p.head[a].size
  PROVE  Listed(q, F)
<1>1. \A i \in Lists : {a \in F : FreeListIndexGet(p.head[a].size) = i}
                     = {a \in F : FreeListIndexGet(q.head[a].size) = i}
  OBVIOUS
<1> QED
  BY <1>1 DEF Listed

-----------------------------------------------------------------------------
(* The chain *)

LEMMA NodeFacts ==
  ASSUME NEW h \in [Addresses -> Header], NEW C, Chained(h, C), NEW a \in C \ {END}
  PROVE  /\ h[a].size \in 1..POOL /\ a \in Nat
         /\ a + h[a].size \in C \ {FIRST} /\ a < a + h[a].size
         /\ h[a + h[a].size].prev = a
<1>1. /\ h[a].size >= MIN_LEFT /\ a + h[a].size \in C /\ C \in SUBSET Addresses
      /\ h[a + h[a].size].prev = a
  BY DEF Chained
<1>2. h[a].size \in Nat
  BY <1>1 DEF Header
<1>3. PICK n \in Nat : n = h[a].size
  BY <1>2
<1>4. a + n \in Addresses /\ a \in Addresses
  BY <1>1, <1>3
<1>5. a \in Nat /\ FIRST \in Nat /\ POOL \in Nat /\ FIRST <= a /\ a + n <= FIRST + POOL
  BY <1>4, Places2, Parameters
<1>6. n \in 1..POOL /\ a < a + n /\ a + n # FIRST
  BY <1>1, <1>3, <1>5 DEF MIN_LEFT
<1> QED
  BY <1>1, <1>3, <1>5, <1>6

\* q is the pool p after node has become part of the node before.
Merged(p, q, C, node, before) ==
  /\ q \in PoolType
  /\ q.freeList = p.freeList /\ q.bitmap = p.bitmap
  /\ Chained(q.head, C \ {node})
  /\ before \in C \ {END, node} /\ before + p.head[before].size = node
  /\ q.head[before].size = p.head[before].size + p.head[node].size
  /\ before + q.head[before].size = node + p.head[node].size
  /\ \A a \in Addresses \ {node} : q.head[a].used = p.head[a].used
  /\ \A a \in Addresses \ {node, before} : q.head[a].size = p.head[a].size
  /\ q.head[node] = Data

LEMMA NodeMerged ==
  ASSUME NEW p \in PoolType, NEW C, Chained(p.head, C), NEW node \in C \ {FIRST, END},
         NEW before, before = p.head[node].prev
  PROVE  Merged(p, MergeNode(p, node), C, node, before)
<1> DEFINE h == p.head
           q == MergeNode(p, node)
           next == node + h[node].size
           first == [h[before] EXCEPT !.size = @ + h[node].size]
           second == [h[next] EXCEPT !.prev = before]
           g == [h EXCEPT ![before] = first, ![next] = second, ![node] = Data]
<1>1. h \in [Addresses -> Header] /\ C \in SUBSET Addresses
  BY DEF PoolType, Chained
<1>2. /\ before \in C \ {END} /\ before + h[before].size = node
  BY DEF Chained
<1> HIDE DEF h
<1>3. /\ h[before].size \in 1..POOL /\ before \in Nat /\ before < node
  BY <1>1, <1>2, NodeFacts DEF h
<1>4. /\ h[node].size \in 1..POOL /\ node \in Nat /\ next \in C \ {FIRST} /\ node < next
      /\ h[next].prev = node
  BY <1>1, NodeFacts DEF h
<1> HIDE DEF next
<1>5. next \in Nat /\ before # node /\ node # next /\ before # next
  BY <1>1, <1>3, <1>4, Places2
<1>6. q = [p EXCEPT !.head[before].size = @ + h[node].size,
                    !.head[next].prev = before,
                    !.head[node] = Data]
  BY DEF MergeNode, NextNode, h, next
<1> HIDE DEF q
<1>7. before \in Addresses /\ next \in Addresses /\ node \in Addresses
  BY <1>1, <1>2, <1>4
<1>8. /\ first \in Header /\ first.prev = h[before].prev /\ first.used = h[before].used
      /\ first.size = h[before].size + h[node].size
      /\ second \in Header /\ second.prev = before /\ second.used = h[next].used
      /\ second.size = h[next].size
      /\ Data \in Header
  <2>1. h[before] \in Header /\ h[next] \in Header
    BY <1>1, <1>7
  <2> QED
    BY <2>1, <1>3, <1>4 DEF Header, Data, NULL
<1>9. q = [p EXCEPT !.head = g]
  <2> DEFINE p1 == [p EXCEPT !.head[before].size = @ + h[node].size]
             p2 == [p1 EXCEPT !.head[next].prev = before]
             p3 == [p2 EXCEPT !.head[node] = Data]
             g1 == [h EXCEPT ![before] = first]
             g2 == [g1 EXCEPT ![next] = second]
             g3 == [g2 EXCEPT ![node] = Data]
  <2>1. q = p3
    BY <1>6
  <2>2. p1 = [p EXCEPT !.head = g1]
    BY <1>7 DEF PoolType, h
  <2>3. g1[next] = h[next] /\ g1 \in [Addresses -> Header]
    BY <1>1, <1>5, <1>7, <1>8
  <2> HIDE DEF p1, g1
  <2>4. p1.head = g1
    BY <2>2 DEF PoolType
  <2>5. p2 = [p EXCEPT !.head = g2]
    BY <2>2, <2>3, <2>4 DEF PoolType
  <2> HIDE DEF p2, g2
  <2>6. p2.head = g2
    BY <2>5 DEF PoolType
  <2>7. p3 = [p EXCEPT !.head = g3]
    BY <2>5, <2>6 DEF PoolType
  <2>8. g = g3
    BY DEF g1, g2
  <2> QED
    BY <2>1, <2>7, <2>8
<1> HIDE DEF first, second
<1>10. /\ g \in [Addresses -> Header]
       /\ g[before] = first /\ g[next] = second /\ g[node] = Data
       /\ \A a \in Addresses \ {before, next, node} : g[a] = h[a]
  BY <1>1, <1>5, <1>7, <1>8
<1> HIDE DEF g
<1>11. /\ q \in PoolType /\ q.head = g /\ q.freeList = p.freeList /\ q.bitmap = p.bitmap
  BY <1>9, <1>10 DEF PoolType
<1>12. /\ g[before].size = h[before].size + h[node].size
       /\ g[before].prev = h[before].prev /\ g[before].used = h[before].used
       /\ g[next].size = h[next].size
       /\ g[next].prev = before /\ g[next].used = h[next].used
  BY <1>8, <1>10
<1>13. \A a \in Addresses \ {node} : g[a].used = h[a].used
  BY <1>10, <1>12
<1>14. \A a \in Addresses \ {node, before} : g[a].size = h[a].size
  BY <1>10, <1>12
<1>15. \A a \in Addresses \ {node, next} : g[a].prev = h[a].prev
  BY <1>10, <1>12
<1>16. before + g[before].size = next
  BY <1>2, <1>3, <1>4, <1>12 DEF next
<1>17. Chained(g, C \ {node})
  <2> DEFINE D == C \ {node}
  <2>1. D \in SUBSET Addresses /\ FIRST \in D /\ END \in D
    BY <1>1 DEF Chained
  <2>2. \A a \in Addresses \ D : g[a] = Data
    <3>1. \A a \in Addresses \ C : h[a] = Data /\ a # before /\ a # next
      BY <1>1, <1>2, <1>4 DEF Chained, h
    <3> QED
      BY <3>1, <1>10
  <2>3. g[FIRST].prev = END /\ g[END].used /\ g[END].size = 0
    <3>1. h[FIRST].prev = END /\ h[END].used /\ h[END].size = 0
      BY DEF Chained, h
    <3>2. FIRST \in Addresses \ {node, next} /\ END \in Addresses \ {node, before}
      BY <1>2, <1>4, Places2
    <3> QED
      BY <3>1, <3>2, <1>13, <1>14, <1>15
  <2>4. ASSUME NEW a \in D \ {END}
        PROVE  /\ g[a].size >= MIN_LEFT
               /\ a + g[a].size \in D
               /\ g[a + g[a].size].prev = a
               /\ \A b \in D : b <= a \/ a + g[a].size <= b
    <3>1. /\ h[a].size >= MIN_LEFT
          /\ a + h[a].size \in C
          /\ h[a + h[a].size].prev = a
          /\ \A b \in C : b <= a \/ a + h[a].size <= b
      BY DEF Chained, h
    <3>2. CASE a = before
      <4>1. a + g[a].size = next
        BY <3>2, <1>16
      <4>2. g[a].size >= MIN_LEFT
        BY <3>1, <3>2, <1>3, <1>4, <1>12 DEF MIN_LEFT
      <4>3. ASSUME NEW b \in D PROVE b <= a \/ next <= b
        <5>1. b <= a \/ node <= b
          BY <3>1, <3>2, <1>2
        <5>2. b <= node \/ next <= b
          BY DEF Chained, h, next
        <5>3. b # node /\ b \in Nat /\ node \in Nat
          BY <2>1, <1>4, Places2
        <5> QED
          BY <5>1, <5>2, <5>3
      <4> QED
        BY <3>2, <4>1, <4>2, <4>3, <1>4, <1>5, <1>12
    <3>3. CASE a # before
      <4>1. a \in Addresses \ {node, before} /\ g[a].size = h[a].size
        BY <3>3, <1>1, <1>14
      <4>2. a + h[a].size # node
        BY <3>1, <3>3 DEF h
      <4>3. a + h[a].size # next
        BY <3>1, <1>4
      <4>4. g[a + h[a].size].prev = a
        BY <3>1, <4>2, <4>3, <1>1, <1>15
      <4> QED
        BY <3>1, <4>1, <4>2, <4>4
    <3> QED
      BY <3>2, <3>3
  <2>5. ASSUME NEW a \in D \ {FIRST}
        PROVE  /\ g[a].prev \in D \ {END}
               /\ g[a].prev + g[g[a].prev].size = a
    <3>1. CASE a = next
      BY <3>1, <1>2, <1>5, <1>12, <1>16
    <3>2. CASE a # next
      <4>1. PICK r : r = h[a].prev
        OBVIOUS
      <4>2. r \in C \ {END} /\ r + h[r].size = a
        BY <4>1 DEF Chained, h
      <4>3. r # node /\ r # before
        BY <3>2, <4>2, <1>2 DEF next
      <4>4. g[r].size = h[r].size /\ g[a].prev = r
        BY <3>2, <4>1, <4>2, <4>3, <1>1, <1>14, <1>15
      <4> QED
        BY <4>2, <4>3, <4>4
    <3> QED
      BY <3>1, <3>2
  <2> QED
    BY <2>1, <2>2, <2>3, <2>4, <2>5 DEF Chained
<1> QED
  BY <1>2, <1>5, <1>10, <1>11, <1>12, <1>13, <1>14, <1>16, <1>17 DEF q, h, next, Merged

\* The first part of OsMemSplitNode.
Cut(p, node, size) ==
  [p EXCEPT !.head[node + size] = [prev |-> node, size |-> p.head[node].size - size,
                                   used |-> FALSE],
            !.head[node].size = size,
            !.head[NextNode(p, node)].prev = node + size]

\* q is the pool p after node has been cut off at new.
CutOff(p, q, C, node, size, new) ==
  /\ q \in PoolType
  /\ q.freeList = p.freeList /\ q.bitmap = p.bitmap
  /\ Chained(q.head, C \cup {new})
  /\ new \in Addresses \ C /\ new # node
  /\ q.head[node].size = size
  /\ new + q.head[new].size = node + p.head[node].size
  /\ ~q.head[new].used
  /\ \A a \in Addresses : q.head[a].used = p.head[a].used
  /\ \A a \in Addresses \ {node, new} : q.head[a].size = p.head[a].size

LEMMA NodeCut ==
  ASSUME NEW p \in PoolType, NEW C, Chained(p.head, C), NEW node \in C \ {END},
         NEW size \in Nat, size >= MIN_LEFT, size + MIN_LEFT <= p.head[node].size,
         NEW new, new = node + size
  PROVE  CutOff(p, Cut(p, node, size), C, node, size, new)
<1> DEFINE h == p.head
           q == Cut(p, node, size)
           next == node + h[node].size
           first == [prev |-> node, size |-> h[node].size - size, used |-> FALSE]
           second == [h[node] EXCEPT !.size = size]
           third == [h[next] EXCEPT !.prev = new]
           g == [h EXCEPT ![new] = first, ![node] = second, ![next] = third]
<1>1. h \in [Addresses -> Header] /\ C \in SUBSET Addresses
  BY DEF PoolType, Chained
<1>2. /\ h[node].size \in 1..POOL /\ node \in Nat /\ next \in C \ {FIRST} /\ node < next
      /\ h[next].prev = node
  BY <1>1, NodeFacts
<1>3. /\ \A b \in C : b <= node \/ next <= b
      /\ size \in Nat /\ size >= 4 /\ size + 4 <= h[node].size
  BY DEF Chained, MIN_LEFT
<1> HIDE DEF h
<1>4. next \in Nat /\ new \in Nat /\ node < new /\ new < next /\ next = node + h[node].size
      /\ next - new = h[node].size - size
  BY <1>2, <1>3
<1> HIDE DEF next
<1>5. node \in Addresses /\ next \in Addresses /\ new \in Addresses
  <2>1. node \in Addresses /\ next \in Addresses
    BY <1>1, <1>2
  <2>2. FIRST <= node /\ next <= END /\ FIRST \in Nat /\ END \in Nat
    BY <2>1, Places2, Parameters
  <2>3. FIRST <= new /\ new <= END
    BY <2>2, <1>2, <1>4
  <2> QED
    BY <2>1, <2>2, <2>3, <1>4, Places2
<1>6. new \notin C /\ new # node /\ new # next /\ node # next
  BY <1>2, <1>3, <1>4
<1>7. /\ first \in Header /\ first.prev = node /\ first.used = FALSE
      /\ first.size = h[node].size - size /\ first.size \in 1..POOL /\ first.size >= 4
      /\ second \in Header /\ second.prev = h[node].prev /\ second.used = h[node].used
      /\ second.size = size
      /\ third \in Header /\ third.prev = new /\ third.used = h[next].used
      /\ third.size = h[next].size
  <2>1. h[node] \in Header /\ h[next] \in Header
    BY <1>1, <1>5
  <2>2. PICK n \in Nat : n = h[node].size - size /\ n \in 1..POOL /\ n >= 4
    BY <1>2, <1>3, Parameters
  <2>3. first = [prev |-> node, size |-> n, used |-> FALSE] /\ first \in Header
    BY <2>2, <1>2 DEF Header
  <2>4. second \in Header /\ second.prev = h[node].prev /\ second.used = h[node].used
        /\ second.size = size
    BY <2>1, <1>3 DEF Header
  <2>5. third \in Header /\ third.prev = new /\ third.used = h[next].used
        /\ third.size = h[next].size
    BY <2>1, <1>4 DEF Header
  <2> QED
    BY <2>2, <2>3, <2>4, <2>5
<1>8. q = [p EXCEPT !.head[new] = first, !.head[node].size = size, !.head[next].prev = new]
  BY DEF Cut, NextNode, h, next
<1> HIDE DEF q, first
<1>9. q = [p EXCEPT !.head = g]
  <2> DEFINE p1 == [p EXCEPT !.head[new] = first]
             p2 == [p1 EXCEPT !.head[node].size = size]
             p3 == [p2 EXCEPT !.head[next].prev = new]
             g1 == [h EXCEPT ![new] = first]
             g2 == [g1 EXCEPT ![node] = second]
             g3 == [g2 EXCEPT ![next] = third]
  <2>1. q = p3
    BY <1>8
  <2>2. p1 = [p EXCEPT !.head = g1]
    BY <1>5 DEF PoolType, h
  <2>3. g1[node] = h[node] /\ g1 \in [Addresses -> Header]
    BY <1>1, <1>5, <1>6, <1>7
  <2> HIDE DEF p1, g1
  <2>4. p1.head = g1
    BY <2>2 DEF PoolType
  <2>5. p2 = [p EXCEPT !.head = g2]
    BY <2>2, <2>3, <2>4 DEF PoolType
  <2>6. g2[next] = h[next] /\ g2 \in [Addresses -> Header]
    <3>1. g2[next] = g1[next] /\ g2 \in [Addresses -> Header]
      BY <2>3, <1>5, <1>6, <1>7
    <3>2. g1[next] = h[next]
      BY <1>1, <1>5, <1>6 DEF g1
    <3> QED
      BY <3>1, <3>2
  <2> HIDE DEF p2, g2
  <2>7. p2.head = g2
    BY <2>5 DEF PoolType
  <2>8. p3 = [p EXCEPT !.head = g3]
    BY <2>5, <2>6, <2>7 DEF PoolType
  <2>9. g = g3
    BY DEF g1, g2
  <2> QED
    BY <2>1, <2>8, <2>9
<1> HIDE DEF second, third
<1>10. /\ g \in [Addresses -> Header]
       /\ g[new] = first /\ g[node] = second /\ g[next] = third
       /\ \A a \in Addresses \ {new, node, next} : g[a] = h[a]
  BY <1>1, <1>5, <1>6, <1>7
<1> HIDE DEF g
<1>11. /\ q \in PoolType /\ q.head = g /\ q.freeList = p.freeList /\ q.bitmap = p.bitmap
  BY <1>9, <1>10 DEF PoolType
<1>12. h[new] = Data
  BY <1>5, <1>6 DEF Chained, h
<1>13. \A a \in Addresses : g[a].used = h[a].used
  <2>1. h[new].used = FALSE
    BY <1>12 DEF Data
  <2> QED
    BY <2>1, <1>7, <1>10
<1>14. \A a \in Addresses \ {node, new} : g[a].size = h[a].size
  BY <1>7, <1>10
<1>15. \A a \in Addresses \ {new, next} : g[a].prev = h[a].prev
  BY <1>7, <1>10
<1>16. /\ g[new].size = first.size /\ g[new].prev = node /\ ~g[new].used
       /\ g[node].size = size /\ g[next].prev = new
  BY <1>7, <1>10
<1>17. /\ new + g[new].size = next /\ node + g[node].size = new
  BY <1>2, <1>4, <1>7, <1>16
<1>18. Chained(g, C \cup {new})
  <2> DEFINE D == C \cup {new}
  <2>1. D \in SUBSET Addresses /\ FIRST \in D /\ END \in D
    BY <1>1, <1>5 DEF Chained
  <2>2. \A a \in Addresses \ D : g[a] = Data
    <3>1. \A a \in Addresses \ D : h[a] = Data /\ a # node /\ a # next /\ a # new
      BY <1>2 DEF Chained, h
    <3> QED
      BY <3>1, <1>10
  <2>3. g[FIRST].prev = END /\ g[END].used /\ g[END].size = 0
    <3>1. h[FIRST].prev = END /\ h[END].used /\ h[END].size = 0 /\ FIRST \in C /\ END \in C
      BY DEF Chained, h
    <3>2. FIRST \in Addresses \ {new, next} /\ END \in Addresses \ {node, new}
      BY <3>1, <1>2, <1>6, Places2
    <3> QED
      BY <3>1, <3>2, <1>13, <1>14, <1>15
  <2>4. ASSUME NEW a \in D \ {END}
        PROVE  /\ g[a].size >= MIN_LEFT
               /\ a + g[a].size \in D
               /\ g[a + g[a].size].prev = a
               /\ \A b \in D : b <= a \/ a + g[a].size <= b
    <3>1. \A b \in D : b \in Nat
      BY <2>1, Places2
    <3>2. CASE a = new
      <4>1. ASSUME NEW b \in D PROVE b <= a \/ next <= b
        <5>1. b = new \/ b <= node \/ next <= b
          BY <1>3
        <5>2. b \in Nat /\ new \in Nat /\ node \in Nat /\ node < new /\ a = new
          BY <3>1, <3>2, <1>2, <1>4
        <5> HIDE DEF D
        <5> QED
          BY <5>1, <5>2
      <4>2. a + g[a].size = next /\ next \in D /\ g[next].prev = a
        BY <3>2, <1>2, <1>16, <1>17
      <4>3. g[a].size >= MIN_LEFT
        BY <3>2, <1>7, <1>16 DEF MIN_LEFT
      <4> QED
        BY <4>1, <4>2, <4>3
    <3>3. CASE a = node
      <4>1. \A b \in D : b <= a \/ new <= b
        BY <3>1, <3>3, <1>2, <1>3, <1>4
      <4>2. a + g[a].size = new /\ new \in D /\ g[new].prev = a
        BY <3>3, <1>16, <1>17
      <4>3. g[a].size >= MIN_LEFT
        BY <3>3, <1>3, <1>16 DEF MIN_LEFT
      <4> QED
        BY <4>1, <4>2, <4>3
    <3>4. CASE a # new /\ a # node
      <4>1. a \in C \ {END} /\ a \in Addresses \ {node, new} /\ a \in Nat
        BY <2>1, <3>1, <3>4
      <4>2. /\ h[a].size >= MIN_LEFT
            /\ a + h[a].size \in C
            /\ h[a + h[a].size].prev = a
            /\ \A b \in C : b <= a \/ a + h[a].size <= b
        BY <4>1 DEF Chained, h
      <4>3. g[a].size = h[a].size
        BY <4>1, <1>14
      <4>4. a + h[a].size # next /\ a + h[a].size # new
        BY <3>4, <4>2, <1>2, <1>6
      <4>5. g[a + h[a].size].prev = a
        BY <4>2, <4>4, <1>1, <1>15
      <4>6. new <= a \/ a + h[a].size <= new
        <5>1. PICK m \in Nat : m = a + h[a].size
          BY <4>2, <2>1, <3>1
        <5>2. node <= a \/ m <= node
          BY <4>2, <5>1
        <5>3. a <= node \/ next <= a
          BY <4>1, <1>3
        <5> QED
          BY <5>1, <5>2, <5>3, <3>4, <4>1, <1>2, <1>4
      <4> QED
        BY <4>2, <4>3, <4>5, <4>6
    <3> QED
      BY <3>2, <3>3, <3>4
  <2>5. ASSUME NEW a \in D \ {FIRST}
        PROVE  /\ g[a].prev \in D \ {END}
               /\ g[a].prev + g[g[a].prev].size = a
    <3>1. CASE a = next
      <4>1. new # END
        BY <1>6 DEF Chained
      <4> QED
        BY <3>1, <4>1, <1>16, <1>17
    <3>2. CASE a = new
      BY <3>2, <1>16, <1>17
    <3>3. CASE a # next /\ a # new
      <4>1. PICK r : r = h[a].prev
        OBVIOUS
      <4>2. r \in C \ {END} /\ r + h[r].size = a
        BY <3>3, <4>1 DEF Chained, h
      <4>3. r # node /\ r # new
        BY <3>3, <4>2, <1>4, <1>6
      <4>4. g[r].size = h[r].size /\ g[a].prev = r
        BY <3>3, <4>1, <4>2, <4>3, <1>1, <1>14, <1>15
      <4> QED
        BY <4>2, <4>3, <4>4
    <3> QED
      BY <3>1, <3>2, <3>3
  <2> QED
    BY <2>1, <2>2, <2>3, <2>4, <2>5 DEF Chained
<1> QED
  BY <1>4, <1>5, <1>6, <1>7, <1>11, <1>13, <1>14, <1>16, <1>17, <1>18 DEF q, h, next, CutOff

-----------------------------------------------------------------------------
(* The steps of the calls, on a pool that a call is working on *)

LEMMA OpenDelete ==
  ASSUME NEW p, NEW C, NEW X, Open(p, C, X), NEW node \in C \ X, ~p.head[node].used,
         NEW index, index = FreeListIndexGet(p.head[node].size)
  PROVE  /\ Open(ListDelete(p, index, node), C, X \cup {node})
         /\ ListDelete(p, index, node).head = p.head
<1> DEFINE F == {a \in C \ X : ~p.head[a].used}
           q == ListDelete(p, index, node)
<1>1. p \in PoolType /\ Chained(p.head, C) /\ Listed(p, F) /\ node \in F
  BY DEF Open
<1> HIDE DEF F
<1>2. q \in PoolType /\ q.head = p.head /\ Listed(q, F \ {node})
  BY <1>1, NodeDeleted
<1> HIDE DEF q
<1>3. F \ {node} = {a \in C \ (X \cup {node}) : ~q.head[a].used}
  BY <1>2 DEF F
<1>4. \A a \in C \ (X \cup {node} \cup {END}) :
        q.head[a].used \/ q.head[a + q.head[a].size].used
  BY <1>2 DEF Open
<1>5. Listed(q, {a \in C \ (X \cup {node}) : ~q.head[a].used})
  BY <1>2, <1>3
<1>6. Open(q, C, X \cup {node})
  BY <1>1, <1>2, <1>4, <1>5 DEF Open
<1> QED
  BY <1>2, <1>6 DEF q

LEMMA OpenAdd ==
  ASSUME NEW p, NEW C, NEW X, Open(p, C, X), NEW node \in (C \cap X) \ {END},
         ~p.head[node].used, p.head[NextNode(p, node)].used
  PROVE  /\ Open(FreeNodeAdd(p, node), C, X \ {node})
         /\ FreeNodeAdd(p, node).head = p.head
<1> DEFINE F == {a \in C \ X : ~p.head[a].used}
           q == FreeNodeAdd(p, node)
<1>1. p \in PoolType /\ Chained(p.head, C) /\ Listed(p, F) /\ node \notin F
  BY DEF Open
<1>2. p.head[node].size \in 1..POOL /\ node \in Addresses
  <2>1. p.head \in [Addresses -> Header] /\ C \in SUBSET Addresses
    BY <1>1 DEF PoolType, Chained
  <2> QED
    BY <1>1, <2>1, NodeFacts
<1> HIDE DEF F
<1>3. q \in PoolType /\ q.head = p.head /\ Listed(q, F \cup {node})
  BY <1>1, <1>2, NodeAdded
<1> HIDE DEF q
<1>4. F \cup {node} = {a \in C \ (X \ {node}) : ~q.head[a].used}
  BY <1>3 DEF F
<1>5. \A a \in C \ ((X \ {node}) \cup {END}) :
        q.head[a].used \/ q.head[a + q.head[a].size].used
  BY <1>3 DEF Open, NextNode
<1>6. Listed(q, {a \in C \ (X \ {node}) : ~q.head[a].used})
  BY <1>3, <1>4
<1>7. Open(q, C, X \ {node})
  BY <1>1, <1>3, <1>5, <1>6 DEF Open
<1> QED
  BY <1>3, <1>7 DEF q

\* A node that is used may be worked on and let go.
LEMMA OpenUsed ==
  ASSUME NEW p, NEW C, NEW X, Open(p, C, X), NEW node \in C, p.head[node].used
  PROVE  Open(p, C, X \cup {node}) /\ Open(p, C, X \ {node})
<1>1. /\ {a \in C \ (X \cup {node}) : ~p.head[a].used} = {a \in C \ X : ~p.head[a].used}
      /\ {a \in C \ (X \ {node}) : ~p.head[a].used} = {a \in C \ X : ~p.head[a].used}
  OBVIOUS
<1>2. \A a \in C \ (X \cup {END}) : p.head[a].used \/ p.head[a + p.head[a].size].used
  BY DEF Open
<1>3. /\ \A a \in C \ ((X \cup {node}) \cup {END}) :
           p.head[a].used \/ p.head[a + p.head[a].size].used
      /\ \A a \in C \ ((X \ {node}) \cup {END}) :
           p.head[a].used \/ p.head[a + p.head[a].size].used
  BY <1>2
<1>4. p \in PoolType /\ Chained(p.head, C) /\ Listed(p, {a \in C \ X : ~p.head[a].used})
  BY DEF Open
<1>5. /\ Listed(p, {a \in C \ (X \cup {node}) : ~p.head[a].used})
      /\ Listed(p, {a \in C \ (X \ {node}) : ~p.head[a].used})
  BY <1>1, <1>4
<1> QED
  BY <1>3, <1>4, <1>5 DEF Open

LEMMA OpenRecord ==
  ASSUME NEW p, NEW C, NEW X, Open(p, C, X), NEW n \in Int
  PROVE  Open(UsedRecord(p, n), C, X) /\ UsedRecord(p, n).head = p.head
<1> DEFINE q == UsedRecord(p, n)
           F == {a \in C \ X : ~p.head[a].used}
<1>1. p \in PoolType /\ Chained(p.head, C) /\ Listed(p, F)
  BY DEF Open
<1>2. (p.curUsedSize + n) % (2 * USED_FLAG) \in Int
  <2>1. p.curUsedSize + n \in Int /\ 2 * USED_FLAG \in Nat \ {0}
    BY <1>1, Parameters DEF PoolType
  <2> QED
    BY <2>1
<1>3. PICK m \in Int : q = [p EXCEPT !.curUsedSize = m]
  BY <1>2 DEF UsedRecord
<1> HIDE DEF q, F
<1>4. q \in PoolType /\ q.head = p.head /\ q.freeList = p.freeList /\ q.bitmap = p.bitmap
  BY <1>1, <1>3 DEF PoolType
<1>5. Listed(q, F)
  BY <1>1, <1>4, ListsStay
<1>6. F = {a \in C \ X : ~q.head[a].used}
  BY <1>4 DEF F
<1>7. \A a \in C \ (X \cup {END}) : q.head[a].used \/ q.head[a + q.head[a].size].used
  BY <1>4 DEF Open
<1>8. Open(q, C, X)
  BY <1>1, <1>4, <1>5, <1>6, <1>7 DEF Open
<1> QED
  BY <1>4, <1>8 DEF q

\* What the caller writes does not touch a header.
LEMMA NothingWritten ==
  ASSUME NEW p, NEW C, NEW X, Open(p, C, X), NEW node \in C \ {END}
  PROVE  Written(p, node) = p
<1> DEFINE h == p.head
           g == [a \in Addresses |->
                  IF a \in node + HEAD .. NextNode(p, node) - 1 THEN Data ELSE h[a]]
<1>1. p \in PoolType /\ Chained(h, C) /\ h \in [Addresses -> Header] /\ C \in SUBSET Addresses
  BY DEF Open, PoolType, Chained
<1> HIDE DEF h
<1>2. /\ h[node].size \in 1..POOL /\ node \in Nat
      /\ \A b \in C : b <= node \/ node + h[node].size <= b
  BY <1>1, NodeFacts DEF Chained
<1>3. PICK next \in Nat : next = node + h[node].size
  BY <1>2
<1>4. NextNode(p, node) = next
  BY <1>3 DEF NextNode, h
<1>5. ASSUME NEW a \in Addresses, a \in node + HEAD .. next - 1 PROVE h[a] = Data
  <2>1. a \in Nat /\ node + 2 <= a /\ a <= next - 1
    BY <1>2, <1>3, <1>5, Places2 DEF HEAD
  <2>2. a \notin C
    BY <2>1, <1>2, <1>3
  <2> QED
    BY <2>2, <1>1 DEF Chained
<1>6. g = h
  BY <1>1, <1>4, <1>5
<1>7. Written(p, node) = [p EXCEPT !.head = g]
  BY DEF Written, h
<1> HIDE DEF g
<1> QED
  BY <1>1, <1>6, <1>7 DEF PoolType, h

\* q is the pool p, in which the nodes of X are worked on, after node has become
\* part of the node before.
OpenMerged(p, q, C, X, node, before) ==
  /\ Open(q, C \ {node}, X \ {node})
  /\ before \in C \ {END, node} /\ before + p.head[before].size = node
  /\ q.head[before].size = p.head[before].size + p.head[node].size
  /\ NextNode(q, before) = NextNode(p, node)
  /\ NextNode(p, node) \in C \ {FIRST, before, node}
  /\ \A a \in Addresses : q.head[a].used = p.head[a].used
  /\ \A a \in Addresses \ {node, before} : q.head[a].size = p.head[a].size

LEMMA OpenMerge ==
  ASSUME NEW p, NEW C, NEW X, Open(p, C, X), NEW node \in (C \cap X) \ {FIRST, END},
         ~p.head[node].used, NEW before, before = p.head[node].prev, before \in X
  PROVE  OpenMerged(p, MergeNode(p, node), C, X, node, before)
<1> DEFINE F == {a \in C \ X : ~p.head[a].used}
           q == MergeNode(p, node)
           D == C \ {node}
           Y == X \ {node}
<1>1. p \in PoolType /\ Chained(p.head, C) /\ Listed(p, F)
  BY DEF Open
<1>2. C \in SUBSET Addresses /\ p.head \in [Addresses -> Header]
  BY <1>1 DEF Chained, PoolType
<1>3. /\ q \in PoolType /\ q.freeList = p.freeList /\ q.bitmap = p.bitmap
      /\ Chained(q.head, D)
      /\ before \in C \ {END, node} /\ before + p.head[before].size = node
      /\ q.head[before].size = p.head[before].size + p.head[node].size
      /\ before + q.head[before].size = node + p.head[node].size
      /\ \A a \in Addresses \ {node} : q.head[a].used = p.head[a].used
      /\ \A a \in Addresses \ {node, before} : q.head[a].size = p.head[a].size
      /\ q.head[node] = Data
  <2>1. node \in C \ {FIRST, END}
    OBVIOUS
  <2>2. Merged(p, q, C, node, before)
    BY <2>1, <1>1, NodeMerged, Zenon
  <2> HIDE DEF q
  <2> QED
    BY <2>2 DEF Merged
<1> HIDE DEF q
<1>4. q.head[node].used = p.head[node].used
  <2>1. p.head[node].used = FALSE
    BY <1>2 DEF Header
  <2>2. Data.used = FALSE
    BY DEF Data
  <2>3. q.head[node] = Data
    BY <1>3
  <2> QED
    BY <2>1, <2>2, <2>3
<1>5. \A a \in Addresses : q.head[a].used = p.head[a].used
  BY <1>3, <1>4
<1>6. F = {a \in D \ Y : ~q.head[a].used}
  BY <1>2, <1>5
<1>7. Listed(q, F)
  <2>1. \A a \in F : q.head[a].size = p.head[a].size
    BY <1>2, <1>3
  <2> HIDE DEF F
  <2> QED
    BY <2>1, <1>1, <1>3, ListsStay
<1>8. ASSUME NEW a \in D \ (Y \cup {END})
      PROVE  q.head[a].used \/ q.head[a + q.head[a].size].used
  <2>1. a \in C \ (X \cup {END}) /\ a # before /\ a # node /\ a \in Addresses
    BY <1>2
  <2>2. p.head[a].used \/ p.head[a + p.head[a].size].used
    BY <2>1 DEF Open
  <2>3. q.head[a].size = p.head[a].size
    BY <2>1, <1>3
  <2>4. a + p.head[a].size \in Addresses
    BY <2>1, <1>1, <1>2 DEF Chained
  <2> QED
    BY <2>1, <2>2, <2>3, <2>4, <1>5
<1>9. Open(q, D, Y)
  BY <1>3, <1>6, <1>7, <1>8 DEF Open
<1>10. node + p.head[node].size \in C \ {FIRST, before, node}
  <2>1. /\ node + p.head[node].size \in C \ {FIRST} /\ node < node + p.head[node].size
        /\ node \in Nat
    BY <1>1, <1>2, NodeFacts
  <2>2. before < node /\ before \in Nat
    <3>1. before < before + p.head[before].size /\ before \in Nat
      BY <1>1, <1>2, <1>3, NodeFacts
    <3> QED
      BY <3>1, <1>3
  <2>3. PICK next \in Nat : next = node + p.head[node].size
    BY <2>1, <1>2, Places2
  <2> QED
    BY <2>1, <2>2, <2>3
<1> QED
  BY <1>3, <1>5, <1>9, <1>10 DEF q, NextNode, OpenMerged

LEMMA OpenCut ==
  ASSUME NEW p, NEW C, NEW X, Open(p, C, X), NEW node \in (C \cap X) \ {END},
         X \in SUBSET C,
         NEW size \in Nat, size >= MIN_LEFT, size + MIN_LEFT <= p.head[node].size,
         NEW new, new = node + size
  PROVE  /\ Open(Cut(p, node, size), C \cup {new}, X \cup {new})
         /\ new \in Addresses \ C /\ new # node
         /\ Cut(p, node, size).head[node].size = size
         /\ NextNode(Cut(p, node, size), new) = NextNode(p, node)
         /\ NextNode(p, node) \in C \ {node, new}
         /\ ~Cut(p, node, size).head[new].used
         /\ \A a \in Addresses : Cut(p, node, size).head[a].used = p.head[a].used
         /\ \A a \in Addresses \ {node, new} : Cut(p, node, size).head[a].size = p.head[a].size
<1> DEFINE F == {a \in C \ X : ~p.head[a].used}
           q == Cut(p, node, size)
           D == C \cup {new}
           Y == X \cup {new}
<1>1. p \in PoolType /\ Chained(p.head, C) /\ Listed(p, F)
  BY DEF Open
<1>2. C \in SUBSET Addresses /\ p.head \in [Addresses -> Header]
  BY <1>1 DEF Chained, PoolType
<1>3. /\ q \in PoolType /\ q.freeList = p.freeList /\ q.bitmap = p.bitmap
      /\ Chained(q.head, D)
      /\ new \in Addresses \ C /\ new # node
      /\ q.head[node].size = size
      /\ new + q.head[new].size = node + p.head[node].size
      /\ ~q.head[new].used
      /\ \A a \in Addresses : q.head[a].used = p.head[a].used
      /\ \A a \in Addresses \ {node, new} : q.head[a].size = p.head[a].size
  <2>1. node \in C \ {END}
    OBVIOUS
  <2>2. CutOff(p, q, C, node, size, new)
    BY <2>1, <1>1, NodeCut, Zenon
  <2> HIDE DEF q
  <2> QED
    BY <2>2 DEF CutOff
<1> HIDE DEF q
<1>4. F = {a \in D \ Y : ~q.head[a].used}
  BY <1>2, <1>3
<1>5. Listed(q, F)
  <2>1. \A a \in F : q.head[a].size = p.head[a].size
    BY <1>2, <1>3
  <2> HIDE DEF F
  <2> QED
    BY <2>1, <1>1, <1>3, ListsStay
<1>6. ASSUME NEW a \in D \ (Y \cup {END})
      PROVE  q.head[a].used \/ q.head[a + q.head[a].size].used
  <2>1. a \in C \ (X \cup {END}) /\ a # node /\ a # new /\ a \in Addresses
    BY <1>2
  <2>2. p.head[a].used \/ p.head[a + p.head[a].size].used
    BY <2>1 DEF Open
  <2>3. q.head[a].size = p.head[a].size
    BY <2>1, <1>3
  <2>4. a + p.head[a].size \in Addresses
    BY <2>1, <1>1, <1>2 DEF Chained
  <2> QED
    BY <2>1, <2>2, <2>3, <2>4, <1>3
<1>7. Open(q, D, Y)
  BY <1>3, <1>4, <1>5, <1>6 DEF Open
<1>8. node + p.head[node].size \in C \ {node, new}
  <2>1. node + p.head[node].size \in C /\ node < node + p.head[node].size /\ node \in Nat
    BY <1>1, <1>2, NodeFacts
  <2>2. PICK next \in Nat : next = node + p.head[node].size
    BY <2>1, <1>2, Places2
  <2> QED
    BY <2>1, <2>2, <1>3
<1> QED
  BY <1>3, <1>7, <1>8 DEF q, NextNode

\* The used flag of a node that is being worked on is set or cleared.
Marked(p, node, used) == [p EXCEPT !.head[node].used = used]

\* q is the pool p with the mark set.
OpenMark(p, q, C, X, node, used) ==
  /\ Open(q, C, X)
  /\ q.head[node].used = used
  /\ \A a \in Addresses : q.head[a].size = p.head[a].size
  /\ \A a \in Addresses : q.head[a].prev = p.head[a].prev
  /\ \A a \in Addresses \ {node} : q.head[a].used = p.head[a].used

LEMMA OpenMarked ==
  ASSUME NEW p, NEW C, NEW X, Open(p, C, X), NEW node \in (C \cap X) \ {END},
         NEW used \in BOOLEAN,
         \/ used
         \/ node = FIRST
         \/ p.head[node].prev \in X
         \/ p.head[p.head[node].prev].used
  PROVE  OpenMark(p, Marked(p, node, used), C, X, node, used)
<1> DEFINE F == {a \in C \ X : ~p.head[a].used}
           h == p.head
           marked == [h[node] EXCEPT !.used = used]
           g == [h EXCEPT ![node] = marked]
           q == Marked(p, node, used)
<1>1. p \in PoolType /\ Chained(h, C) /\ Listed(p, F)
  BY DEF Open
<1>2. C \in SUBSET Addresses /\ h \in [Addresses -> Header]
  BY <1>1 DEF Chained, PoolType
<1>3. q = [p EXCEPT !.head = g]
  BY <1>1 DEF Marked, PoolType
<1>4. marked \in Header /\ marked.used = used /\ marked.size = h[node].size
      /\ marked.prev = h[node].prev
  BY <1>2 DEF Header
<1> HIDE DEF marked, q
<1>5. /\ g \in [Addresses -> Header] /\ g[node] = marked
      /\ \A a \in Addresses \ {node} : g[a] = h[a]
  BY <1>2, <1>4
<1> HIDE DEF g
<1>6. /\ q \in PoolType /\ q.head = g /\ q.freeList = p.freeList /\ q.bitmap = p.bitmap
  BY <1>1, <1>3, <1>5 DEF PoolType
<1>7. /\ g[node].used = used
      /\ \A a \in Addresses : g[a].size = h[a].size /\ g[a].prev = h[a].prev
      /\ \A a \in Addresses \ {node} : g[a].used = h[a].used
  BY <1>4, <1>5
<1> HIDE DEF h
<1>8. Chained(g, C)
  <2>1. \A a \in Addresses \ C : g[a] = Data
    BY <1>1, <1>5 DEF Chained
  <2>2. g[FIRST].prev = END /\ g[END].used /\ g[END].size = 0
    BY <1>1, <1>7, Places2 DEF Chained
  <2>3. ASSUME NEW a \in C \ {END}
        PROVE  /\ g[a].size >= MIN_LEFT
               /\ a + g[a].size \in C
               /\ g[a + g[a].size].prev = a
               /\ \A b \in C : b <= a \/ a + g[a].size <= b
    <3>1. /\ h[a].size >= MIN_LEFT
          /\ a + h[a].size \in C
          /\ h[a + h[a].size].prev = a
          /\ \A b \in C : b <= a \/ a + h[a].size <= b
      BY <1>1 DEF Chained
    <3>2. g[a].size = h[a].size
      BY <1>2, <1>7
    <3> QED
      BY <3>1, <3>2, <1>2, <1>7
  <2>4. ASSUME NEW a \in C \ {FIRST}
        PROVE  /\ g[a].prev \in C \ {END}
               /\ g[a].prev + g[g[a].prev].size = a
    <3>1. /\ h[a].prev \in C \ {END}
          /\ h[a].prev + h[h[a].prev].size = a
      BY <1>1 DEF Chained
    <3>2. g[a].prev = h[a].prev /\ g[h[a].prev].size = h[h[a].prev].size
      BY <3>1, <1>2, <1>7
    <3> QED
      BY <3>1, <3>2
  <2>5. FIRST \in C /\ END \in C
    BY <1>1 DEF Chained
  <2> QED
    BY <2>1, <2>2, <2>3, <2>4, <2>5, <1>2 DEF Chained
<1>9. F = {a \in C \ X : ~q.head[a].used}
  BY <1>2, <1>6, <1>7 DEF h
<1>10. Listed(q, F)
  <2>1. \A a \in F : q.head[a].size = p.head[a].size
    BY <1>2, <1>6, <1>7 DEF h
  <2> HIDE DEF F
  <2> QED
    BY <2>1, <1>1, <1>6, ListsStay
<1>11. ASSUME NEW a \in C \ (X \cup {END})
       PROVE  g[a].used \/ g[a + g[a].size].used
  <2>1. a # node /\ a \in Addresses /\ g[a].used = h[a].used /\ g[a].size = h[a].size
    BY <1>2, <1>7
  <2>2. h[a].used \/ h[a + h[a].size].used
    BY DEF Open, h
  <2>3. a + h[a].size \in C /\ h[a + h[a].size].prev = a /\ a + h[a].size # FIRST
    BY <1>1, <1>2, NodeFacts
  <2>4. CASE a + h[a].size # node
    BY <2>1, <2>2, <2>3, <2>4, <1>2, <1>7
  <2>5. CASE a + h[a].size = node
    <3>1. node # FIRST /\ h[node].prev = a
      BY <2>3, <2>5
    <3>2. used \/ h[a].used
      BY <3>1 DEF h
    <3> QED
      BY <3>2, <2>1, <2>5, <1>7
  <2> QED
    BY <2>4, <2>5
<1>12. Open(q, C, X)
  BY <1>6, <1>8, <1>9, <1>10, <1>11 DEF Open
<1> QED
  BY <1>6, <1>7, <1>12 DEF q, h, OpenMark

-----------------------------------------------------------------------------
(* Joining and splitting *)

\* The end of OsMemFree and of OsMemSplitNode: a free node behind becomes part of node.
JoinNext(p, node) ==
  LET next == NextNode(p, node) IN
  IF p.head[next].used THEN p ELSE MergeNode(FreeNodeDelete(p, next), next)

Joined(p, q, D, X, node) ==
  /\ Open(q, D, X) /\ X \in SUBSET D
  /\ q.head[NextNode(q, node)].used
  /\ \A a \in Addresses : q.head[a].used = p.head[a].used
  /\ \A a \in Addresses \ {node} : p.head[a].used \/ a \in X => q.head[a].size = p.head[a].size
  /\ q.head[node].size >= p.head[node].size
  /\ ~p.head[NextNode(p, node)].used =>
       q.head[node].size = p.head[node].size + p.head[NextNode(p, node)].size

LEMMA OpenJoin ==
  ASSUME NEW p, NEW C, NEW X \in SUBSET C, Open(p, C, X), NEW node \in X \ {END},
         NextNode(p, node) \notin X
  PROVE  \E D : Joined(p, JoinNext(p, node), D, X, node)
<1> DEFINE next == NextNode(p, node)
<1>1. /\ p \in PoolType /\ Chained(p.head, C) /\ C \in SUBSET Addresses
      /\ p.head \in [Addresses -> Header] /\ node \in C /\ node \in Addresses
  BY DEF Open, PoolType, Chained
<1>2. /\ next \in C \ {FIRST} /\ p.head[next].prev = node /\ p.head[node].size \in 1..POOL
      /\ next = node + p.head[node].size
  BY <1>1, NodeFacts DEF NextNode
<1>3. p.head[node].size \in Nat
  BY <1>2, Parameters
<1> HIDE DEF next
<1>4. CASE p.head[next].used
  <2>1. JoinNext(p, node) = p
    BY <1>4 DEF JoinNext, next
  <2>2. Joined(p, p, C, X, node)
    BY <1>3, <1>4 DEF Joined, next
  <2> QED
    BY <2>1, <2>2
<1>5. CASE ~p.head[next].used
  <2> DEFINE index == FreeListIndexGet(p.head[next].size)
             d == ListDelete(p, index, next)
             m == MergeNode(d, next)
             Y == X \cup {next}
  <2>1. JoinNext(p, node) = m
    BY <1>5 DEF JoinNext, FreeNodeDelete, next
  <2>2. next \in C \ X /\ next # END /\ next # node
    BY <1>1, <1>2, <1>5 DEF Chained, next
  <2>3. Open(d, C, Y) /\ d.head = p.head
    BY <2>2, <1>5, OpenDelete
  <2> HIDE DEF d
  <2>4. /\ next \in (C \cap Y) \ {FIRST, END} /\ ~d.head[next].used
        /\ node = d.head[next].prev /\ node \in Y
    BY <2>2, <2>3, <1>1, <1>2, <1>5
  <2>5. /\ Open(m, C \ {next}, Y \ {next})
        /\ m.head[node].size = d.head[node].size + d.head[next].size
        /\ NextNode(m, node) = NextNode(d, next)
        /\ NextNode(d, next) \in C
        /\ \A a \in Addresses : m.head[a].used = d.head[a].used
        /\ \A a \in Addresses \ {next, node} : m.head[a].size = d.head[a].size
    <3>1. OpenMerged(d, m, C, Y, next, node)
      BY <2>3, <2>4, OpenMerge, Zenon
    <3> HIDE DEF m
    <3> QED
      BY <3>1 DEF OpenMerged
  <2> HIDE DEF m
  <2>6. Y \ {next} = X /\ X \in SUBSET (C \ {next})
    BY <2>2
  <2>7. m.head[NextNode(m, node)].used
    <3>1. p.head[next + p.head[next].size].used
      BY <2>2, <1>5 DEF Open
    <3>2. NextNode(d, next) = next + p.head[next].size
      BY <2>3 DEF NextNode
    <3> QED
      BY <3>1, <3>2, <2>3, <2>5, <1>1
  <2>8. m.head[node].size = p.head[node].size + p.head[next].size
    BY <2>3, <2>5
  <2>9. p.head[next].size \in Nat
    BY <1>1, <1>2 DEF Header
  <2>10. m.head[node].size >= p.head[node].size
    BY <2>8, <2>9, <1>3
  <2>11. \A a \in Addresses \ {node} :
           p.head[a].used \/ a \in X => m.head[a].size = p.head[a].size
    BY <2>2, <2>3, <2>5, <1>5
  <2>12. \A a \in Addresses : m.head[a].used = p.head[a].used
    BY <2>3, <2>5
  <2>13. Open(m, C \ {next}, X)
    BY <2>5, <2>6
  <2>14. Joined(p, m, C \ {next}, X, node)
    BY <2>6, <2>7, <2>8, <2>10, <2>11, <2>12, <2>13 DEF Joined, next
  <2> QED
    BY <2>1, <2>14
<1> QED
  BY <1>4, <1>5

\* q is the pool p, in which node has been made smaller, not below size.
Shrunk(p, q, D, node, size) ==
  /\ Open(q, D, {node}) /\ node \in D \ {END}
  /\ Kept(p, q, node)
  /\ q.head[node].used = p.head[node].used
  /\ q.head[node].size >= size /\ q.head[node].size <= p.head[node].size

LEMMA SplitJoins ==
  ASSUME NEW p, NEW node, NEW size, NEW new, new = node + size,
         NEW cut, cut = Cut(p, node, size), NextNode(cut, new) = NextNode(p, node),
         cut.head[NextNode(p, node)].used = p.head[NextNode(p, node)].used
  PROVE  SplitNode(p, node, size) = FreeNodeAdd(JoinNext(cut, new), new)
<1>1. SplitNode(p, node, size) =
        FreeNodeAdd(IF p.head[NextNode(p, node)].used THEN Cut(p, node, size)
                    ELSE MergeNode(FreeNodeDelete(Cut(p, node, size), NextNode(p, node)),
                                   NextNode(p, node)),
                    node + size)
  BY Zenon DEF SplitNode, Cut
<1>2. JoinNext(cut, new) =
        IF p.head[NextNode(p, node)].used THEN cut
        ELSE MergeNode(FreeNodeDelete(cut, NextNode(p, node)), NextNode(p, node))
  BY Zenon DEF JoinNext
<1> QED
  BY <1>1, <1>2, Zenon

LEMMA OpenSplit ==
  ASSUME NEW p, NEW C, NEW node \in C \ {END}, Open(p, C, {node}),
         NEW size \in Nat, size >= MIN_LEFT, size <= p.head[node].size
  PROVE  \E D : Shrunk(p, SplitIfLarge(p, node, size), D, node, size)
<1>1. /\ p \in PoolType /\ Chained(p.head, C) /\ C \in SUBSET Addresses
      /\ p.head \in [Addresses -> Header] /\ node \in Addresses
  BY DEF Open, PoolType, Chained
<1>2. p.head[node].size \in Nat
  BY <1>1 DEF Header
<1>3. CASE ~(size + MIN_LEFT <= p.head[node].size)
  <2>1. SplitIfLarge(p, node, size) = p
    BY <1>3 DEF SplitIfLarge
  <2>2. Shrunk(p, p, C, node, size)
    BY <1>2 DEF Shrunk, Kept
  <2> QED
    BY <2>1, <2>2
<1>4. CASE size + MIN_LEFT <= p.head[node].size
  <2> DEFINE one == {node}
             cut == Cut(p, node, size)
             next == NextNode(p, node)
  <2>0. PICK new \in Nat : new = node + size
    BY <1>1, Places2
  <2> DEFINE both == one \cup {new}
  <2>1. node \in (C \cap one) \ {END} /\ one \in SUBSET C /\ Open(p, C, one)
    OBVIOUS
  <2> HIDE DEF one
  <2>2. /\ Open(cut, C \cup {new}, both)
        /\ new \in Addresses \ C /\ new # node
        /\ cut.head[node].size = size
        /\ NextNode(cut, new) = next
        /\ next \in C \ {node, new}
        /\ ~cut.head[new].used
        /\ \A a \in Addresses : cut.head[a].used = p.head[a].used
        /\ \A a \in Addresses \ {node, new} : cut.head[a].size = p.head[a].size
    BY <2>0, <2>1, <1>4, OpenCut
  <2>3. SplitIfLarge(p, node, size) = FreeNodeAdd(JoinNext(cut, new), new)
    <3>1. cut.head[next].used = p.head[next].used
      BY <2>2, <1>1
    <3>2. SplitNode(p, node, size) = FreeNodeAdd(JoinNext(cut, new), new)
      BY <2>0, <2>2, <3>1, SplitJoins
    <3> QED
      BY <3>2, <1>4 DEF SplitIfLarge
  <2> HIDE DEF cut, next
  <2>4. both \in SUBSET (C \cup {new}) /\ new \in both \ {END} /\ NextNode(cut, new) \notin both
    <3>1. END \in C
      BY <1>1 DEF Chained
    <3> QED
      BY <3>1, <2>2, <2>1 DEF one
  <2> HIDE DEF both
  <2>5. \E D : Joined(cut, JoinNext(cut, new), D, both, new)
    BY <2>2, <2>4, OpenJoin
  <2>6. PICK D, m : m = JoinNext(cut, new) /\ Joined(cut, m, D, both, new)
    BY <2>5
  <2>7. /\ Open(m, D, both) /\ both \in SUBSET D
        /\ m.head[NextNode(m, new)].used
        /\ \A a \in Addresses : m.head[a].used = cut.head[a].used
        /\ \A a \in Addresses \ {new} :
             cut.head[a].used \/ a \in both => m.head[a].size = cut.head[a].size
    BY <2>6 DEF Joined
  <2>8. new \in (D \cap both) \ {END} /\ ~m.head[new].used
    BY <2>2, <2>4, <2>7
  <2> DEFINE q == FreeNodeAdd(m, new)
  <2>9. Open(q, D, both \ {new}) /\ q.head = m.head
    BY <2>7, <2>8, OpenAdd
  <2> HIDE DEF q
  <2>10. both \ {new} = {node} /\ node \in both
    BY <2>2 DEF both, one
  <2>11. node \in D \ {END} /\ Open(q, D, {node})
    BY <2>7, <2>9, <2>10
  <2>12. m.head[node].size = size
    BY <2>2, <2>7, <2>10, <1>1
  <2>13. Kept(p, q, node)
    <3> SUFFICES ASSUME NEW a \in Addresses \ {node}
                 PROVE  /\ q.head[a].used <=> p.head[a].used
                        /\ p.head[a].used => q.head[a].size = p.head[a].size
      BY DEF Kept
    <3>1. q.head[a].used = p.head[a].used
      BY <2>2, <2>7, <2>9
    <3>2. ASSUME p.head[a].used PROVE q.head[a].size = p.head[a].size
      <4>1. a # new /\ cut.head[a].used
        BY <3>2, <2>2
      <4> QED
        BY <4>1, <2>2, <2>7, <2>9
    <3> QED
      BY <3>1, <3>2
  <2>14. q.head[node].used = p.head[node].used
    BY <2>2, <2>7, <2>9, <1>1
  <2>15. Shrunk(p, q, D, node, size)
    BY <2>9, <2>11, <2>12, <2>13, <2>14 DEF Shrunk
  <2>16. SplitIfLarge(p, node, size) = q
    BY <2>3, <2>6 DEF q
  <2> QED
    BY <2>15, <2>16
<1> QED
  BY <1>3, <1>4

-----------------------------------------------------------------------------
(* Allocating and freeing *)

\* q is the pool p after node has been handed out, for size words and its header.
Allocated(p, q, D, node, size) ==
  /\ Open(q, D, {}) /\ node \in D \ {END}
  /\ Kept(p, q, node)
  /\ q.head[node].used /\ q.head[node].size >= size + HEAD

\* A node that is free in the pool p, with its list, and large enough.
Fits(p, C, found, size) ==
  /\ found.node \in C \ {END} /\ ~p.head[found.node].used
  /\ found.index = FreeListIndexGet(p.head[found.node].size)
  /\ p.head[found.node].size >= size

LEMMA OpenAlloc ==
  ASSUME NEW p, NEW C, Open(p, C, {}), NEW found, NEW size \in Nat, size >= MIN_ALLOC,
         Fits(p, C, found, size + HEAD)
  PROVE  \E D : Allocated(p, MemAlloc(p, found, size), D, found.node, size)
<1> DEFINE node == found.node
           index == found.index
           taken == ListDelete(p, index, node)
           none == {}
           one == {node}
           want == size + HEAD
<1>1. /\ node \in C \ none /\ node # END /\ ~p.head[node].used
      /\ index = FreeListIndexGet(p.head[node].size) /\ Open(p, C, none)
      /\ p.head[node].size >= want
  BY DEF Fits
<1>2. want \in Nat /\ want >= MIN_LEFT
  BY DEF HEAD, MIN_ALLOC, MIN_LEFT
<1>3. node \in Addresses /\ C \in SUBSET Addresses
  BY <1>1 DEF Open, Chained
<1>4. none \cup {node} = one
  OBVIOUS
<1> HIDE DEF node, index, none
<1>5. Open(taken, C, one) /\ taken.head = p.head
  BY <1>1, <1>4, OpenDelete
<1> HIDE DEF taken, want
<1> DEFINE s == SplitIfLarge(taken, node, want)
<1>6. \E D : Shrunk(taken, s, D, node, want)
  <2>1. want <= taken.head[node].size
    <3>1. p \in PoolType
      BY DEF Open
    <3>2. p.head[node].size \in Nat
      BY <3>1, <1>3 DEF PoolType, Header
    <3> QED
      BY <3>2, <1>1, <1>2, <1>5
  <2> QED
    BY <2>1, <1>1, <1>2, <1>5, OpenSplit
<1>7. PICK D : Shrunk(taken, s, D, node, want)
  BY <1>6
<1> HIDE DEF s
<1>8. /\ Open(s, D, one) /\ node \in D \ {END} /\ Kept(p, s, node) /\ s.head[node].size >= want
  BY <1>5, <1>7 DEF Shrunk, Kept
<1> DEFINE cut == SetUsed(s, node)
<1>9. /\ Open(cut, D, one) /\ cut.head[node].used
      /\ \A a \in Addresses : cut.head[a].size = s.head[a].size
      /\ \A a \in Addresses \ {node} : cut.head[a].used = s.head[a].used
  <2>1. cut = Marked(s, node, TRUE)
    BY DEF SetUsed, Marked
  <2>2. node \in (D \cap one) \ {END}
    BY <1>8
  <2> HIDE DEF cut, one
  <2>3. TRUE \in BOOLEAN
    OBVIOUS
  <2>4. OpenMark(s, cut, D, one, node, TRUE)
    BY <2>1, <2>2, <2>3, <1>8, OpenMarked
  <2> QED
    BY <2>4 DEF OpenMark
<1> HIDE DEF cut
<1>10. Open(cut, D, one \ {node})
  BY <1>8, <1>9, OpenUsed
<1>11. one \ {node} = {}
  OBVIOUS
<1>12. Open(cut, D, {})
  BY <1>10, <1>11
<1>13. cut.head[node].size \in Int
  BY <1>3, <1>12 DEF Open, PoolType, Header
<1> DEFINE r == UsedRecord(cut, cut.head[node].size)
<1>14. Open(r, D, {}) /\ r.head = cut.head
  BY <1>12, <1>13, OpenRecord
<1>15. MemAlloc(p, found, size) = Written(r, node)
  BY Zenon DEF MemAlloc, taken, s, cut, node, index, want
<1> HIDE DEF r
<1>16. Written(r, node) = r
  BY <1>8, <1>14, NothingWritten
<1>17. Kept(p, r, node)
  BY <1>8, <1>9, <1>14 DEF Kept
<1>18. r.head[node].used /\ r.head[node].size >= want
  BY <1>3, <1>8, <1>9, <1>14
<1>19. Allocated(p, r, D, node, size)
  BY <1>8, <1>14, <1>17, <1>18 DEF Allocated, want
<1> QED
  BY <1>15, <1>16, <1>19 DEF node

\* A free node that is in no list is joined with a free one behind it and put into its list.
Released(p, q, D) ==
  /\ Open(q, D, {})
  /\ \A a \in Addresses : q.head[a].used = p.head[a].used
  /\ \A a \in Addresses : p.head[a].used => q.head[a].size = p.head[a].size

LEMMA OpenRelease ==
  ASSUME NEW p, NEW C, NEW node \in C \ {END}, Open(p, C, {node}), ~p.head[node].used
  PROVE  \E D : Released(p, FreeNodeAdd(JoinNext(p, node), node), D)
<1> DEFINE one == {node}
           q == JoinNext(p, node)
           r == FreeNodeAdd(q, node)
<1>1. Open(p, C, one) /\ one \in SUBSET C /\ node \in one \ {END}
  OBVIOUS
<1>2. NextNode(p, node) \notin one /\ node \in Addresses
  <2>1. p.head \in [Addresses -> Header] /\ Chained(p.head, C) /\ C \in SUBSET Addresses
    BY DEF Open, PoolType, Chained
  <2>2. node < node + p.head[node].size /\ node \in Nat
    BY <2>1, NodeFacts
  <2>3. NextNode(p, node) # node
    BY <2>2 DEF NextNode
  <2> QED
    BY <2>1, <2>3
<1> HIDE DEF one
<1>3. \E D : Joined(p, q, D, one, node)
  BY <1>1, <1>2, OpenJoin
<1>4. PICK D : Joined(p, q, D, one, node)
  BY <1>3
<1> HIDE DEF q
<1>5. /\ Open(q, D, one) /\ one \in SUBSET D
      /\ q.head[NextNode(q, node)].used
      /\ \A a \in Addresses : q.head[a].used = p.head[a].used
      /\ \A a \in Addresses \ {node} : p.head[a].used => q.head[a].size = p.head[a].size
  BY <1>4 DEF Joined
<1>6. node \in (D \cap one) \ {END} /\ ~q.head[node].used
  BY <1>1, <1>2, <1>5
<1>7. Open(r, D, one \ {node}) /\ r.head = q.head
  BY <1>5, <1>6, OpenAdd
<1>8. one \ {node} = {}
  BY DEF one
<1>9. Open(r, D, {})
  BY <1>7, <1>8
<1>10. Released(p, r, D)
  BY <1>5, <1>7, <1>9 DEF Released
<1> QED
  BY <1>10 DEF q

LEMMA MarkedIs ==
  ASSUME NEW p \in PoolType, NEW node \in Addresses, NEW used \in BOOLEAN
  PROVE  /\ Marked(p, node, used) \in PoolType
         /\ Marked(p, node, used) = [p EXCEPT !.head = [p.head EXCEPT ![node].used = used]]
         /\ \A a \in Addresses \ {node} : Marked(p, node, used).head[a] = p.head[a]
<1> DEFINE marked == [p.head[node] EXCEPT !.used = used]
           g == [p.head EXCEPT ![node] = marked]
           q == Marked(p, node, used)
<1>1. p.head \in [Addresses -> Header]
  BY DEF PoolType
<1>2. marked \in Header
  BY <1>1 DEF Header
<1>3. q = [p EXCEPT !.head = g] /\ g = [p.head EXCEPT ![node].used = used]
  BY DEF Marked, PoolType
<1> HIDE DEF marked, q
<1>4. g \in [Addresses -> Header] /\ \A a \in Addresses \ {node} : g[a] = p.head[a]
  BY <1>1, <1>2
<1> HIDE DEF g
<1>5. q \in PoolType /\ q.head = g
  BY <1>3, <1>4 DEF PoolType
<1> QED
  BY <1>3, <1>4, <1>5 DEF q

\* The lists do not have the used flags.
LEMMA DeleteMarked ==
  ASSUME NEW p \in PoolType, NEW node \in Addresses, NEW used \in BOOLEAN,
         NEW index \in Lists, NEW other
  PROVE  ListDelete(Marked(p, node, used), index, other)
           = Marked(ListDelete(p, index, other), node, used)
<1> DEFINE rest == Leave(p.freeList[index], {other})
           lists == [p.freeList EXCEPT ![index] = rest]
           bits == IF rest = << >> THEN p.bitmap \ {index} ELSE p.bitmap
           heads == [p.head EXCEPT ![node].used = used]
           m == Marked(p, node, used)
           d == ListDelete(p, index, other)
<1>1. m = [p EXCEPT !.head = heads] /\ m \in PoolType
  BY MarkedIs
<1>2. d = [p EXCEPT !.freeList = lists, !.bitmap = bits]
  BY DEF ListDelete, PoolType
<1> HIDE DEF m, heads
<1>3. m.freeList = p.freeList /\ m.bitmap = p.bitmap
  BY <1>1 DEF PoolType
<1>4. ListDelete(m, index, other) = [m EXCEPT !.freeList = lists, !.bitmap = bits]
  BY <1>1, <1>3 DEF ListDelete, PoolType
<1> HIDE DEF d, lists, bits
<1>5. d.head = p.head
  BY <1>2 DEF PoolType
<1>6. Marked(d, node, used) = [d EXCEPT !.head = heads]
  BY <1>2, <1>5 DEF Marked, PoolType, heads
<1>7. [m EXCEPT !.freeList = lists, !.bitmap = bits] = [d EXCEPT !.head = heads]
  BY <1>1, <1>2 DEF PoolType
<1> QED
  BY <1>4, <1>6, <1>7 DEF m, d

\* q is the pool p after node has been freed.
Freed(p, q, D, node) ==
  /\ Open(q, D, {}) /\ Kept(p, q, node) /\ ~q.head[node].used

LEMMA OpenFree ==
  ASSUME NEW p, NEW C, Open(p, C, {}), NEW node \in C \ {END}, p.head[node].used
  PROVE  \E D : Freed(p, MemFree(p, node), D, node)
<1> DEFINE before == p.head[node].prev
           u == UsedRecord(p, 2 * USED_FLAG - p.head[node].size)
           clear == Marked(u, node, FALSE)
           none == {}
           one == none \cup {node}
           both == one \cup {before}
           index == FreeListIndexGet(clear.head[before].size)
           c2 == ListDelete(clear, index, before)
           back == ~clear.head[before].used
           joined == IF back THEN MergeNode(c2, node) ELSE clear
           whole == IF back THEN before ELSE node
<1>1. /\ p \in PoolType /\ Chained(p.head, C) /\ C \in SUBSET Addresses
      /\ p.head \in [Addresses -> Header] /\ node \in Addresses
  BY DEF Open, PoolType, Chained
<1>2. MemFree(p, node) = FreeNodeAdd(JoinNext(joined, whole), whole)
  BY Zenon DEF MemFree, JoinNext, Marked, FreeNodeDelete
<1>3. 2 * USED_FLAG - p.head[node].size \in Int
  BY <1>1, Parameters DEF Header
<1>4. Open(p, C, none)
  OBVIOUS
<1> HIDE DEF none
<1>5. Open(u, C, none) /\ u.head = p.head
  BY <1>3, <1>4, OpenRecord
<1> HIDE DEF u
<1>6. Open(u, C, one)
  BY <1>1, <1>5, OpenUsed
<1>7. node \in (C \cap one) \ {END} /\ FALSE \in BOOLEAN
  OBVIOUS
<1>8. before # node /\ before \in Addresses
  <2>1. CASE node = FIRST
    BY <2>1, <1>1, Places2 DEF Chained
  <2>2. CASE node # FIRST
    <3>1. before \in C \ {END} /\ before + p.head[before].size = node
      BY <2>2, <1>1 DEF Chained
    <3>2. before < before + p.head[before].size /\ before \in Nat
      BY <3>1, <1>1, NodeFacts
    <3> QED
      BY <3>1, <3>2, <1>1
  <2> QED
    BY <2>1, <2>2
<1>9. before = u.head[node].prev /\ u \in PoolType
  BY <1>5 DEF Open
<1>10. node # FIRST => before \in C \ {END} /\ before + p.head[before].size = node
  BY <1>1 DEF Chained
<1>11. node = FIRST => p.head[before].used
  BY <1>1 DEF Chained
<1> HIDE DEF before, one
<1>12. clear.head[before].used = p.head[before].used
  <2>1. clear.head[before] = u.head[before]
    <3>1. before \in Addresses \ {node} /\ node \in Addresses /\ FALSE \in BOOLEAN
      BY <1>1, <1>8
    <3> QED
      BY <3>1, <1>9, MarkedIs, Zenon
  <2> QED
    BY <2>1, <1>5
<1>13. ASSUME p.head[before].used PROVE OpenMark(u, clear, C, one, node, FALSE)
  <2>1. u.head[u.head[node].prev].used
    BY <1>5, <1>9, <1>13
  <2> QED
    BY <2>1, <1>6, <1>7, OpenMarked, Zenon
<1> HIDE DEF index
<1>14. CASE p.head[before].used
  <2>1. /\ Open(clear, C, {node}) /\ ~clear.head[node].used
        /\ \A a \in Addresses : clear.head[a].size = p.head[a].size
        /\ \A a \in Addresses \ {node} : clear.head[a].used = p.head[a].used
    BY <1>5, <1>13, <1>14 DEF OpenMark, one, none
  <2>2. joined = clear /\ whole = node
    BY <1>12, <1>14
  <2> HIDE DEF clear, joined, whole
  <2>3. \E D : Released(clear, FreeNodeAdd(JoinNext(clear, node), node), D)
    BY <2>1, OpenRelease
  <2>4. PICK D, q : q = FreeNodeAdd(JoinNext(clear, node), node) /\ Released(clear, q, D)
    BY <2>3
  <2>5. Freed(p, q, D, node)
    BY <2>1, <2>4, <1>1 DEF Released, Freed, Kept
  <2> QED
    BY <1>2, <2>2, <2>4, <2>5
<1>15. CASE ~p.head[before].used
  <2> DEFINE d == ListDelete(u, index, before)
             m == MergeNode(c2, node)
  <2>1. before \in C \ {END} /\ node # FIRST
    BY <1>10, <1>11, <1>15
  <2>2. index = FreeListIndexGet(u.head[before].size) /\ index \in Lists
    <3>1. clear.head[before] = u.head[before]
      <4>1. before \in Addresses \ {node} /\ node \in Addresses /\ FALSE \in BOOLEAN
        BY <1>1, <1>8
      <4> QED
        BY <4>1, <1>9, MarkedIs, Zenon
    <3>2. u.head[before].size \in 1..POOL
      BY <2>1, <1>1, <1>5, NodeFacts
    <3> QED
      BY <3>1, <3>2, SizeHasList DEF index
  <2>3. c2 = Marked(d, node, FALSE)
    <3>1. node \in Addresses /\ index \in Lists /\ u \in PoolType /\ FALSE \in BOOLEAN
      BY <2>2, <1>1, <1>9
    <3>2. ListDelete(Marked(u, node, FALSE), index, before) = Marked(d, node, FALSE)
      BY <3>1, DeleteMarked
    <3> QED
      BY <3>2
  <2>4. Open(d, C, both) /\ d.head = u.head
    <3>1. before \in C \ one /\ ~u.head[before].used
      BY <2>1, <1>5, <1>8, <1>15 DEF one, none
    <3> QED
      BY <3>1, <2>2, <1>6, OpenDelete
  <2> HIDE DEF d, c2
  <2>5. OpenMark(d, c2, C, both, node, FALSE)
    <3>1. node \in (C \cap both) \ {END} /\ d.head[node].prev \in both /\ FALSE \in BOOLEAN
      BY <2>4, <1>7, <1>9
    <3> HIDE DEF both
    <3> QED
      BY <2>3, <2>4, <3>1, OpenMarked, Zenon
  <2>6. /\ Open(c2, C, both) /\ ~c2.head[node].used /\ before = c2.head[node].prev
        /\ \A a \in Addresses : c2.head[a].size = p.head[a].size
        /\ \A a \in Addresses \ {node} : c2.head[a].used = p.head[a].used
    BY <2>4, <2>5, <1>1, <1>5, <1>9 DEF OpenMark
  <2>7. OpenMerged(c2, m, C, both, node, before)
    <3>1. node \in (C \cap both) \ {FIRST, END} /\ before \in both
      BY <2>1, <1>7
    <3> HIDE DEF both
    <3> QED
      BY <2>6, <3>1, OpenMerge, Zenon
  <2> HIDE DEF m
  <2>8. /\ Open(m, C \ {node}, both \ {node}) /\ before \in (C \ {node}) \ {END}
        /\ \A a \in Addresses : m.head[a].used = c2.head[a].used
        /\ \A a \in Addresses \ {node, before} : m.head[a].size = c2.head[a].size
    BY <2>7 DEF OpenMerged
  <2>9. both \ {node} = {before}
    BY <1>8 DEF one, none
  <2>10. Open(m, C \ {node}, {before}) /\ ~m.head[before].used
    BY <2>6, <2>8, <2>9, <1>8, <1>15
  <2>11. \E D : Released(m, FreeNodeAdd(JoinNext(m, before), before), D)
    BY <2>8, <2>10, OpenRelease
  <2>12. PICK D, q : q = FreeNodeAdd(JoinNext(m, before), before) /\ Released(m, q, D)
    BY <2>11
  <2>13. Freed(p, q, D, node)
    <3>1. Open(q, D, {}) /\ ~q.head[node].used
      BY <2>6, <2>8, <2>12, <1>1 DEF Released
    <3>2. ASSUME NEW a \in Addresses \ {node}
          PROVE  /\ q.head[a].used <=> p.head[a].used
                 /\ p.head[a].used => q.head[a].size = p.head[a].size
      <4>1. q.head[a].used = m.head[a].used /\ m.head[a].used = p.head[a].used
        BY <2>6, <2>8, <2>12 DEF Released
      <4>2. ASSUME p.head[a].used PROVE q.head[a].size = p.head[a].size
        <5>1. a # before
          BY <4>2, <1>15
        <5> QED
          BY <4>1, <4>2, <5>1, <2>6, <2>8, <2>12 DEF Released
      <4> QED
        BY <4>1, <4>2
    <3> QED
      BY <3>1, <3>2 DEF Freed, Kept
  <2>14. joined = m /\ whole = before
    BY <1>12, <1>15 DEF m
  <2> QED
    BY <1>2, <2>12, <2>13, <2>14
<1> QED
  BY <1>14, <1>15

-----------------------------------------------------------------------------
(* Searching *)

LEMMA FirstMember ==
  ASSUME NEW T, NEW s \in Seq(T), s # << >>
  PROVE  Head(s) \in ToSet(s)
<1>1. Head(s) = s[1] /\ 1 \in DOMAIN s
  OBVIOUS
<1> QED
  BY <1>1 DEF ToSet

LEMMA ListNumbers == Lists \in SUBSET Nat
<1>1. SMALL \in Nat
  <2>1. LARGE \in 0..N
    BY Parameters
  <2>2. Shift(LARGE) \in Nat \ {0}
    BY <2>1, ShiftIs
  <2> QED
    BY <2>2 DEF SMALL
<1>2. LEVELS * Span \in Nat
  BY Parameters
<1>3. PICK x \in Int : x = SMALL + LEVELS * Span - 1
  BY <1>1, <1>2
<1>4. Lists = 0..x
  BY <1>3 DEF Lists, Span
<1> QED
  BY <1>4

\* The search by words finds a list that is not empty, and misses none.
LEMMA NotEmptyIs ==
  ASSUME NEW p, p.bitmap \in SUBSET Lists, NEW index \in Nat
  PROVE  /\ \A i \in NotEmptyFrom(p, index) : i \in p.bitmap /\ i >= index
         /\ \A i \in p.bitmap : i >= index => NotEmptyFrom(p, index) # {}
<1> DEFINE here == {i \in p.bitmap : i >= index /\ i \div WORD = index \div WORD}
           next == {i \in p.bitmap : i \div WORD > index \div WORD}
<1>1. WORD \in Nat \ {0} /\ p.bitmap \in SUBSET Nat
  BY ListNumbers, Parameters
<1>2. \A i \in p.bitmap : i \div WORD \in Nat
  BY <1>1
<1>3. index \div WORD \in Nat
  BY <1>1
<1>4. ASSUME NEW i \in p.bitmap, i >= index PROVE i \in here \cup next
  <2>1. index \div WORD <= i \div WORD
    BY <1>1, <1>4, QuotientGrows
  <2> QED
    BY <2>1, <1>2, <1>3, <1>4
<1>5. ASSUME NEW i \in next PROVE i \in p.bitmap /\ i >= index
  <2>1. CASE i <= index
    <3>1. i \div WORD <= index \div WORD
      BY <2>1, <1>1, QuotientGrows
    <3> QED
      BY <3>1, <1>2, <1>3
  <2> QED
    BY <2>1, <1>1
<1>6. here \in SUBSET Nat /\ next \in SUBSET Nat
  BY <1>1
<1>7. NotEmptyFrom(p, index) = IF here # {} THEN {Min(here)}
                               ELSE IF next # {} THEN {Min(next)} ELSE {}
  BY DEF NotEmptyFrom
<1>8. \A i \in here : i \in p.bitmap /\ i >= index
  OBVIOUS
<1> HIDE DEF here, next
<1>9. here # {} => Min(here) \in here
  BY <1>6, LeastNatural
<1>10. next # {} => Min(next) \in next
  BY <1>6, LeastNatural
<1>11. ASSUME NEW i \in NotEmptyFrom(p, index) PROVE i \in here \cup next
  BY <1>7, <1>9, <1>10, <1>11
<1>12. here \cup next # {} => NotEmptyFrom(p, index) # {}
  BY <1>7
<1> QED
  BY <1>4, <1>5, <1>8, <1>11, <1>12

\* What is found is a free node that is large enough, and one is found if there is one.
LEMMA SearchIs ==
  ASSUME NEW p, NEW C, Open(p, C, {}), NEW size \in 1..(USED_FLAG - 1)
  PROVE  /\ \A found \in FindSuitable(p, size) : Fits(p, C, found, size)
         /\ (\E a \in C : ~p.head[a].used /\ p.head[a].size >= size)
              => FindSuitable(p, size) # {}
<1> DEFINE F == {a \in C \ {} : ~p.head[a].used}
           own == FreeListIndexGet(size)
           from == IF size <= SMALL THEN own ELSE own + 1
           above == NotEmptyFrom(p, from)
           large == {n \in Addresses : p.head[n].size >= size}
           fits == Only(p.freeList[own], large)
           top(i) == [index |-> i, node |-> Head(p.freeList[i])]
           last == [index |-> own, node |-> Head(fits)]
<1>1. /\ p \in PoolType /\ Listed(p, F) /\ C \in SUBSET Addresses /\ END \notin F
  BY DEF Open, Chained
<1>2. /\ own \in Lists /\ own \in Nat /\ size \in Nat \ {0} /\ SMALL \in Int
      /\ size <= SMALL => own = size - 1
  <2>1. LARGE \in 0..N /\ USED_FLAG \in Nat
    BY Parameters
  <2>2. Shift(LARGE) \in Nat
    BY <2>1, ShiftIs
  <2>3. own \in Lists /\ (size <= SMALL => own = size - 1)
    BY IndexIs
  <2> HIDE DEF own
  <2>4. own \in Nat
    BY <2>3, ListNumbers
  <2>5. SMALL \in Int
    BY <2>2 DEF SMALL
  <2>6. size \in Nat \ {0}
    BY <2>1
  <2> QED
    BY <2>3, <2>4, <2>5, <2>6
<1>3. p.bitmap \in SUBSET Lists /\ \A i \in Lists : p.freeList[i] \in Seq(Addresses)
  BY <1>1 DEF PoolType
<1>4. /\ \A a \in F : p.head[a].size \in 1..POOL
      /\ \A i \in Lists : /\ ToSet(p.freeList[i]) = {a \in F : FreeListIndexGet(p.head[a].size) = i}
                          /\ i \in p.bitmap <=> p.freeList[i] # << >>
  BY <1>1 DEF Listed
<1>5. FindSuitable(p, size) = IF above # {} THEN {top(i) : i \in above}
                              ELSE IF size > SMALL /\ fits # << >> THEN {last} ELSE {}
  BY DEF FindSuitable
<1>6. F \in SUBSET C /\ \A a \in C : ~p.head[a].used => a \in F
  OBVIOUS
<1>7. \A a \in F : ~p.head[a].used
  OBVIOUS
<1> HIDE DEF F, own
<1>8. from \in Nat
  BY <1>2
<1>9. /\ \A i \in above : i \in p.bitmap /\ i >= from
      /\ \A i \in p.bitmap : i >= from => above # {}
  BY <1>3, <1>8, NotEmptyIs
<1> HIDE DEF above
<1>10. fits \in Seq(Addresses) /\ ToSet(fits) = ToSet(p.freeList[own]) \cap large
  BY <1>2, <1>3, OnlyMembers
<1> HIDE DEF fits
\* The nodes in the lists from there on are large enough.
<1>11. ASSUME NEW a \in F, FreeListIndexGet(p.head[a].size) >= from
       PROVE  p.head[a].size >= size
  <2>1. p.head[a].size \in 1..POOL /\ p.head[a].size \in 1..(USED_FLAG - 1)
    BY <1>4, SizeHasList
  <2>2. PICK s \in Nat : s = p.head[a].size /\ s \in 1..(USED_FLAG - 1)
    BY <2>1
  <2>3. s <= SMALL => FreeListIndexGet(s) = s - 1
    BY <2>2, IndexIs
  <2>4. FreeListIndexGet(s) \in Nat
    BY <2>2, IndexIs, ListNumbers
  <2> SUFFICES ASSUME s < size PROVE FALSE
    BY <2>2, <1>2
  <2>5. FreeListIndexGet(s) <= own
    BY <2>2, <1>2, IndexMonotone DEF own
  <2> QED
    BY <2>2, <2>3, <2>4, <2>5, <1>2, <1>11
<1>12. ASSUME NEW i \in above PROVE Fits(p, C, top(i), size)
  <2>1. i \in Lists /\ i >= from /\ p.freeList[i] # << >>
    BY <1>3, <1>4, <1>9
  <2>2. PICK a : a = Head(p.freeList[i]) /\ a \in ToSet(p.freeList[i])
    BY <2>1, <1>3, FirstMember
  <2>3. a \in F /\ FreeListIndexGet(p.head[a].size) = i
    BY <2>1, <2>2, <1>4
  <2>4. p.head[a].size >= size
    BY <2>1, <2>3, <1>11
  <2>5. a \in C \ {END} /\ ~p.head[a].used
    BY <2>3, <1>1, <1>6, <1>7
  <2>6. top(i).node = a /\ top(i).index = i
    BY <2>2
  <2> QED
    BY <2>3, <2>4, <2>5, <2>6 DEF Fits
<1>13. ASSUME fits # << >> PROVE Fits(p, C, last, size)
  <2>1. PICK a : a = Head(fits) /\ a \in ToSet(fits)
    BY <1>10, <1>13, FirstMember
  <2>2. a \in F /\ FreeListIndexGet(p.head[a].size) = own /\ p.head[a].size >= size
    BY <2>1, <1>2, <1>4, <1>10
  <2>3. a \in C \ {END} /\ ~p.head[a].used
    BY <2>2, <1>1, <1>6, <1>7
  <2>4. last.node = a /\ last.index = own
    BY <2>1
  <2> QED
    BY <2>2, <2>3, <2>4 DEF Fits
<1>14. ASSUME NEW a \in C, ~p.head[a].used, p.head[a].size >= size
       PROVE  above # {} \/ (size > SMALL /\ fits # << >>)
  <2>1. a \in F
    BY <1>6, <1>14
  <2>2. p.head[a].size \in 1..POOL /\ p.head[a].size \in 1..(USED_FLAG - 1)
    BY <2>1, <1>4, SizeHasList
  <2>3. PICK s \in Nat : s = p.head[a].size /\ s \in 1..(USED_FLAG - 1)
    BY <2>2
  <2>4. FreeListIndexGet(s) \in Lists /\ FreeListIndexGet(s) \in Nat
    BY <2>3, IndexIs, ListNumbers
  <2>5. own <= FreeListIndexGet(s)
    BY <2>3, <1>14, IndexMonotone DEF own
  <2>6. PICK j \in Lists : j = FreeListIndexGet(s) /\ a \in ToSet(p.freeList[j])
    BY <2>1, <2>3, <2>4, <1>4
  <2>7. p.freeList[j] # << >> /\ j \in p.bitmap
    BY <2>6, <1>3, <1>4, EmptyMembers
  <2>8. CASE j >= from
    BY <2>7, <2>8, <1>9
  <2>9. CASE ~(j >= from)
    <3>1. size > SMALL /\ j = own
      BY <2>4, <2>5, <2>6, <2>9, <1>2
    <3>2. a \in ToSet(fits)
      BY <2>6, <3>1, <1>1, <1>10, <1>14
    <3>3. fits # << >>
      BY <3>2, <1>10, EmptyMembers
    <3> QED
      BY <3>1, <3>3
  <2> QED
    BY <2>8, <2>9
<1>15. \A found \in FindSuitable(p, size) : Fits(p, C, found, size)
  BY <1>5, <1>12, <1>13
<1>16. \A i \in above : FindSuitable(p, size) # {}
  BY <1>5
<1> QED
  BY <1>5, <1>14, <1>15, <1>16

-----------------------------------------------------------------------------
(* The blocks of the callers *)

BlockType == [ptr : Nat, gap : Nat, size : Nat]

\* The used nodes of the pool p are those of the blocks bs, one each, and hold them.
Tracks(p, bs) ==
  /\ bs \in SUBSET BlockType
  /\ \A b \in bs : /\ NodeOf(b) \in Addresses \ {END}
                   /\ p.head[NodeOf(b)].used
                   /\ b.ptr + b.size <= NodeOf(b) + p.head[NodeOf(b)].size
  /\ \A b, c \in bs : NodeOf(b) = NodeOf(c) => b = c
  /\ \A a \in Addresses \ {END} : p.head[a].used => \E b \in bs : NodeOf(b) = a

\* What was freed is not used.
Gone(p, st) == \A b \in st : NodeOf(b) \in Addresses \ {END} /\ ~p.head[NodeOf(b)].used

Sound(p, bs, st) == (\E C : Open(p, C, {})) /\ Tracks(p, bs) /\ Gone(p, st)

HeapInv == Sound(pool, blocks, stale)

LEMMA TracksNew ==
  ASSUME NEW p, NEW q, NEW bs, Tracks(p, bs), NEW node \in Addresses \ {END},
         Kept(p, q, node), ~p.head[node].used, q.head[node].used,
         NEW b \in BlockType, NodeOf(b) = node, b.ptr + b.size <= node + q.head[node].size
  PROVE  Tracks(q, bs \cup {b})
<1>1. ASSUME NEW c \in bs
      PROVE  /\ NodeOf(c) \in Addresses \ {END} /\ NodeOf(c) # node
             /\ q.head[NodeOf(c)].used
             /\ c.ptr + c.size <= NodeOf(c) + q.head[NodeOf(c)].size
  <2>1. PICK a : a = NodeOf(c)
    OBVIOUS
  <2>2. /\ a \in Addresses \ {END} /\ p.head[a].used
        /\ c.ptr + c.size <= a + p.head[a].size
    BY <2>1 DEF Tracks
  <2>3. a # node /\ q.head[a].used /\ q.head[a].size = p.head[a].size
    BY <2>2 DEF Kept
  <2> QED
    BY <2>1, <2>2, <2>3
<1>2. ASSUME NEW a \in Addresses \ {END}, q.head[a].used
      PROVE  \E c \in bs \cup {b} : NodeOf(c) = a
  <2>1. a # node => p.head[a].used
    BY <1>2 DEF Kept
  <2> QED
    BY <2>1 DEF Tracks
<1>3. \A c, d \in bs : NodeOf(c) = NodeOf(d) => c = d
  BY DEF Tracks
<1>4. bs \in SUBSET BlockType
  BY DEF Tracks
<1> QED
  BY <1>1, <1>2, <1>3, <1>4 DEF Tracks

LEMMA TracksGone ==
  ASSUME NEW p, NEW q, NEW bs, Tracks(p, bs), NEW b \in bs, NEW node, node = NodeOf(b),
         Kept(p, q, node), ~q.head[node].used
  PROVE  Tracks(q, bs \ {b}) /\ node \in Addresses \ {END}
<1>1. ASSUME NEW c \in bs \ {b}
      PROVE  /\ NodeOf(c) \in Addresses \ {END}
             /\ q.head[NodeOf(c)].used
             /\ c.ptr + c.size <= NodeOf(c) + q.head[NodeOf(c)].size
  <2>1. PICK a : a = NodeOf(c)
    OBVIOUS
  <2>2. /\ a \in Addresses \ {END} /\ p.head[a].used /\ a # node
        /\ c.ptr + c.size <= a + p.head[a].size
    BY <2>1 DEF Tracks
  <2>3. q.head[a].used /\ q.head[a].size = p.head[a].size
    BY <2>2 DEF Kept
  <2> QED
    BY <2>1, <2>2, <2>3
<1>2. ASSUME NEW a \in Addresses \ {END}, q.head[a].used
      PROVE  \E c \in bs \ {b} : NodeOf(c) = a
  <2>1. a # node
    BY <1>2
  <2>2. p.head[a].used
    BY <1>2, <2>1 DEF Kept
  <2> QED
    BY <2>1, <2>2 DEF Tracks
<1>3. \A c, d \in bs : NodeOf(c) = NodeOf(d) => c = d
  BY DEF Tracks
<1>4. bs \in SUBSET BlockType /\ node \in Addresses \ {END}
  BY DEF Tracks
<1> QED
  BY <1>1, <1>2, <1>3, <1>4 DEF Tracks

LEMMA TracksAgain ==
  ASSUME NEW p, NEW q, NEW bs, Tracks(p, bs), NEW b \in bs, NEW node, node = NodeOf(b),
         Kept(p, q, node), q.head[node].used,
         NEW c \in BlockType, NodeOf(c) = node, c.ptr + c.size <= node + q.head[node].size
  PROVE  Tracks(q, (bs \ {b}) \cup {c})
<1>1. ASSUME NEW d \in bs \ {b}
      PROVE  /\ NodeOf(d) \in Addresses \ {END} /\ NodeOf(d) # node
             /\ q.head[NodeOf(d)].used
             /\ d.ptr + d.size <= NodeOf(d) + q.head[NodeOf(d)].size
  <2>1. PICK a : a = NodeOf(d)
    OBVIOUS
  <2>2. /\ a \in Addresses \ {END} /\ p.head[a].used /\ a # node
        /\ d.ptr + d.size <= a + p.head[a].size
    BY <2>1 DEF Tracks
  <2>3. q.head[a].used /\ q.head[a].size = p.head[a].size
    BY <2>2 DEF Kept
  <2> QED
    BY <2>1, <2>2, <2>3
<1>2. ASSUME NEW a \in Addresses \ {END}, q.head[a].used
      PROVE  \E d \in (bs \ {b}) \cup {c} : NodeOf(d) = a
  <2>1. a # node => p.head[a].used
    BY <1>2 DEF Kept
  <2> QED
    BY <2>1 DEF Tracks
<1>3. \A d, e \in bs : NodeOf(d) = NodeOf(e) => d = e
  BY DEF Tracks
<1>4. bs \in SUBSET BlockType /\ node \in Addresses \ {END}
  BY DEF Tracks
<1> QED
  BY <1>1, <1>2, <1>3, <1>4 DEF Tracks

LEMMA GoneStays ==
  ASSUME NEW p, NEW q, NEW st, Gone(p, st), NEW node, Kept(p, q, node),
         NEW some \in SUBSET st, \A b \in some : NodeOf(b) # node
  PROVE  Gone(q, some)
<1>1. ASSUME NEW b \in some
      PROVE  NodeOf(b) \in Addresses \ {END} /\ ~q.head[NodeOf(b)].used
  <2>1. PICK a : a = NodeOf(b)
    OBVIOUS
  <2>2. a \in Addresses \ {END} /\ ~p.head[a].used /\ a # node
    BY <2>1 DEF Gone
  <2> QED
    BY <2>1, <2>2 DEF Kept
<1> QED
  BY <1>1 DEF Gone

\* A request, and what it asks the search for.
LEMMA RequestIs ==
  ASSUME NEW size \in Sizes, NEW boundary \in Boundaries \cup {1}
  PROVE  /\ size \in Nat \ {0} /\ boundary \in Nat \ {0}
         /\ UseSize(size, boundary) \in Nat /\ UseSize(size, boundary) >= MIN_ALLOC
         /\ UseSize(size, boundary) >= size + (boundary - 1)
         /\ UseSize(size, boundary) + HEAD \in 1..(USED_FLAG - 1)
         /\ UseSize(size, 1) = AtLeast(size)
         /\ AtLeast(size) \in Nat /\ AtLeast(size) >= MIN_ALLOC /\ AtLeast(size) >= size
<1>1. size \in Nat \ {0} /\ boundary \in Nat \ {0}
  BY HeapAssumption
<1>2. AtLeast(size) \in Nat /\ AtLeast(size) >= 2 /\ AtLeast(size) >= size
  <2> DEFINE K == {size, 2}
  <2>1. K \in SUBSET (1..(size + 2)) /\ size + 2 \in Nat /\ K # {}
    BY <1>1
  <2>2. AtLeast(size) = Max(K)
    BY DEF AtLeast, MIN_ALLOC
  <2>3. size \in K /\ 2 \in K
    OBVIOUS
  <2> HIDE DEF K
  <2>4. Max(K) \in K /\ \A i \in K : i <= Max(K)
    BY <2>1, LastPosition
  <2>5. PICK m \in K : m = Max(K) /\ size <= m /\ 2 <= m
    BY <2>3, <2>4
  <2>6. m \in Nat
    BY <1>1, <2>1 DEF K
  <2> QED
    BY <2>2, <2>5, <2>6, <1>1
<1>3. PICK n \in Nat : n = AtLeast(size) /\ n >= 2 /\ n >= size
  BY <1>2
<1>4. UseSize(size, boundary) = n + boundary - 1 /\ UseSize(size, 1) = n + 1 - 1
  BY <1>3 DEF UseSize
<1>5. 2 * UseSize(size, boundary) < USED_FLAG /\ USED_FLAG \in Nat
  BY RequestAssumption, Parameters
<1>6. PICK u \in Nat : u = UseSize(size, boundary) /\ u >= 2 /\ u >= size + (boundary - 1)
  BY <1>1, <1>3, <1>4
<1>7. u + 2 \in 1..(USED_FLAG - 1)
  BY <1>5, <1>6
<1> QED
  BY <1>1, <1>3, <1>4, <1>6, <1>7 DEF MIN_ALLOC, HEAD

\* The aligned address.
LEMMA AlignIs ==
  ASSUME NEW ptr \in Nat, NEW boundary \in Nat \ {0}
  PROVE  /\ Align(ptr, boundary) \in Nat /\ ptr <= Align(ptr, boundary)
         /\ Align(ptr, boundary) <= ptr + (boundary - 1)
<1>1. \A y \in Nat, m \in Nat \ {0} :
        /\ y \div m \in Nat
        /\ m * (y \div m) <= y /\ y < m * (y \div m) + m
  OBVIOUS
<1>2. PICK y \in Nat : y = ptr + boundary - 1
  OBVIOUS
<1>3. PICK d \in Nat : d = y \div boundary /\ boundary * d <= y /\ y < boundary * d + boundary
  BY <1>1
<1>4. PICK x \in Nat : x = boundary * d
  OBVIOUS
<1>5. d * boundary = x
  BY <1>4
<1>6. Align(ptr, boundary) = x
  BY <1>2, <1>3, <1>5 DEF Align
<1> QED
  BY <1>2, <1>3, <1>4, <1>6

-----------------------------------------------------------------------------
(* The calls keep the pool sound *)

LEMMA AllocKeeps ==
  ASSUME NEW p, NEW bs, NEW st, Sound(p, bs, st), NEW size \in Nat, size >= MIN_ALLOC,
         size + HEAD \in 1..(USED_FLAG - 1), NEW found \in FindSuitable(p, size + HEAD),
         NEW b \in BlockType, NodeOf(b) = found.node,
         b.ptr + b.size <= found.node + (size + HEAD),
         NEW some \in SUBSET st, \A c \in some : NodeOf(c) # found.node
  PROVE  /\ Sound(MemAlloc(p, found, size), bs \cup {b}, some)
         /\ found.node \in Addresses \ {END} /\ ~p.head[found.node].used
         /\ Kept(p, MemAlloc(p, found, size), found.node)
<1> DEFINE want == size + HEAD
           node == found.node
           q == MemAlloc(p, found, size)
<1>1. PICK C : Open(p, C, {})
  BY DEF Sound
<1> HIDE DEF want
<1>2. Fits(p, C, found, want)
  BY <1>1, SearchIs DEF want
<1>3. \E D : Allocated(p, q, D, node, size)
  BY <1>1, <1>2, OpenAlloc DEF want
<1>4. PICK D : Allocated(p, q, D, node, size)
  BY <1>3
<1> HIDE DEF q
<1>5. /\ Open(q, D, {}) /\ node \in Addresses \ {END}
      /\ Kept(p, q, node)
      /\ q.head[node].used /\ q.head[node].size >= want
  BY <1>4 DEF Allocated, Open, Chained, want
<1>6. ~p.head[node].used
  BY <1>2 DEF Fits
<1>7. b.ptr + b.size <= node + q.head[node].size
  <2>1. b.ptr + b.size <= node + want
    BY DEF want
  <2>2. PICK s \in Nat : s = q.head[node].size
    BY <1>5 DEF Open, PoolType, Header
  <2>3. PICK e \in Nat : e = b.ptr + b.size
    BY DEF BlockType
  <2>4. node \in Nat /\ want \in Nat
    BY <1>5, Places2 DEF want, HEAD
  <2> HIDE DEF node
  <2> QED
    BY <2>1, <2>2, <2>3, <2>4, <1>5
<1>8. Tracks(p, bs) /\ Gone(p, st)
  BY DEF Sound
<1>9. Tracks(q, bs \cup {b})
  BY <1>5, <1>6, <1>7, <1>8, TracksNew
<1>10. Gone(q, some)
  BY <1>5, <1>8, GoneStays
<1> QED
  BY <1>5, <1>6, <1>9, <1>10 DEF Sound, q

LEMMA HandedOutIs ==
  ASSUME NEW p, NEW node \in Addresses, p.head[node].size \in Nat \ {0}
  PROVE  HandedOut(p, node) \in SUBSET stale /\ \A c \in HandedOut(p, node) : NodeOf(c) # node
<1>1. node \in Nat
  BY Places2
<1>2. node \in node .. NextNode(p, node) - 1
  BY <1>1 DEF NextNode
<1> QED
  BY <1>2 DEF HandedOut

LEMMA OpenSizes ==
  ASSUME NEW p, NEW C, NEW X, Open(p, C, X), NEW a \in Addresses \ {END}, p.head[a].used
  PROVE  a \in C \ {END} /\ p.head[a].size \in 1..POOL /\ p.head[a].size \in Nat \ {0}
<1>1. p.head \in [Addresses -> Header] /\ Chained(p.head, C)
  BY DEF Open, PoolType
<1>2. a \in C
  <2>1. ASSUME a \notin C PROVE FALSE
    <3>1. p.head[a] = Data
      BY <1>1, <2>1 DEF Chained
    <3>2. Data.used = FALSE
      BY DEF Data
    <3> QED
      BY <3>1, <3>2
  <2> QED
    BY <2>1
<1>3. p.head[a].size \in 1..POOL
  BY <1>1, <1>2, NodeFacts
<1>4. p.head[a].size \in Nat \ {0}
  BY <1>3, Parameters
<1> QED
  BY <1>2, <1>3, <1>4

LEMMA NewBlock ==
  ASSUME NEW node \in Addresses, NEW size \in Nat,
         NEW ptr \in Nat, node + HEAD <= ptr
  PROVE  LET b == [ptr |-> ptr, gap |-> ptr - (node + HEAD), size |-> size] IN
         b \in BlockType /\ NodeOf(b) = node /\ b.ptr + b.size = ptr + size
<1>1. node \in Nat
  BY Places2
<1>2. ptr - (node + HEAD) \in Nat /\ ptr - (ptr - (node + HEAD)) - HEAD = node
  BY <1>1 DEF HEAD
<1> QED
  BY <1>2 DEF BlockType, NodeOf

\* Handing out, aligned or not.
LEMMA HandOutStep ==
  ASSUME HeapInv, NEW size \in Sizes, NEW boundary \in Boundaries \cup {1},
         NEW use, use = UseSize(size, boundary),
         NEW found \in FindSuitable(pool, use + HEAD), NEW real, real = found.node + HEAD,
         NEW ptr, ptr = Align(real, boundary),
         pool' = MemAlloc(pool, found, use),
         stale' = HandedOut(pool', found.node),
         blocks' = blocks \cup {[ptr |-> ptr, gap |-> ptr - real, size |-> size]}
  PROVE  HeapInv'
<1> DEFINE node == found.node
           b == [ptr |-> ptr, gap |-> ptr - real, size |-> size]
<1>1. /\ size \in Nat \ {0} /\ boundary \in Nat \ {0}
      /\ use \in Nat /\ use >= MIN_ALLOC /\ use >= size + (boundary - 1)
      /\ use + HEAD \in 1..(USED_FLAG - 1)
  BY RequestIs
<1>2. PICK C : Open(pool, C, {})
  BY DEF HeapInv, Sound
<1>3. Fits(pool, C, found, use + HEAD)
  BY <1>1, <1>2, SearchIs
<1>4. node \in Addresses \ {END}
  BY <1>2, <1>3 DEF Fits, Open, Chained
<1> HIDE DEF node
<1>5. node \in Nat /\ real = node + HEAD /\ real \in Nat
  BY <1>4, Places2 DEF node, HEAD
<1>6. ptr \in Nat /\ real <= ptr /\ ptr <= real + (boundary - 1)
  BY <1>1, <1>5, AlignIs
<1>7. b \in BlockType /\ NodeOf(b) = node /\ b.ptr + b.size = ptr + size
  <2>1. b = [ptr |-> ptr, gap |-> ptr - (node + HEAD), size |-> size]
    BY <1>5
  <2> HIDE DEF b
  <2> QED
    BY <2>1, <1>1, <1>4, <1>5, <1>6, NewBlock
<1> HIDE DEF b
<1>8. b.ptr + b.size <= node + (use + HEAD)
  BY <1>1, <1>5, <1>6, <1>7 DEF HEAD
<1>9. PICK q : q = MemAlloc(pool, found, use)
  OBVIOUS
<1>10. \A some \in SUBSET stale : (\A c \in some : NodeOf(c) # node) =>
         /\ Sound(q, blocks \cup {b}, some)
         /\ ~pool.head[node].used /\ Kept(pool, q, node)
  BY <1>1, <1>7, <1>8, <1>9, AllocKeeps DEF HeapInv, node
<1>11. Sound(q, blocks \cup {b}, {})
  BY <1>10
<1>12. q.head[node].used /\ q.head[node].size \in Nat \ {0}
  <2>1. PICK D : Open(q, D, {})
    BY <1>11 DEF Sound
  <2>2. q.head[node].used
    BY <1>7, <1>11 DEF Sound, Tracks
  <2> QED
    BY <2>1, <2>2, <1>4, OpenSizes
<1>13. Sound(q, blocks \cup {b}, HandedOut(q, node))
  BY <1>4, <1>10, <1>12, HandedOutIs
<1>14. pool' = q /\ stale' = HandedOut(q, node) /\ blocks' = blocks \cup {b}
  BY <1>9 DEF node, b
<1> QED
  BY <1>13, <1>14 DEF HeapInv

LEMMA AllocStep ==
  ASSUME HeapInv, NEW size \in Sizes, LOS_MemAlloc(size)
  PROVE  HeapInv'
<1>1. AtLeast(size) = UseSize(size, 1) /\ size \in Nat \ {0}
  BY RequestIs
<1>2. PICK found \in FindSuitable(pool, UseSize(size, 1) + HEAD) :
        /\ pool' = MemAlloc(pool, found, UseSize(size, 1))
        /\ stale' = HandedOut(pool', found.node)
        /\ blocks' = blocks \cup {[ptr |-> found.node + HEAD, gap |-> 0, size |-> size]}
  BY <1>1 DEF LOS_MemAlloc
<1>3. PICK C : Open(pool, C, {})
  BY DEF HeapInv, Sound
<1>4. Fits(pool, C, found, UseSize(size, 1) + HEAD)
  BY <1>3, RequestIs, SearchIs
<1>5. found.node \in Addresses
  BY <1>3, <1>4 DEF Fits, Open, Chained
<1>6. PICK real \in Nat : real = found.node + HEAD
  BY <1>5, Places2 DEF HEAD
<1>7. Align(real, 1) = real /\ real - real = 0
  <2>1. Align(real, 1) \in Nat /\ real <= Align(real, 1) /\ Align(real, 1) <= real + (1 - 1)
    BY AlignIs
  <2> QED
    BY <2>1
<1>8. blocks' = blocks \cup {[ptr |-> real, gap |-> real - real, size |-> size]}
  BY <1>2, <1>6, <1>7
<1> QED
  BY <1>2, <1>6, <1>7, <1>8, HandOutStep

LEMMA AllocAlignStep ==
  ASSUME HeapInv, NEW size \in Sizes, NEW boundary \in Boundaries,
         LOS_MemAllocAlign(size, boundary)
  PROVE  HeapInv'
<1>1. PICK found \in FindSuitable(pool, UseSize(size, boundary) + HEAD) :
        /\ pool' = MemAlloc(pool, found, UseSize(size, boundary))
        /\ stale' = HandedOut(pool', found.node)
        /\ blocks' = blocks \cup {[ptr |-> Align(found.node + HEAD, boundary),
                                   gap |-> Align(found.node + HEAD, boundary) - (found.node + HEAD),
                                   size |-> size]}
  BY DEF LOS_MemAllocAlign
<1> QED
  BY <1>1, HandOutStep

LEMMA FreeKeeps ==
  ASSUME NEW p, NEW bs, NEW st, Sound(p, bs, st), NEW b \in bs
  PROVE  Sound(MemFree(p, NodeOf(b)), bs \ {b}, {b})
<1> DEFINE node == NodeOf(b)
           q == MemFree(p, node)
<1>1. PICK C : Open(p, C, {})
  BY DEF Sound
<1>2. Tracks(p, bs)
  BY DEF Sound
<1>3. node \in Addresses \ {END} /\ p.head[node].used
  BY <1>2 DEF Tracks
<1> HIDE DEF node
<1>4. node \in C \ {END}
  BY <1>1, <1>3, OpenSizes
<1>5. \E D : Freed(p, q, D, node)
  BY <1>1, <1>3, <1>4, OpenFree
<1>6. PICK D : Freed(p, q, D, node)
  BY <1>5
<1> HIDE DEF q
<1>7. Open(q, D, {}) /\ Kept(p, q, node) /\ ~q.head[node].used
  BY <1>6 DEF Freed
<1>8. Tracks(q, bs \ {b})
  BY <1>2, <1>7, TracksGone DEF node
<1>9. Gone(q, {b})
  BY <1>3, <1>7 DEF Gone, node
<1> QED
  BY <1>7, <1>8, <1>9 DEF Sound, q, node

LEMMA FreeStep ==
  ASSUME HeapInv, NEW b \in blocks, LOS_MemFree(b)
  PROVE  HeapInv'
<1>1. Sound(MemFree(pool, NodeOf(b)), blocks \ {b}, {b})
  BY FreeKeeps DEF HeapInv
<1> QED
  BY <1>1 DEF LOS_MemFree, HeapInv

\* The node of a block is made smaller or larger, and let go.
LEMMA AgainKeeps ==
  ASSUME NEW p, NEW bs, NEW st, Tracks(p, bs), Gone(p, st), NEW b \in bs,
         NEW node, node = NodeOf(b), NEW q, NEW D, Open(q, D, {node}), node \in D \ {END},
         Kept(p, q, node), q.head[node].used,
         NEW size \in Sizes, q.head[node].size >= AtLeast(size) + HEAD, NEW n \in Int,
         NEW some \in SUBSET st
  PROVE  /\ Sound(UsedRecord(q, n), (bs \ {b}) \cup {Reallocated(node, size)}, some)
         /\ Written(UsedRecord(q, n), node) = UsedRecord(q, n)
<1> DEFINE one == {node}
           r == UsedRecord(q, n)
           c == Reallocated(node, size)
<1>1. Open(q, D, one) /\ node \in D
  OBVIOUS
<1> HIDE DEF one
<1>2. Open(q, D, one \ {node})
  BY <1>1, OpenUsed
<1>3. one \ {node} = {}
  BY DEF one
<1>4. Open(q, D, {})
  BY <1>2, <1>3
<1>5. Open(r, D, {}) /\ r.head = q.head
  BY <1>4, OpenRecord
<1>6. Written(r, node) = r
  BY <1>5, NothingWritten
<1> HIDE DEF r
<1>7. /\ node \in Addresses \ {END} /\ node \in Nat /\ p.head[node].used
      /\ q.head[node].size \in Nat
  <2>1. node \in Addresses \ {END} /\ p.head[node].used
    BY DEF Tracks
  <2> QED
    BY <2>1, <1>4, OpenSizes, Places2
<1>8. size \in Nat /\ AtLeast(size) \in Nat /\ AtLeast(size) >= size
  <2>1. 1 \in Boundaries \cup {1}
    OBVIOUS
  <2> QED
    BY <2>1, RequestIs
<1>9. c \in BlockType /\ NodeOf(c) = node /\ c.ptr + c.size = node + HEAD + size
  BY <1>7, <1>8 DEF Reallocated, BlockType, NodeOf, HEAD
<1> HIDE DEF c
<1>10. c.ptr + c.size <= node + r.head[node].size
  <2>1. node + HEAD + size <= node + q.head[node].size
    BY <1>7, <1>8 DEF HEAD
  <2> QED
    BY <2>1, <1>5, <1>9
<1>11. Kept(p, r, node) /\ r.head[node].used
  BY <1>5 DEF Kept
<1>12. Tracks(r, (bs \ {b}) \cup {c})
  BY <1>9, <1>10, <1>11, TracksAgain
<1>13. \A d \in some : NodeOf(d) # node
  BY <1>7 DEF Gone
<1>14. Gone(r, some)
  BY <1>11, <1>13, GoneStays
<1> QED
  BY <1>5, <1>6, <1>12, <1>14 DEF Sound, r, c

LEMMA SmallerStep ==
  ASSUME HeapInv, NEW b \in blocks, NEW size \in Sizes, ReallocSmaller(b, size)
  PROVE  HeapInv'
<1> DEFINE node == NodeOf(b)
           want == AtLeast(size) + HEAD
           cut == SplitIfLarge(pool, node, want)
           none == {}
           one == none \cup {node}
           n == 2 * USED_FLAG - (pool.head[node].size - cut.head[node].size)
           c == Reallocated(node, size)
<1>1. /\ pool.head[node].size >= want
      /\ pool' = UsedRecord(cut, n)
      /\ blocks' = (blocks \ {b}) \cup {c}
      /\ stale' = stale
  BY DEF ReallocSmaller
<1>2. PICK C : Open(pool, C, none)
  BY DEF HeapInv, Sound
<1>3. Tracks(pool, blocks) /\ Gone(pool, stale)
  BY DEF HeapInv, Sound
<1>4. node \in Addresses \ {END} /\ pool.head[node].used
  BY <1>3 DEF Tracks
<1>5. node \in C \ {END} /\ pool.head[node].size \in Nat
  BY <1>2, <1>4, OpenSizes
<1> HIDE DEF none, c
<1>6. Open(pool, C, one)
  BY <1>2, <1>4, <1>5, OpenUsed
<1>7. one = {node}
  BY DEF none
<1>8. want \in Nat /\ want >= MIN_LEFT
  <2>1. 1 \in Boundaries \cup {1}
    OBVIOUS
  <2>2. AtLeast(size) \in Nat /\ AtLeast(size) >= MIN_ALLOC
    BY <2>1, RequestIs
  <2> QED
    BY <2>2 DEF MIN_ALLOC, MIN_LEFT, HEAD
<1> HIDE DEF one
<1>9. \E D : Shrunk(pool, cut, D, node, want)
  <2>1. Open(pool, C, {node}) /\ want <= pool.head[node].size
    BY <1>1, <1>5, <1>6, <1>7, <1>8
  <2> HIDE DEF want, node
  <2> QED
    BY <2>1, <1>5, <1>8, OpenSplit
<1>10. PICK D : Shrunk(pool, cut, D, node, want)
  BY <1>9
<1> HIDE DEF cut
<1>11. /\ Open(cut, D, {node}) /\ node \in D \ {END} /\ Kept(pool, cut, node)
       /\ cut.head[node].used /\ cut.head[node].size >= want
  BY <1>4, <1>10 DEF Shrunk
<1>12. n \in Int
  <2>1. cut.head[node].size \in Nat
    BY <1>4, <1>11 DEF Open, PoolType, Header
  <2> QED
    BY <2>1, <1>5, Parameters
<1> HIDE DEF n
<1>13. Sound(UsedRecord(cut, n), (blocks \ {b}) \cup {c}, stale)
  BY <1>3, <1>11, <1>12, AgainKeeps DEF c
<1> QED
  BY <1>1, <1>13 DEF HeapInv

LEMMA BiggerStep ==
  ASSUME HeapInv, NEW b \in blocks, NEW size \in Sizes, ReallocBigger(b, size)
  PROVE  HeapInv'
<1> DEFINE node == NodeOf(b)
           next == NextNode(pool, node)
           want == AtLeast(size) + HEAD
           joined == MergeNode(FreeNodeDelete(pool, next), next)
           cut == SplitIfLarge(joined, node, want)
           n == cut.head[node].size + USED_FLAG - pool.head[node].size
           none == {}
           one == none \cup {node}
           c == Reallocated(node, size)
<1>1. /\ ~pool.head[next].used
      /\ pool.head[next].size + pool.head[node].size >= want
      /\ pool' = Written(UsedRecord(cut, n), node)
      /\ stale' = HandedOut(pool', node)
      /\ blocks' = (blocks \ {b}) \cup {c}
  BY DEF ReallocBigger
<1>2. PICK C : Open(pool, C, none)
  BY DEF HeapInv, Sound
<1>3. Tracks(pool, blocks) /\ Gone(pool, stale)
  BY DEF HeapInv, Sound
<1>4. node \in Addresses \ {END} /\ pool.head[node].used
  BY <1>3 DEF Tracks
<1>5. node \in C \ {END} /\ pool.head[node].size \in Nat \ {0}
  BY <1>2, <1>4, OpenSizes
<1>6. next # node
  BY <1>4, <1>1
<1> HIDE DEF none, c, n
<1>7. Open(pool, C, one)
  BY <1>2, <1>4, <1>5, OpenUsed
<1>8. one = {node} /\ one \in SUBSET C /\ node \in one \ {END} /\ next \notin one
  BY <1>5, <1>6 DEF none
<1>9. want \in Nat /\ want >= MIN_LEFT
  <2>1. 1 \in Boundaries \cup {1}
    OBVIOUS
  <2>2. AtLeast(size) \in Nat /\ AtLeast(size) >= MIN_ALLOC
    BY <2>1, RequestIs
  <2> QED
    BY <2>2 DEF MIN_ALLOC, MIN_LEFT, HEAD
<1> HIDE DEF one
<1>10. joined = JoinNext(pool, node)
  BY <1>1 DEF JoinNext
<1>11. \E E : Joined(pool, joined, E, one, node)
  <2>1. \E E : Joined(pool, JoinNext(pool, node), E, one, node)
    <3> HIDE DEF node
    <3> QED
      BY <1>7, <1>8, OpenJoin
  <2> HIDE DEF joined
  <2> QED
    BY <2>1, <1>10
<1>12. PICK E : Joined(pool, joined, E, one, node)
  BY <1>11
<1> HIDE DEF joined
<1>13. /\ Open(joined, E, {node}) /\ node \in E \ {END}
       /\ \A a \in Addresses : joined.head[a].used = pool.head[a].used
       /\ \A a \in Addresses \ {node} :
            pool.head[a].used => joined.head[a].size = pool.head[a].size
       /\ joined.head[node].size = pool.head[node].size + pool.head[next].size
  BY <1>1, <1>8, <1>12 DEF Joined
<1>14. want <= joined.head[node].size
  <2>1. next \in Addresses
    <3>1. pool.head \in [Addresses -> Header] /\ Chained(pool.head, C) /\ C \in SUBSET Addresses
      BY <1>2 DEF Open, PoolType, Chained
    <3> QED
      BY <3>1, <1>5, NodeFacts DEF NextNode
  <2>2. pool.head[next].size \in Nat
    BY <2>1, <1>2 DEF Open, PoolType, Header
  <2> QED
    BY <2>2, <1>1, <1>5, <1>9, <1>13
<1>15. \E D : Shrunk(joined, cut, D, node, want)
  <2> HIDE DEF want, node
  <2> QED
    BY <1>9, <1>13, <1>14, OpenSplit
<1>16. PICK D : Shrunk(joined, cut, D, node, want)
  BY <1>15
<1> HIDE DEF cut
<1>17. /\ Open(cut, D, {node}) /\ node \in D \ {END} /\ Kept(joined, cut, node)
       /\ cut.head[node].used /\ cut.head[node].size >= want
  BY <1>4, <1>13, <1>16 DEF Shrunk
<1>18. Kept(pool, cut, node)
  BY <1>13, <1>17 DEF Kept
<1>19. n \in Int
  <2>1. cut.head[node].size \in Nat
    BY <1>4, <1>17 DEF Open, PoolType, Header
  <2> QED
    BY <2>1, <1>5, Parameters DEF n
<1> DEFINE r == UsedRecord(cut, n)
<1>20. \A some \in SUBSET stale :
         Sound(r, (blocks \ {b}) \cup {c}, some) /\ Written(r, node) = r
  <2> SUFFICES ASSUME NEW some \in SUBSET stale
               PROVE  Sound(r, (blocks \ {b}) \cup {c}, some) /\ Written(r, node) = r
    OBVIOUS
  <2>1. /\ Sound(r, (blocks \ {b}) \cup {Reallocated(node, size)}, some)
        /\ Written(r, node) = r
    <3>1. node = NodeOf(b) /\ cut.head[node].size >= AtLeast(size) + HEAD
      BY <1>17
    <3> HIDE DEF node, want
    <3> QED
      BY <1>3, <1>17, <1>18, <1>19, <3>1, AgainKeeps
  <2> QED
    BY <2>1 DEF c
<1> HIDE DEF r
<1>21. Sound(r, (blocks \ {b}) \cup {c}, {}) /\ pool' = r
  BY <1>1, <1>20 DEF r
<1>22. HandedOut(r, node) \in SUBSET stale
  BY DEF HandedOut
<1>23. Sound(r, (blocks \ {b}) \cup {c}, HandedOut(r, node))
  BY <1>20, <1>22
<1>24. blocks' = (blocks \ {b}) \cup {c} /\ stale' = HandedOut(r, node)
  BY <1>1, <1>21
<1> QED
  BY <1>21, <1>23, <1>24 DEF HeapInv

LEMMA ElsewhereStep ==
  ASSUME HeapInv, NEW b \in blocks, NEW size \in Sizes, ReallocElsewhere(b, size)
  PROVE  HeapInv'
<1> DEFINE node == NodeOf(b)
           need == AtLeast(size)
<1>1. PICK found \in FindSuitable(pool, need + HEAD) :
        /\ pool' = MemFree(MemAlloc(pool, found, need), node)
        /\ stale' = {b}
        /\ blocks' = (blocks \ {b}) \cup {Reallocated(found.node, size)}
  BY DEF ReallocElsewhere
<1> DEFINE c == Reallocated(found.node, size)
           m == MemAlloc(pool, found, need)
<1>2. /\ size \in Nat /\ need \in Nat /\ need >= MIN_ALLOC /\ need >= size
      /\ need + HEAD \in 1..(USED_FLAG - 1)
  <2>1. 1 \in Boundaries \cup {1}
    OBVIOUS
  <2> QED
    BY <2>1, RequestIs
<1>3. PICK C : Open(pool, C, {})
  BY DEF HeapInv, Sound
<1>4. Fits(pool, C, found, need + HEAD)
  BY <1>2, <1>3, SearchIs
<1>5. found.node \in Addresses /\ found.node \in Nat /\ ~pool.head[found.node].used
  BY <1>3, <1>4, Places2 DEF Fits, Open, Chained
<1>6. c \in BlockType /\ NodeOf(c) = found.node /\ c.ptr + c.size <= found.node + (need + HEAD)
  BY <1>2, <1>5 DEF Reallocated, BlockType, NodeOf, HEAD
<1> HIDE DEF c, need
<1>7. {} \in SUBSET stale /\ \A d \in {} : NodeOf(d) # found.node
  OBVIOUS
<1>8. Sound(m, blocks \cup {c}, {})
  BY <1>2, <1>6, <1>7, AllocKeeps DEF HeapInv
<1> HIDE DEF m
<1>9. Sound(MemFree(m, node), (blocks \cup {c}) \ {b}, {b})
  <2>1. b \in blocks \cup {c}
    OBVIOUS
  <2> QED
    BY <2>1, <1>8, FreeKeeps
<1>10. c # b
  <2>1. pool.head[NodeOf(b)].used
    BY DEF HeapInv, Sound, Tracks
  <2> QED
    BY <2>1, <1>5, <1>6
<1>11. (blocks \cup {c}) \ {b} = (blocks \ {b}) \cup {c}
  BY <1>10
<1> QED
  BY <1>1, <1>9, <1>11 DEF HeapInv, c, m

LEMMA HeapStep ==
  ASSUME HeapInv, [HeapNext]_heapVars
  PROVE  HeapInv'
<1>1. CASE \E size \in Sizes : LOS_MemAlloc(size)
  BY <1>1, AllocStep
<1>2. CASE \E size \in Sizes, boundary \in Boundaries : LOS_MemAllocAlign(size, boundary)
  BY <1>2, AllocAlignStep
<1>3. CASE \E b \in blocks : LOS_MemFree(b)
  BY <1>3, FreeStep
<1>4. CASE \E b \in blocks, size \in Sizes : LOS_MemRealloc(b, size)
  BY <1>4, SmallerStep, BiggerStep, ElsewhereStep DEF LOS_MemRealloc
<1>5. CASE UNCHANGED heapVars
  BY <1>5 DEF heapVars, HeapInv
<1> QED
  BY <1>1, <1>2, <1>3, <1>4, <1>5 DEF HeapNext

LEMMA HeapStart == HeapInit => HeapInv
<1> SUFFICES ASSUME HeapInit PROVE HeapInv
  OBVIOUS
<1> DEFINE h == [a \in Addresses |->
                   CASE a = FIRST -> [prev |-> END, size |-> POOL, used |-> FALSE]
                     [] a = END -> [prev |-> FIRST, size |-> 0, used |-> TRUE]
                     [] OTHER -> Data]
           f == [i \in Lists |-> <<>>]
           p == [head |-> h, freeList |-> f, bitmap |-> {}, curUsedSize |-> HEAD]
           q == FreeNodeAdd(p, FIRST)
           C == {FIRST, END}
           X == {FIRST}
<1>1. pool = q /\ blocks = {} /\ stale = {}
  BY DEF HeapInit
<1>2. POOL \in Nat /\ POOL >= 4 /\ FIRST \in Nat
  BY Parameters
<1> HIDE DEF q
<1>3. h[FIRST] = [prev |-> END, size |-> POOL, used |-> FALSE]
  BY Places2
<1>4. h[END] = [prev |-> FIRST, size |-> 0, used |-> TRUE]
  BY Places2
<1>5. \A a \in Addresses \ C : h[a] = Data
  OBVIOUS
<1>6. /\ [prev |-> END, size |-> POOL, used |-> FALSE] \in Header
      /\ [prev |-> FIRST, size |-> 0, used |-> TRUE] \in Header
      /\ Data \in Header
  BY <1>2, Places2 DEF Header, Data, NULL
<1>7. h \in [Addresses -> Header]
  BY <1>6
<1> HIDE DEF h
<1>8. FIRST + POOL = END /\ FIRST < END /\ FIRST \in Addresses /\ END \in Addresses /\ END \in Nat
  BY <1>2, Places2
<1>9. h[FIRST].size = POOL /\ h[FIRST].prev = END /\ h[FIRST].used = FALSE
  BY <1>3
<1>10. h[END].size = 0 /\ h[END].prev = FIRST /\ h[END].used = TRUE
  BY <1>4
<1>11. Chained(h, C)
  <2>1. ASSUME NEW a \in C \ {END}
        PROVE  /\ h[a].size >= MIN_LEFT
               /\ a + h[a].size \in C
               /\ h[a + h[a].size].prev = a
               /\ \A b \in C : b <= a \/ a + h[a].size <= b
    <3>1. a = FIRST
      BY <2>1
    <3>2. a + h[a].size = END
      BY <3>1, <1>8, <1>9
    <3> QED
      BY <3>1, <3>2, <1>2, <1>8, <1>9, <1>10 DEF MIN_LEFT
  <2>2. ASSUME NEW a \in C \ {FIRST}
        PROVE  h[a].prev \in C \ {END} /\ h[a].prev + h[h[a].prev].size = a
    BY <1>8, <1>9, <1>10
  <2> QED
    BY <2>1, <2>2, <1>5, <1>8, <1>9, <1>10 DEF Chained
<1>12. \A i \in Lists : f[i] = << >> /\ f[i] \in Seq(Addresses)
  OBVIOUS
<1>13. f \in [Lists -> Seq(Addresses)]
  OBVIOUS
<1> HIDE DEF f
<1>14. p \in PoolType /\ p.head = h /\ p.freeList = f /\ p.bitmap = {}
  BY <1>7, <1>13 DEF PoolType, HEAD
<1> HIDE DEF p
<1>15. {a \in C \ X : ~p.head[a].used} = {}
  BY <1>10, <1>14
<1>16. Listed(p, {})
  <2>1. \A i \in Lists : IsInjective(f[i]) /\ ToSet(f[i]) = {}
    BY <1>12, EmptyMembers
  <2> QED
    BY <2>1, <1>12, <1>14 DEF Listed
<1>17. Open(p, C, X)
  BY <1>11, <1>14, <1>15, <1>16 DEF Open
<1>18. NextNode(p, FIRST) = END
  BY <1>8, <1>9, <1>14 DEF NextNode
<1>19. FIRST \in (C \cap X) \ {END}
  BY <1>8
<1> HIDE DEF C, X
<1>20. Open(q, C, X \ {FIRST}) /\ q.head = h
  BY <1>9, <1>10, <1>14, <1>17, <1>18, <1>19, OpenAdd DEF q
<1>21. X \ {FIRST} = {}
  BY DEF X
<1>22. Open(q, C, {})
  BY <1>20, <1>21
<1>23. \A a \in Addresses \ {END} : ~q.head[a].used
  <2>1. Data.used = FALSE
    BY DEF Data
  <2> QED
    BY <2>1, <1>5, <1>9, <1>20 DEF C
<1>24. Tracks(q, {}) /\ Gone(q, {})
  BY <1>23 DEF Tracks, Gone
<1> QED
  BY <1>1, <1>22, <1>24 DEF HeapInv, Sound

LEMMA HeapAlways == HeapSpec => []HeapInv
<1>1. HeapInit => HeapInv
  BY HeapStart
<1>2. HeapInv /\ [HeapNext]_heapVars => HeapInv'
  BY HeapStep
<1> QED
  BY <1>1, <1>2, PTL DEF HeapSpec

-----------------------------------------------------------------------------
(* The chain from the first node *)

ChainStep(f, a) ==
  IF a >= END \/ pool.head[a].size < MIN_LEFT THEN {a}
  ELSE IF NextNode(pool, a) \notin Addresses THEN {a, NULL}
  ELSE {a} \cup f[NextNode(pool, a)]

Walk == CHOOSE f : f = [a \in Addresses |-> ChainStep(f, a)]

\* The nodes of a chain from a node on.
FromNode(C, a) == {b \in C : b >= a}

LEMMA FromNext ==
  ASSUME NEW C, Open(pool, C, {}), NEW a \in C \ {END}
  PROVE  /\ NextNode(pool, a) \in C /\ a < NextNode(pool, a) /\ a \in Nat
         /\ ~(a >= END) /\ ~(pool.head[a].size < MIN_LEFT)
         /\ FromNode(C, a) = {a} \cup FromNode(C, NextNode(pool, a))
<1>1. /\ pool.head \in [Addresses -> Header] /\ Chained(pool.head, C) /\ C \in SUBSET Addresses
  BY DEF Open, PoolType, Chained
<1>2. PICK next : next = NextNode(pool, a)
  OBVIOUS
<1>3. /\ next \in C /\ a < next /\ a \in Nat
  BY <1>1, <1>2, NodeFacts DEF NextNode
<1>4. pool.head[a].size >= MIN_LEFT /\ \A b \in C : b <= a \/ next <= b
  BY <1>1, <1>2 DEF Chained, NextNode
<1>5. pool.head[a].size \in Nat /\ next \in Nat /\ \A b \in C : b \in Nat /\ b <= END
  BY <1>1, <1>3, Places2 DEF Header
<1>6. ~(a >= END) /\ ~(pool.head[a].size < MIN_LEFT)
  BY <1>3, <1>4, <1>5, Places2 DEF MIN_LEFT
<1>7. FromNode(C, a) = {a} \cup FromNode(C, next)
  <2>1. ASSUME NEW b \in C PROVE b >= a <=> (b = a \/ b >= next)
    BY <1>3, <1>4, <1>5
  <2> QED
    BY <2>1 DEF FromNode
<1> QED
  BY <1>2, <1>3, <1>6, <1>7

LEMMA ChainIs ==
  ASSUME NEW C, Open(pool, C, {})
  PROVE  Chain = C
<1> DEFINE g == [a \in Addresses |-> IF a \in C THEN FromNode(C, a) ELSE {a}]
<1>1. /\ pool.head \in [Addresses -> Header] /\ Chained(pool.head, C) /\ C \in SUBSET Addresses
      /\ FIRST \in C /\ END \in C
  BY DEF Open, PoolType, Chained
<1>2. FromNode(C, END) = {END}
  <2>1. ASSUME NEW b \in C PROVE b >= END <=> b = END
    BY <1>1, Places2
  <2> QED
    BY <2>1, <1>1 DEF FromNode
<1>3. ASSUME NEW f, NEW a \in Addresses \ C PROVE ChainStep(f, a) = {a}
  <2>1. pool.head[a] = Data
    BY <1>1 DEF Chained
  <2>2. pool.head[a].size < MIN_LEFT
    BY <2>1 DEF Data, MIN_LEFT
  <2> QED
    BY <2>2 DEF ChainStep
<1>4. ASSUME NEW f PROVE ChainStep(f, END) = {END}
  BY Places2 DEF ChainStep
<1>5. ASSUME NEW f, NEW a \in C \ {END}
      PROVE  ChainStep(f, a) = {a} \cup f[NextNode(pool, a)]
  <2>1. ~(a >= END) /\ ~(pool.head[a].size < MIN_LEFT) /\ NextNode(pool, a) \in Addresses
    BY <1>1, FromNext
  <2> QED
    BY <2>1 DEF ChainStep
<1>6. g = [a \in Addresses |-> ChainStep(g, a)]
  <2>1. ASSUME NEW a \in Addresses PROVE g[a] = ChainStep(g, a)
    <3>1. CASE a \notin C
      BY <3>1, <1>3
    <3>2. CASE a = END
      <4>1. g[END] = {END}
        BY <1>1, <1>2
      <4> HIDE DEF g
      <4> QED
        BY <3>2, <4>1, <1>4
    <3>3. CASE a \in C \ {END}
      <4>1. /\ NextNode(pool, a) \in C /\ NextNode(pool, a) \in Addresses
            /\ FromNode(C, a) = {a} \cup FromNode(C, NextNode(pool, a))
        BY <3>3, <1>1, FromNext
      <4>2. g[a] = FromNode(C, a) /\ g[NextNode(pool, a)] = FromNode(C, NextNode(pool, a))
        BY <3>3, <4>1
      <4> HIDE DEF g
      <4> QED
        BY <3>3, <4>1, <4>2, <1>5
    <3> QED
      BY <3>1, <3>2, <3>3
  <2>2. g = [a \in Addresses |-> g[a]]
    OBVIOUS
  <2> HIDE DEF g
  <2> QED
    BY <2>1, <2>2
<1> HIDE DEF g
<1>7. Walk = [a \in Addresses |-> ChainStep(Walk, a)]
  BY <1>6, Zenon DEF Walk
<1>8. PICK w : w = Walk /\ w = [a \in Addresses |-> ChainStep(w, a)]
  BY <1>7
<1>9. \A a \in Addresses : w[a] = ChainStep(w, a)
  BY <1>8
<1>10. \A a \in C : w[a] = FromNode(C, a)
  <2> DEFINE bad == {k \in 0..POOL : END - k \in C /\ w[END - k] # FromNode(C, END - k)}
  <2>1. POOL \in Nat /\ END \in Nat /\ FIRST \in Nat /\ END = FIRST + POOL
    BY Places2, Parameters
  <2>2. bad = {}
    <3> SUFFICES ASSUME bad # {} PROVE FALSE
      OBVIOUS
    <3>1. bad \in SUBSET Nat
      BY <2>1
    <3>2. Min(bad) \in bad /\ \A l \in bad : Min(bad) <= l
      BY <3>1, LeastNatural
    <3>3. PICK k \in 0..POOL : /\ END - k \in C /\ w[END - k] # FromNode(C, END - k)
                               /\ \A l \in bad : k <= l
      BY <3>2
    <3>4. PICK a \in C : a = END - k
      BY <3>3
    <3>5. a # END
      <4>1. w[END] = {END}
        BY <1>1, <1>4, <1>9
      <4>2. w[END] = FromNode(C, END)
        BY <4>1, <1>2
      <4> QED
        BY <4>2, <3>3, <3>4
    <3>6. PICK next \in C : /\ next = NextNode(pool, a) /\ a < next /\ a \in Nat
                            /\ FromNode(C, a) = {a} \cup FromNode(C, next)
      <4>1. a \in C \ {END}
        BY <3>5
      <4> QED
        BY <4>1, FromNext
    <3>7. next \in Nat /\ next <= END /\ FIRST <= next /\ a \in Addresses
      BY <1>1, <3>6, Places2
    <3>8. END - next \in 0..POOL /\ END - (END - next) = next /\ ~(k <= END - next)
      BY <2>1, <3>4, <3>6, <3>7
    <3>9. w[next] = FromNode(C, next)
      <4>1. END - next \notin bad
        BY <3>3, <3>8
      <4> QED
        BY <4>1, <3>6, <3>8
    <3>10. w[a] = {a} \cup w[next]
      BY <3>4, <3>5, <3>6, <3>7, <1>5, <1>9
    <3> QED
      BY <3>3, <3>4, <3>6, <3>9, <3>10
  <2>3. ASSUME NEW a \in C PROVE w[a] = FromNode(C, a)
    <3>1. a \in Nat /\ FIRST <= a /\ a <= END
      BY <1>1, Places2
    <3>2. END - a \in 0..POOL /\ END - (END - a) = a
      BY <2>1, <3>1
    <3>3. END - a \notin bad
      BY <2>2
    <3> QED
      BY <3>2, <3>3
  <2> QED
    BY <2>3
<1>11. FromNode(C, FIRST) = C
  <2>1. \A b \in C : b >= FIRST
    BY <1>1, Places2
  <2> QED
    BY <2>1 DEF FromNode
<1>12. Chain = Walk[FIRST]
  BY DEF Chain, Walk, ChainStep
<1> QED
  BY <1>1, <1>8, <1>10, <1>11, <1>12

-----------------------------------------------------------------------------
(* What always holds *)

LEMMA SoundIsConsistent == HeapInv => ChainConsistent
<1> SUFFICES ASSUME HeapInv PROVE ChainConsistent
  OBVIOUS
<1>1. PICK C : Open(pool, C, {})
  BY DEF HeapInv, Sound
<1>2. Chain = C
  BY <1>1, ChainIs
<1> DEFINE F == {a \in C \ {} : ~pool.head[a].used}
<1>3. /\ Chained(pool.head, C) /\ Listed(pool, F)
      /\ \A a \in C \ ({} \cup {END}) : pool.head[a].used \/ pool.head[a + pool.head[a].size].used
  BY <1>1 DEF Open
<1>4. /\ Chain \subseteq Addresses /\ END \in Chain
      /\ pool.head[FIRST].prev = END /\ pool.head[END].used
  BY <1>2, <1>3 DEF Chained
<1>5. ASSUME NEW a \in Chain \ {END}
      PROVE  LET next == NextNode(pool, a) IN
             /\ pool.head[next].prev = a
             /\ pool.head[a].used \/ pool.head[next].used
  BY <1>2, <1>3 DEF Chained, NextNode
<1>6. ASSUME NEW i \in Lists
      PROVE  /\ IsInjective(pool.freeList[i])
             /\ ToSet(pool.freeList[i]) =
                  {a \in Chain : ~pool.head[a].used /\ FreeListIndexGet(pool.head[a].size) = i}
             /\ i \in pool.bitmap <=> pool.freeList[i] # <<>>
  <2>1. /\ IsInjective(pool.freeList[i])
        /\ ToSet(pool.freeList[i]) = {a \in F : FreeListIndexGet(pool.head[a].size) = i}
        /\ i \in pool.bitmap <=> pool.freeList[i] # <<>>
    BY <1>3 DEF Listed
  <2>2. {a \in F : FreeListIndexGet(pool.head[a].size) = i}
          = {a \in Chain : ~pool.head[a].used /\ FreeListIndexGet(pool.head[a].size) = i}
    BY <1>2
  <2> QED
    BY <2>1, <2>2
<1> QED
  BY <1>4, <1>5, <1>6, Zenon DEF ChainConsistent

LEMMA SoundIsOwned == HeapInv => BlocksOwned
<1> SUFFICES ASSUME HeapInv PROVE BlocksOwned
  OBVIOUS
<1>1. PICK C : Open(pool, C, {})
  BY DEF HeapInv, Sound
<1>2. Chain = C /\ C \in SUBSET Addresses
  BY <1>1, ChainIs DEF Open, Chained
<1>3. Tracks(pool, blocks) /\ Gone(pool, stale)
  BY DEF HeapInv, Sound
<1>4. {a \in Chain \ {END} : pool.head[a].used} = {NodeOf(b) : b \in blocks}
  <2>1. ASSUME NEW a \in Chain \ {END}, pool.head[a].used PROVE \E b \in blocks : NodeOf(b) = a
    BY <2>1, <1>2, <1>3 DEF Tracks
  <2>2. ASSUME NEW b \in blocks
        PROVE  NodeOf(b) \in Chain \ {END} /\ pool.head[NodeOf(b)].used
    <3>1. PICK a : a = NodeOf(b)
      OBVIOUS
    <3>2. a \in Addresses \ {END} /\ pool.head[a].used
      BY <3>1, <1>3 DEF Tracks
    <3>3. a \in C \ {END}
      BY <3>2, <1>1, OpenSizes
    <3> QED
      BY <3>1, <3>2, <3>3, <1>2
  <2> QED
    BY <2>1, <2>2
<1>5. /\ \A b, c \in blocks : NodeOf(b) = NodeOf(c) => b = c
      /\ \A b \in blocks : b.ptr + b.size <= NextNode(pool, NodeOf(b))
  BY <1>3 DEF Tracks, NextNode
<1>6. \A b \in stale : ~CheckUsedNode(pool, NodeOf(b))
  BY <1>3 DEF Gone, CheckUsedNode
<1> QED
  BY <1>4, <1>5, <1>6 DEF BlocksOwned

LEMMA SoundIsSearched == HeapInv => SearchComplete
<1> SUFFICES ASSUME HeapInv, NEW size \in HEAD + MIN_ALLOC .. POOL
             PROVE  LET fitting == {a \in Chain : ~pool.head[a].used /\ pool.head[a].size >= size}
                    IN  /\ fitting # {} <=> FindSuitable(pool, size) # {}
                        /\ \A found \in FindSuitable(pool, size) : found.node \in fitting
  BY DEF SearchComplete
<1>1. PICK C : Open(pool, C, {})
  BY DEF HeapInv, Sound
<1>2. Chain = C
  BY <1>1, ChainIs
<1>3. size \in 1..(USED_FLAG - 1)
  BY Parameters DEF HEAD, MIN_ALLOC
<1>4. /\ \A found \in FindSuitable(pool, size) : Fits(pool, C, found, size)
      /\ (\E a \in C : ~pool.head[a].used /\ pool.head[a].size >= size)
           => FindSuitable(pool, size) # {}
  BY <1>1, <1>3, SearchIs
<1>5. \A found \in FindSuitable(pool, size) :
        found.node \in {a \in C : ~pool.head[a].used /\ pool.head[a].size >= size}
  BY <1>4 DEF Fits
<1> QED
  BY <1>2, <1>4, <1>5

(***************************************************************************)
(* The pool is one chain of nodes without two free ones side by side, and  *)
(* the free lists and the bitmap have its free nodes, each in the list of  *)
(* its size, whatever calls of LOS_MemAlloc, LOS_MemAllocAlign,            *)
(* LOS_MemFree and LOS_MemRealloc come in which order.                     *)
(***************************************************************************)
THEOREM PoolAlwaysSound == HeapSpec => []ChainConsistent
<1>1. HeapSpec => []HeapInv
  BY HeapAlways
<1>2. HeapInv => ChainConsistent
  BY SoundIsConsistent
<1> QED
  BY <1>1, <1>2, PTL

(***************************************************************************)
(* The used nodes are those of the callers' blocks, one each, with room    *)
(* for the block; a block that LOS_MemFree or LOS_MemRealloc took back is  *)
(* refused until it is handed out again.                                   *)
(***************************************************************************)
THEOREM BlocksAreOwned == HeapSpec => []BlocksOwned
<1>1. HeapSpec => []HeapInv
  BY HeapAlways
<1>2. HeapInv => BlocksOwned
  BY SoundIsOwned
<1> QED
  BY <1>1, <1>2, PTL

(***************************************************************************)
(* OsMemFindNextSuitableBlock finds a free node exactly when one is large  *)
(* enough.                                                                 *)
(***************************************************************************)
THEOREM SearchMissesNone == HeapSpec => []SearchComplete
<1>1. HeapSpec => []HeapInv
  BY HeapAlways
<1>2. HeapInv => SearchComplete
  BY SoundIsSearched
<1> QED
  BY <1>1, <1>2, PTL

(***************************************************************************)
(* The checks of OsMemFree and OsMemRealloc (OsMemCheckUsedNode) never     *)
(* refuse a block that a caller has.                                       *)
(***************************************************************************)
OwnersPass == \A b \in blocks : CheckUsedNode(pool, NodeOf(b))

THEOREM OwnersAlwaysPass == HeapSpec => []OwnersPass
<1>1. HeapSpec => []HeapInv
  BY HeapAlways
<1>2. HeapInv => OwnersPass
  <2> SUFFICES ASSUME HeapInv, NEW b \in blocks PROVE CheckUsedNode(pool, NodeOf(b))
    BY DEF OwnersPass
  <2>1. PICK C : Open(pool, C, {})
    BY DEF HeapInv, Sound
  <2>2. PICK a : a = NodeOf(b)
    OBVIOUS
  <2>3. a \in Addresses \ {END} /\ pool.head[a].used
    BY <2>2 DEF HeapInv, Sound, Tracks
  <2>4. a \in C \ {END}
    BY <2>1, <2>3, OpenSizes
  <2>5. Chained(pool.head, C) /\ C \in SUBSET Addresses
    BY <2>1 DEF Open, Chained
  <2>6. NextNode(pool, a) \in Addresses /\ pool.head[NextNode(pool, a)].prev = a
    BY <2>4, <2>5 DEF Chained, NextNode
  <2>7. a = FIRST \/ (pool.head[a].prev \in Addresses /\ NextNode(pool, pool.head[a].prev) = a)
    BY <2>4, <2>5 DEF Chained, NextNode
  <2> QED
    BY <2>2, <2>3, <2>6, <2>7 DEF CheckUsedNode
<1> QED
  BY <1>1, <1>2, PTL

-----------------------------------------------------------------------------
(***************************************************************************)
(*                           The software timers                           *)
(***************************************************************************)

Modes == {"ONCE", "PERIOD", "NO_SELFDELETE"}
States == {"UNUSED", "CREATED", "TICKING"}
TimerNodes == [timer : Timers, left : Int]
AlignData == [canAlign : BOOLEAN, isAligned : BOOLEAN, times : Nat]
Ids == [timer : Timers, lap : Nat]

Typed ==
  /\ ucState \in [Timers -> States]
  /\ setting \in [Timers -> [mode : Modes, interval : Nat, sensitive : BOOLEAN]]
  /\ lap \in [Timers -> Nat]
  /\ g_swtmrAlignID \in [Timers -> AlignData]
  /\ swtmrId \in [Callers -> SUBSET Ids]
  /\ creator \in [Timers -> Callers \cup {NoCaller}]

Ticking == {t \in Timers : ucState[t] = "TICKING"}
Unused == {t \in Timers : ucState[t] = "UNUSED"}

\* The sorted list link has the timers of the set ts, each once.
LinkHolds(link, ts) ==
  /\ link \in Seq(TimerNodes)
  /\ \A i, j \in DOMAIN link : link[i].timer = link[j].timer => i = j
  /\ {link[i].timer : i \in DOMAIN link} = ts
  /\ \A i, j \in DOMAIN link : i < j => link[i].left <= link[j].left

ListsInv ==
  /\ LinkHolds(g_swtmrSortLinkList, Ticking)
  /\ g_swtmrFreeList \in Seq(Timers)
  /\ IsInjective(g_swtmrFreeList)
  /\ ToSet(g_swtmrFreeList) = Unused

(***************************************************************************)
(* Alignment data are those of the timer that uses the block, and no timer *)
(* is further away than its interval.                                      *)
(***************************************************************************)
WithinInterval(link) ==
  \A x \in ToSet(link) : x.left <= Interval(x.timer) * CYCLES

AlignInv(t, align) ==
  /\ align[t].canAlign => Mode(t) = "PERIOD" /\ ~setting[t].sensitive
  /\ align[t].times > 0 => Interval(t) = align[t].times * DIVISOR

BlockInv ==
  /\ \A t \in Timers : ucState[t] # "UNUSED" => Interval(t) >= 1
  /\ ~misused => /\ \A t \in Timers : AlignInv(t, g_swtmrAlignID)
                 /\ \A t \in Unused : g_swtmrAlignID[t] = NotAligned
                 /\ WithinInterval(g_swtmrSortLinkList)

\* No caller has an ID that its block will only get later.
IdInv ==
  /\ \A c \in Callers : \A id \in swtmrId[c] : id.lap <= lap[id.timer]
  /\ OwnTimer

SwtmrInv == Typed /\ ListsInv /\ BlockInv /\ IdInv
-----------------------------------------------------------------------------
(* The sorted list *)

LEMMA LinkType ==
  ASSUME NEW link \in Seq(TimerNodes)
  PROVE  /\ Len(link) \in Nat /\ DOMAIN link = 1..Len(link)
         /\ \A i \in DOMAIN link : link[i] \in TimerNodes
         /\ \A i \in DOMAIN link : link[i].timer \in Timers /\ link[i].left \in Int
<1>1. Len(link) \in Nat /\ DOMAIN link = 1..Len(link)
  BY LenProperties
<1>2. \A i \in DOMAIN link : link[i] \in TimerNodes
  BY <1>1, ElementOfSeq
<1> QED
  BY <1>1, <1>2 DEF TimerNodes

\* OsDeleteSortLink takes the node of the timer out, and no other.
LEMMA RemovedHold ==
  ASSUME NEW link, NEW ts, LinkHolds(link, ts), NEW t
  PROVE  /\ LinkHolds(Removed(link, t), ts \ {t})
         /\ ToSet(Removed(link, t)) = {x \in ToSet(link) : x.timer # t}
<1> DEFINE K == {i \in DOMAIN link : link[i].timer # t}
           r == KeepAt(link, K)
<1>0. /\ link \in Seq(TimerNodes)
      /\ \A i, j \in DOMAIN link : link[i].timer = link[j].timer => i = j
      /\ {link[i].timer : i \in DOMAIN link} = ts
      /\ \A i, j \in DOMAIN link : i < j => link[i].left <= link[j].left
  BY DEF LinkHolds
<1>1. K \in SUBSET DOMAIN link /\ Removed(link, t) = r
  BY DEF Removed
<1>5. \A i \in DOMAIN link : i \in K <=> link[i].timer # t
  OBVIOUS
<1> HIDE DEF K
<1>2. /\ r \in Seq(TimerNodes)
      /\ \A k \in DOMAIN r : \E i \in K : r[k] = link[i]
      /\ \A i \in K : \E k \in DOMAIN r : r[k] = link[i]
  BY <1>0, <1>1, KeepAtElements
<1>3. \A k, l \in DOMAIN r : k < l => \E i, j \in K : i < j /\ r[k] = link[i] /\ r[l] = link[j]
  BY <1>0, <1>1, KeepAtOrder
<1>4. DOMAIN r = 1..Len(r) /\ Len(r) \in Nat /\ DOMAIN link = 1..Len(link)
  BY <1>0, <1>2, LinkType
<1> HIDE DEF r
<1>6. ASSUME NEW k \in DOMAIN r, NEW l \in DOMAIN r, r[k].timer = r[l].timer
      PROVE  k = l
  <2>1. ASSUME NEW a \in DOMAIN r, NEW b \in DOMAIN r, a < b PROVE r[a].timer # r[b].timer
    <3>1. PICK i \in K, j \in K : i < j /\ r[a] = link[i] /\ r[b] = link[j]
      BY <1>3, <2>1
    <3>2. i \in DOMAIN link /\ j \in DOMAIN link /\ i # j
      BY <3>1, <1>1, <1>4
    <3> QED
      BY <3>1, <3>2, <1>0
  <2>2. k < l \/ l < k \/ k = l
    BY <1>4
  <2> QED
    BY <2>1, <2>2, <1>6
<1>7. \A k, l \in DOMAIN r : k < l => r[k].left <= r[l].left
  BY <1>0, <1>1, <1>3
<1>8. {r[k].timer : k \in DOMAIN r} = ts \ {t}
  <2>1. ASSUME NEW k \in DOMAIN r PROVE r[k].timer \in ts \ {t}
    <3>1. PICK i \in K : r[k] = link[i]
      BY <1>2
    <3> QED
      BY <3>1, <1>0, <1>1, <1>5
  <2>2. ASSUME NEW u \in ts \ {t} PROVE \E k \in DOMAIN r : u = r[k].timer
    <3>1. PICK i \in DOMAIN link : u = link[i].timer
      BY <1>0
    <3>2. i \in K
      BY <3>1, <1>5
    <3> QED
      BY <3>1, <3>2, <1>2
  <2> QED
    BY <2>1, <2>2
<1>9. ToSet(r) = {x \in ToSet(link) : x.timer # t}
  <2>1. ASSUME NEW k \in DOMAIN r PROVE r[k] \in {x \in ToSet(link) : x.timer # t}
    <3>1. PICK i \in K : r[k] = link[i]
      BY <1>2
    <3> QED
      BY <3>1, <1>1, <1>5 DEF ToSet
  <2>2. ASSUME NEW x \in ToSet(link), x.timer # t PROVE \E k \in DOMAIN r : x = r[k]
    <3>1. PICK i \in DOMAIN link : x = link[i]
      BY DEF ToSet
    <3>2. i \in K
      BY <3>1, <2>2, <1>5
    <3> QED
      BY <3>1, <3>2, <1>2
  <2> QED
    BY <2>1, <2>2 DEF ToSet
<1> QED
  BY <1>1, <1>2, <1>6, <1>7, <1>8, <1>9 DEF LinkHolds

\* OsAddNode2SortLink adds the node, and no other.
LEMMA LinkedHold ==
  ASSUME NEW link, NEW ts, LinkHolds(link, ts), NEW node \in TimerNodes, node.timer \notin ts
  PROVE  /\ LinkHolds(Linked(link, node), ts \cup {node.timer})
         /\ ToSet(Linked(link, node)) = ToSet(link) \cup {node}
<1> DEFINE r == Linked(link, node)
           n == Len(link)
<1>0. /\ link \in Seq(TimerNodes)
      /\ \A i, j \in DOMAIN link : link[i].timer = link[j].timer => i = j
      /\ {link[i].timer : i \in DOMAIN link} = ts
      /\ \A i, j \in DOMAIN link : i < j => link[i].left <= link[j].left
  BY DEF LinkHolds
<1>1. n \in Nat /\ DOMAIN link = 1..n
  BY <1>0, LinkType
<1>2. \A x \in TimerNodes : x.left \in Int
  BY DEF TimerNodes
<1>3. /\ r \in Seq(TimerNodes) /\ DOMAIN r = 1..(n + 1)
      /\ \E k \in 1..(n + 1) : \A i \in 1..(n + 1) :
           \/ i < k /\ i \in 1..n /\ r[i] = link[i]
           \/ i = k /\ r[i] = node
           \/ i > k /\ i - 1 \in 1..n /\ r[i] = link[i - 1]
      /\ \A i, j \in DOMAIN r : i < j => r[i].left <= r[j].left
  <2>1. link \in Seq(TimerNodes) /\ node \in TimerNodes
    BY <1>0
  <2>2. \A i, j \in DOMAIN link : i < j => link[i].left <= link[j].left
    BY <1>0
  <2> QED
    BY <1>2, <2>1, <2>2, LinkedPlace
<1> HIDE DEF r
<1>4. PICK k \in 1..(n + 1) : \A i \in 1..(n + 1) :
        \/ i < k /\ i \in 1..n /\ r[i] = link[i]
        \/ i = k /\ r[i] = node
        \/ i > k /\ i - 1 \in 1..n /\ r[i] = link[i - 1]
  BY <1>3
<1>5. \A i \in 1..n : link[i].timer # node.timer
  BY <1>0, <1>1
<1>6. ASSUME NEW i \in 1..(n + 1), NEW j \in 1..(n + 1), r[i].timer = r[j].timer
      PROVE  i = j
  <2>1. \A a, b \in 1..n : link[a].timer = link[b].timer => a = b
    BY <1>0, <1>1
  <2>2. CASE i = k
    <3>1. r[i] = node
      BY <2>2, <1>4, <1>1
    <3>2. CASE j < k
      BY <3>1, <3>2, <1>1, <1>4, <1>5, <1>6
    <3>3. CASE j > k
      BY <3>1, <3>3, <1>1, <1>4, <1>5, <1>6
    <3> QED
      BY <3>2, <3>3, <2>2, <1>1
  <2>3. CASE i < k
    <3>1. i \in 1..n /\ r[i] = link[i]
      BY <2>3, <1>4, <1>1
    <3>2. CASE j < k
      BY <3>1, <3>2, <1>1, <1>4, <2>1, <1>6
    <3>3. CASE j = k
      BY <3>1, <3>3, <1>1, <1>4, <1>5, <1>6
    <3>4. CASE j > k
      <4>1. j - 1 \in 1..n /\ r[j] = link[j - 1]
        BY <3>4, <1>4, <1>1
      <4>2. i = j - 1
        BY <3>1, <4>1, <2>1, <1>6
      <4> QED
        BY <4>2, <2>3, <3>4, <1>1
    <3> QED
      BY <3>2, <3>3, <3>4, <1>1
  <2>4. CASE i > k
    <3>1. i - 1 \in 1..n /\ r[i] = link[i - 1]
      BY <2>4, <1>4, <1>1
    <3>2. CASE j < k
      <4>1. j \in 1..n /\ r[j] = link[j]
        BY <3>2, <1>4, <1>1
      <4>2. j = i - 1
        BY <3>1, <4>1, <2>1, <1>6
      <4> QED
        BY <4>2, <2>4, <3>2, <1>1
    <3>3. CASE j = k
      BY <3>1, <3>3, <1>1, <1>4, <1>5, <1>6
    <3>4. CASE j > k
      <4>1. j - 1 \in 1..n /\ r[j] = link[j - 1]
        BY <3>4, <1>4, <1>1
      <4>2. i - 1 = j - 1
        BY <3>1, <4>1, <2>1, <1>6
      <4> QED
        BY <4>2, <1>1
    <3> QED
      BY <3>2, <3>3, <3>4, <1>1
  <2> QED
    BY <2>2, <2>3, <2>4, <1>1
<1>7. r[k] = node
  BY <1>4, <1>1
<1>8. ASSUME NEW i \in 1..n PROVE \E l \in 1..(n + 1) : r[l] = link[i]
  <2>1. CASE i < k
    <3>1. i \in 1..(n + 1) /\ r[i] = link[i]
      BY <2>1, <1>1, <1>4
    <3> QED
      BY <3>1
  <2>2. CASE ~(i < k)
    <3>1. i + 1 \in 1..(n + 1) /\ i + 1 > k /\ (i + 1) - 1 = i
      BY <2>2, <1>1
    <3>2. r[i + 1] = link[i]
      BY <3>1, <1>1, <1>4
    <3> QED
      BY <3>1, <3>2
  <2> QED
    BY <2>1, <2>2
<1>9. \A i \in 1..(n + 1) : r[i] = node \/ \E j \in 1..n : r[i] = link[j]
  BY <1>4
<1>10. ToSet(r) = ToSet(link) \cup {node}
  <2>1. ToSet(r) = {r[i] : i \in 1..(n + 1)} /\ ToSet(link) = {link[i] : i \in 1..n}
    BY <1>1, <1>3 DEF ToSet
  <2> QED
    BY <2>1, <1>7, <1>8, <1>9
<1>11. {r[i].timer : i \in DOMAIN r} = ts \cup {node.timer}
  <2>1. ASSUME NEW i \in 1..(n + 1) PROVE r[i].timer \in ts \cup {node.timer}
    BY <1>0, <1>1, <1>9
  <2>2. ASSUME NEW u \in ts PROVE \E i \in 1..(n + 1) : u = r[i].timer
    <3>1. PICK i \in 1..n : u = link[i].timer
      BY <1>0, <1>1
    <3> QED
      BY <3>1, <1>8
  <2> QED
    BY <2>1, <2>2, <1>3, <1>7
<1> QED
  BY <1>3, <1>6, <1>10, <1>11 DEF LinkHolds, r

\* The scan takes the first node.
LEMMA TailHold ==
  ASSUME NEW link, NEW ts, LinkHolds(link, ts), link # <<>>
  PROVE  /\ Head(link) \in TimerNodes /\ Head(link).timer \in ts
         /\ Head(link) = link[1] /\ 1 \in DOMAIN link
         /\ LinkHolds(Tail(link), ts \ {Head(link).timer})
         /\ ToSet(Tail(link)) = {x \in ToSet(link) : x.timer # Head(link).timer}
<1> DEFINE n == Len(link)
<1>0. /\ link \in Seq(TimerNodes)
      /\ \A i, j \in DOMAIN link : link[i].timer = link[j].timer => i = j
      /\ {link[i].timer : i \in DOMAIN link} = ts
      /\ \A i, j \in DOMAIN link : i < j => link[i].left <= link[j].left
  BY DEF LinkHolds
<1>1. /\ n \in Nat /\ n >= 1 /\ DOMAIN link = 1..n
      /\ Head(link) = link[1] /\ 1 \in 1..n
      /\ Tail(link) \in Seq(TimerNodes)
      /\ DOMAIN Tail(link) = 1..(n - 1)
      /\ \A i \in 1..(n - 1) : Tail(link)[i] = link[i + 1]
  BY <1>0
<1>2. /\ \A i \in 1..(n - 1) : i + 1 \in 1..n /\ i + 1 # 1
      /\ \A i \in 1..n : i # 1 => i - 1 \in 1..(n - 1) /\ (i - 1) + 1 = i
  BY <1>1
<1>3. \A i, j \in 1..(n - 1) : Tail(link)[i].timer = Tail(link)[j].timer => i = j
  <2> SUFFICES ASSUME NEW i \in 1..(n - 1), NEW j \in 1..(n - 1),
                      Tail(link)[i].timer = Tail(link)[j].timer
               PROVE  i = j
    OBVIOUS
  <2>1. i + 1 = j + 1
    BY <1>0, <1>1, <1>2
  <2> QED
    BY <2>1, <1>1
<1>4. \A i, j \in 1..(n - 1) : i < j => Tail(link)[i].left <= Tail(link)[j].left
  <2> SUFFICES ASSUME NEW i \in 1..(n - 1), NEW j \in 1..(n - 1), i < j
               PROVE  Tail(link)[i].left <= Tail(link)[j].left
    OBVIOUS
  <2>1. i + 1 < j + 1
    BY <1>1
  <2> QED
    BY <2>1, <1>0, <1>1, <1>2
<1>5. \A i \in 1..n : i # 1 => link[i].timer # link[1].timer
  BY <1>0, <1>1
<1>6. {Tail(link)[i].timer : i \in DOMAIN Tail(link)} = ts \ {Head(link).timer}
  <2>1. ASSUME NEW i \in 1..(n - 1) PROVE Tail(link)[i].timer \in ts \ {Head(link).timer}
    BY <1>0, <1>1, <1>2, <1>5
  <2>2. ASSUME NEW u \in ts \ {Head(link).timer}
        PROVE  \E i \in 1..(n - 1) : u = Tail(link)[i].timer
    <3>1. PICK i \in 1..n : u = link[i].timer
      BY <1>0, <1>1
    <3>2. i - 1 \in 1..(n - 1) /\ Tail(link)[i - 1] = link[i]
      BY <3>1, <1>1, <1>2
    <3> QED
      BY <3>1, <3>2
  <2> QED
    <3>1. {Tail(link)[i].timer : i \in 1..(n - 1)} = ts \ {Head(link).timer}
      <4> DEFINE b == Tail(link)
      <4> HIDE DEF b, n
      <4>1. \A i \in 1..(n - 1) : b[i].timer \in ts \ {Head(link).timer}
        BY <2>1 DEF b
      <4>2. \A u \in ts \ {Head(link).timer} : \E i \in 1..(n - 1) : u = b[i].timer
        BY <2>2 DEF b
      <4>3. {b[i].timer : i \in 1..(n - 1)} = ts \ {Head(link).timer}
        BY <4>1, <4>2
      <4> QED
        BY <4>3 DEF b
    <3> QED
      BY <3>1, <1>1
<1>7. ToSet(Tail(link)) = {x \in ToSet(link) : x.timer # Head(link).timer}
  <2>1. ASSUME NEW i \in 1..(n - 1)
        PROVE  Tail(link)[i] \in {x \in ToSet(link) : x.timer # Head(link).timer}
    BY <1>1, <1>2, <1>5 DEF ToSet
  <2>2. ASSUME NEW x \in ToSet(link), x.timer # Head(link).timer
        PROVE  \E i \in 1..(n - 1) : x = Tail(link)[i]
    <3>1. PICK i \in 1..n : x = link[i]
      BY <1>1 DEF ToSet
    <3>2. i - 1 \in 1..(n - 1) /\ Tail(link)[i - 1] = link[i]
      BY <3>1, <2>2, <1>1, <1>2
    <3> QED
      BY <3>1, <3>2
  <2>3. ToSet(Tail(link)) = {Tail(link)[i] : i \in 1..(n - 1)}
    BY <1>1 DEF ToSet
  <2> QED
    BY <2>1, <2>2, <2>3
<1>8. Head(link) \in TimerNodes /\ Head(link).timer \in ts
  BY <1>0, <1>1, LinkType
<1> QED
  BY <1>1, <1>3, <1>4, <1>6, <1>7, <1>8 DEF LinkHolds

\* A cycle passes for all timers alike.
LEMMA PassedHold ==
  ASSUME NEW ts, LinkHolds(g_swtmrSortLinkList, ts)
  PROVE  /\ LinkHolds(Passed, ts)
         /\ ToSet(Passed) = {[timer |-> x.timer, left |-> x.left - 1] :
                               x \in ToSet(g_swtmrSortLinkList)}
<1> DEFINE link == g_swtmrSortLinkList
           n == Len(link)
<1>0. /\ link \in Seq(TimerNodes)
      /\ \A i, j \in DOMAIN link : link[i].timer = link[j].timer => i = j
      /\ {link[i].timer : i \in DOMAIN link} = ts
      /\ \A i, j \in DOMAIN link : i < j => link[i].left <= link[j].left
  BY DEF LinkHolds
<1>1. /\ n \in Nat /\ DOMAIN link = 1..n
      /\ \A i \in 1..n : link[i] \in TimerNodes
      /\ \A i \in 1..n : link[i].timer \in Timers /\ link[i].left \in Int
  BY <1>0, LinkType
<1>2. DOMAIN Passed = 1..n /\ \A i \in 1..n : Passed[i] = [link[i] EXCEPT !.left = @ - 1]
  BY <1>1 DEF Passed
<1>3. \A i \in 1..n : Passed[i] = [timer |-> link[i].timer, left |-> link[i].left - 1]
  <2>1. \A x \in TimerNodes :
          [x EXCEPT !.left = @ - 1] = [timer |-> x.timer, left |-> x.left - 1]
    BY DEF TimerNodes
  <2> QED
    BY <1>1, <1>2, <2>1
<1>4. \A i \in 1..n : /\ Passed[i] \in TimerNodes
                      /\ Passed[i].timer = link[i].timer /\ Passed[i].left = link[i].left - 1
  <2>1. \A u \in Timers, m \in Int : /\ [timer |-> u, left |-> m - 1] \in TimerNodes
                                     /\ [timer |-> u, left |-> m - 1].timer = u
                                     /\ [timer |-> u, left |-> m - 1].left = m - 1
    BY DEF TimerNodes
  <2> SUFFICES ASSUME NEW i \in 1..n
               PROVE  /\ Passed[i] \in TimerNodes
                      /\ Passed[i].timer = link[i].timer /\ Passed[i].left = link[i].left - 1
    OBVIOUS
  <2>2. link[i].timer \in Timers /\ link[i].left \in Int
    BY <1>1
  <2>3. Passed[i] = [timer |-> link[i].timer, left |-> link[i].left - 1]
    BY <1>3
  <2> HIDE DEF link, n
  <2> QED
    BY <2>1, <2>2, <2>3
<1>5. Passed \in Seq(TimerNodes)
  <2>1. Passed = [i \in 1..n |-> Passed[i]]
    BY <1>1, <1>2 DEF Passed
  <2> QED
    BY <1>1, <1>4, <2>1, IsASeq
<1>6. ToSet(Passed) = {[timer |-> x.timer, left |-> x.left - 1] : x \in ToSet(link)}
  <2>1. ToSet(Passed) = {Passed[i] : i \in 1..n} /\ ToSet(link) = {link[i] : i \in 1..n}
    BY <1>1, <1>2 DEF ToSet
  <2> HIDE DEF link, n
  <2>2. ASSUME NEW i \in 1..n
        PROVE  \E x \in ToSet(link) : Passed[i] = [timer |-> x.timer, left |-> x.left - 1]
    BY <2>1, <1>3
  <2>3. ASSUME NEW x \in ToSet(link)
        PROVE  \E i \in 1..n : Passed[i] = [timer |-> x.timer, left |-> x.left - 1]
    <3>1. PICK i \in 1..n : x = link[i]
      BY <2>1
    <3> QED
      BY <3>1, <1>3
  <2>4. ToSet(Passed) \subseteq {[timer |-> x.timer, left |-> x.left - 1] : x \in ToSet(link)}
    BY <2>1, <2>2
  <2>5. {[timer |-> x.timer, left |-> x.left - 1] : x \in ToSet(link)} \subseteq ToSet(Passed)
    BY <2>1, <2>3
  <2> QED
    BY <2>4, <2>5
<1>7. {Passed[i].timer : i \in DOMAIN Passed} = ts
  <2>1. {link[i].timer : i \in 1..n} = ts
    BY <1>0, <1>1
  <2> HIDE DEF link, n
  <2>2. \A i \in 1..n : Passed[i].timer \in ts
    BY <2>1, <1>4
  <2>3. \A u \in ts : \E i \in 1..n : u = Passed[i].timer
    BY <2>1, <1>4
  <2> QED
    BY <2>2, <2>3, <1>2
<1>8. \A i, j \in 1..n : i < j => Passed[i].left <= Passed[j].left
  <2>1. \A i, j \in 1..n : i < j => link[i].left <= link[j].left
    BY <1>0, <1>1
  <2>2. \A i \in 1..n : link[i].left \in Int
    BY <1>1, <1>3
  <2> HIDE DEF link, n
  <2>3. \A i \in 1..n : Passed[i].left = link[i].left - 1
    BY <1>3, <1>4
  <2> QED
    BY <2>1, <2>2, <2>3
<1>9. \A i, j \in 1..n : Passed[i].timer = Passed[j].timer => i = j
  BY <1>0, <1>1, <1>4
<1> QED
  BY <1>2, <1>5, <1>6, <1>7, <1>8, <1>9 DEF LinkHolds
-----------------------------------------------------------------------------
(* The alignment of periodic timers *)

\* OsSortLinkGetTargetExpireTime rounds down: no more ticks than were to go.
LEMMA TargetBound ==
  ASSUME NEW node \in TimerNodes, NEW interval \in Nat
  PROVE  /\ TargetExpireTime(node) \in Nat
         /\ node.left <= interval * CYCLES => TargetExpireTime(node) <= interval
<1> DEFINE m == IF node.left > 0 THEN node.left ELSE 0
<1>1. node.left \in Int /\ CYCLES \in Nat \ {0}
  BY SwtmrAssumption DEF TimerNodes
<1>2. Max({0, node.left}) = m
  <2>1. m \in {0, node.left} /\ \A y \in {0, node.left} : m >= y
    BY <1>1
  <2>2. \A x \in {0, node.left} : (\A y \in {0, node.left} : x >= y) => x = m
    BY <1>1
  <2> QED
    BY <2>1, <2>2 DEF Max
<1>3. m \in Nat
  BY <1>1
<1>4. TargetExpireTime(node) = m \div CYCLES
  BY <1>2 DEF TargetExpireTime
<1>5. interval * CYCLES \in Nat
  BY <1>1
<1>6. node.left <= interval * CYCLES => m <= interval * CYCLES
  BY <1>1, <1>5
<1> HIDE DEF m
<1>7. m \div CYCLES \in Nat /\ CYCLES * (m \div CYCLES) <= m
  BY <1>1, <1>3
<1>8. ASSUME NEW q \in Nat, CYCLES * q <= m, m <= interval * CYCLES PROVE q <= interval
  <2>1. CASE q >= interval + 1
    <3>1. CYCLES * q >= CYCLES * (interval + 1)
      BY <2>1, <1>1
    <3>2. CYCLES * (interval + 1) = interval * CYCLES + CYCLES
      BY <1>1
    <3> QED
      BY <3>1, <3>2, <1>1, <1>3, <1>5, <1>8
  <2> QED
    BY <2>1
<1> QED
  BY <1>4, <1>6, <1>7, <1>8

\* OsSwtmrCalcAlignCount is at least one tick and at most the interval.
LEMMA CalcBound ==
  ASSUME NEW node \in TimerNodes, setting[node.timer].interval \in Nat,
         NEW interval \in Nat \ {0}
  PROVE  CalcAlignCount(interval, node) \in 1..interval
<1>1. TargetExpireTime(node) \in Nat
  BY TargetBound
<1>2. Interval(node.timer) - TargetExpireTime(node) \in Int
  BY <1>1 DEF Interval
<1>3. (Interval(node.timer) - TargetExpireTime(node)) % interval \in 0..(interval - 1)
  BY <1>2
<1> QED
  BY <1>3 DEF CalcAlignCount

(***************************************************************************)
(* OsSwtmrFindAlignPos returns a number of ticks, and not more than the    *)
(* interval of the timer, whatever it is aligned with.                     *)
(***************************************************************************)
LEMMA AlignBound ==
  ASSUME Typed, NEW t \in Timers, Interval(t) >= 1,
         NEW link \in Seq(TimerNodes), NEW align \in [Timers -> AlignData]
  PROVE  /\ FindAlignPos(t, link, align) \in Nat
         /\ (\A u \in Timers : AlignInv(u, align)) /\ WithinInterval(link)
              => FindAlignPos(t, link, align) <= Interval(t)
<1> DEFINE times(i) == align[link[i].timer].times
           own == align[t].times
           candidates == {i \in DOMAIN link : /\ align[link[i].timer].isAligned
                                              /\ align[link[i].timer].canAlign}
           same == {i \in candidates : Interval(link[i].timer) = Interval(t)}
           multiples == {i \in candidates : own > 0 /\ times(i) >= own /\ times(i) % own = 0}
           divisors == {i \in candidates : times(i) \in 1..(own - 1) /\ own % times(i) = 0}
           smallest == {i \in multiples : \A j \in multiples : times(i) <= times(j)}
           largest == {i \in divisors : \A j \in divisors : times(i) >= times(j)}
           good == (\A u \in Timers : AlignInv(u, align)) /\ WithinInterval(link)
<1>1. /\ DOMAIN link = 1..Len(link) /\ Len(link) \in Nat
      /\ \A i \in DOMAIN link : link[i] \in TimerNodes
      /\ \A i \in DOMAIN link : link[i].timer \in Timers
  BY LinkType
<1>2. /\ \A u \in Timers : Interval(u) \in Nat /\ align[u].times \in Nat
      /\ Interval(t) \in Nat \ {0}
  BY DEF Typed, Interval, AlignData
<1>3. DIVISOR \in Nat \ {0}
  BY SwtmrAssumption
<1>4. \A i \in DOMAIN link : times(i) \in Nat
  BY <1>1, <1>2
<1>5. own \in Nat
  BY <1>2
<1>6. FindAlignPos(t, link, align) =
        IF same # {} THEN TargetExpireTime(link[Min(same)])
        ELSE IF multiples # {} THEN CalcAlignCount(Interval(t), link[Min(smallest)])
        ELSE IF divisors # {} THEN TargetExpireTime(link[Min(largest)])
        ELSE Interval(t)
  BY DEF FindAlignPos
<1>7. ASSUME NEW i \in DOMAIN link
      PROVE  /\ TargetExpireTime(link[i]) \in Nat
             /\ good => TargetExpireTime(link[i]) <= Interval(link[i].timer)
  <2>1. link[i] \in TimerNodes /\ Interval(link[i].timer) \in Nat
    BY <1>1, <1>2
  <2>2. good => link[i].left <= Interval(link[i].timer) * CYCLES
    BY DEF WithinInterval, ToSet
  <2> HIDE DEF good
  <2> QED
    BY <2>1, <2>2, TargetBound
<1>8. candidates \subseteq DOMAIN link /\ \A S \in SUBSET candidates : S \in SUBSET Nat
  BY <1>1
<1>9. CASE same # {}
  <2>1. same \in SUBSET Nat
    BY <1>8
  <2>2. Min(same) \in same
    <3> HIDE DEF same
    <3> QED
      BY <2>1, <1>9, LeastNatural
  <2>3. Min(same) \in DOMAIN link /\ Interval(link[Min(same)].timer) = Interval(t)
    BY <2>2
  <2>4. FindAlignPos(t, link, align) = TargetExpireTime(link[Min(same)])
    BY <1>6, <1>9
  <2> HIDE DEF same, good
  <2>5. /\ TargetExpireTime(link[Min(same)]) \in Nat
        /\ good => TargetExpireTime(link[Min(same)]) <= Interval(link[Min(same)].timer)
    BY <2>3, <1>7
  <2>6. /\ FindAlignPos(t, link, align) \in Nat
        /\ good => FindAlignPos(t, link, align) <= Interval(t)
    BY <2>3, <2>4, <2>5
  <2> QED
    BY <2>6 DEF good
<1>10. CASE same = {} /\ multiples # {}
  <2>1. smallest # {}
    <3> DEFINE S == {times(i) : i \in multiples}
    <3>1. S \in SUBSET Nat /\ S # {}
      <4>1. multiples \subseteq DOMAIN link
        OBVIOUS
      <4> HIDE DEF multiples, times
      <4> QED
        BY <4>1, <1>4, <1>10
    <3>2. Min(S) \in S /\ \A n \in S : Min(S) <= n
      <4> HIDE DEF S
      <4> QED
        BY <3>1, LeastNatural
    <3>3. PICK i \in multiples : times(i) = Min(S)
      BY <3>2
    <3>4. \A j \in multiples : times(i) <= times(j)
      BY <3>2, <3>3
    <3> QED
      BY <3>3, <3>4
  <2>2. smallest \in SUBSET Nat /\ smallest \subseteq DOMAIN link
    BY <1>8
  <2> HIDE DEF smallest
  <2>3. Min(smallest) \in DOMAIN link
    BY <2>1, <2>2, LeastNatural
  <2>4. FindAlignPos(t, link, align) = CalcAlignCount(Interval(t), link[Min(smallest)])
    BY <1>6, <1>10
  <2>5. link[Min(smallest)] \in TimerNodes /\ setting[link[Min(smallest)].timer].interval \in Nat
    BY <2>3, <1>1, <1>2 DEF Interval
  <2>6. CalcAlignCount(Interval(t), link[Min(smallest)]) \in 1..Interval(t)
    BY <2>5, <1>2, CalcBound
  <2> QED
    BY <2>4, <2>6, <1>2
<1>11. CASE same = {} /\ multiples = {} /\ divisors # {}
  <2>1. largest # {}
    <3> DEFINE S == {own - times(i) : i \in divisors}
    <3>1. S \in SUBSET Nat /\ S # {}
      <4>1. \A i \in divisors : times(i) \in 1..(own - 1)
        OBVIOUS
      <4> HIDE DEF divisors, times, own
      <4> QED
        BY <4>1, <1>5, <1>11
    <3>2. Min(S) \in S /\ \A n \in S : Min(S) <= n
      <4> HIDE DEF S
      <4> QED
        BY <3>1, LeastNatural
    <3>3. PICK i \in divisors : own - times(i) = Min(S)
      BY <3>2
    <3>4. ASSUME NEW j \in divisors PROVE times(i) >= times(j)
      <4>1. own - times(i) <= own - times(j)
        BY <3>2, <3>3
      <4>2. times(i) \in Nat /\ times(j) \in Nat
        BY <1>4
      <4> QED
        BY <4>1, <4>2, <1>5
    <3> QED
      BY <3>3, <3>4
  <2>2. largest \in SUBSET Nat /\ largest \subseteq divisors
    BY <1>8
  <2> DEFINE i == Min(largest)
  <2>3. i \in divisors
    <3> HIDE DEF largest, divisors
    <3> QED
      BY <2>1, <2>2, LeastNatural
  <2>4. FindAlignPos(t, link, align) = TargetExpireTime(link[i])
    BY <1>6, <1>11
  <2>5. i \in DOMAIN link /\ times(i) \in 1..(own - 1)
    BY <2>3
  <2> HIDE DEF i
  <2>6. ASSUME good PROVE Interval(link[i].timer) <= Interval(t)
    <3>1. /\ Interval(t) = own * DIVISOR
          /\ Interval(link[i].timer) = times(i) * DIVISOR
      BY <2>5, <2>6, <1>1, <1>5 DEF AlignInv
    <3>2. \A a, b \in Nat : a < b => a * DIVISOR <= b * DIVISOR
      BY <1>3
    <3>3. times(i) \in Nat /\ times(i) < own
      BY <2>5, <1>5
    <3> HIDE DEF times, own
    <3> QED
      BY <3>1, <3>2, <3>3, <1>5
  <2>7. Interval(link[i].timer) \in Nat
    BY <2>5, <1>1, <1>2
  <2>8. /\ TargetExpireTime(link[i]) \in Nat
        /\ good => TargetExpireTime(link[i]) <= Interval(link[i].timer)
    BY <2>5, <1>7
  <2> HIDE DEF good
  <2>9. /\ FindAlignPos(t, link, align) \in Nat
        /\ good => FindAlignPos(t, link, align) <= Interval(t)
    BY <2>4, <2>6, <2>7, <2>8, <1>2
  <2> QED
    BY <2>9 DEF good
<1>12. CASE same = {} /\ multiples = {} /\ divisors = {}
  <2> HIDE DEF same, multiples, divisors
  <2>1. FindAlignPos(t, link, align) = Interval(t)
    BY <1>6, <1>12
  <2> QED
    BY <2>1, <1>2
<1> QED
  BY <1>9, <1>10, <1>11, <1>12

(***************************************************************************)
(* OsSwtmrStart links the timer, with all of its interval ahead if it is   *)
(* not to be aligned, and never with more than that.                       *)
(***************************************************************************)
Started(t, ts, link, align) ==
  /\ ucState' = [ucState EXCEPT ![t] = "TICKING"]
  /\ g_swtmrAlignID' \in [Timers -> AlignData]
  /\ \A u \in Timers : /\ u # t => g_swtmrAlignID'[u] = align[u]
                       /\ g_swtmrAlignID'[u].canAlign = align[u].canAlign
                       /\ g_swtmrAlignID'[u].times = align[u].times
  /\ LinkHolds(g_swtmrSortLinkList', ts \cup {t})
  /\ \E left \in Int :
       /\ ToSet(g_swtmrSortLinkList') = ToSet(link) \cup {[timer |-> t, left |-> left]}
       /\ ~align[t].canAlign => left = Interval(t) * CYCLES
       /\ (\A u \in Timers : AlignInv(u, align)) /\ WithinInterval(link)
            => left <= Interval(t) * CYCLES

LEMMA StartHolds ==
  ASSUME Typed, NEW t \in Timers, Interval(t) >= 1,
         NEW ts, NEW link, LinkHolds(link, ts), t \notin ts,
         NEW align \in [Timers -> AlignData],
         OsSwtmrStart(t, link, align)
  PROVE  Started(t, ts, link, align)
<1> DEFINE first == align[t].canAlign /\ ~align[t].isAligned
           after == IF first THEN [align EXCEPT ![t].isAligned = TRUE] ELSE align
           count == IF first THEN FindAlignPos(t, link, after) ELSE Interval(t)
           node == [timer |-> t, left |-> count * CYCLES]
<1>1. /\ ucState' = [ucState EXCEPT ![t] = "TICKING"]
      /\ g_swtmrAlignID' = after
      /\ g_swtmrSortLinkList' = Linked(link, node)
  BY DEF OsSwtmrStart
<1>2. /\ after \in [Timers -> AlignData]
      /\ \A u \in Timers : /\ u # t => after[u] = align[u]
                           /\ after[u].canAlign = align[u].canAlign
                           /\ after[u].times = align[u].times
  <2>1. \A d \in AlignData : /\ [d EXCEPT !.isAligned = TRUE] \in AlignData
                             /\ [d EXCEPT !.isAligned = TRUE].canAlign = d.canAlign
                             /\ [d EXCEPT !.isAligned = TRUE].times = d.times
    BY DEF AlignData
  <2> QED
    BY <2>1
<1>3. link \in Seq(TimerNodes)
  BY DEF LinkHolds
<1>4. Interval(t) \in Nat /\ CYCLES \in Nat
  BY SwtmrAssumption DEF Typed, Interval
<1>5. /\ FindAlignPos(t, link, after) \in Nat
      /\ (\A u \in Timers : AlignInv(u, after)) /\ WithinInterval(link)
           => FindAlignPos(t, link, after) <= Interval(t)
  <2> HIDE DEF after
  <2> QED
    BY <1>2, <1>3, AlignBound
<1>6. (\A u \in Timers : AlignInv(u, align)) => \A u \in Timers : AlignInv(u, after)
  <2> HIDE DEF after
  <2> QED
    BY <1>2 DEF AlignInv
<1>7. count \in Nat /\ (~align[t].canAlign => count = Interval(t))
  BY <1>4, <1>5
<1>8. (\A u \in Timers : AlignInv(u, align)) /\ WithinInterval(link) => count <= Interval(t)
  <2>1. CASE first
    <3>1. count = FindAlignPos(t, link, after)
      BY <2>1
    <3> HIDE DEF count, after
    <3> QED
      BY <3>1, <1>5, <1>6
  <2>2. CASE ~first
    <3>1. count = Interval(t)
      BY <2>2
    <3> HIDE DEF count
    <3> QED
      BY <3>1, <1>4
  <2> QED
    BY <2>1, <2>2
<1> HIDE DEF count, after
<1>9. count * CYCLES \in Int
  BY <1>4, <1>7
<1>10. node \in TimerNodes /\ node.timer = t
  BY <1>9 DEF TimerNodes
<1>11. count <= Interval(t) => count * CYCLES <= Interval(t) * CYCLES
  BY <1>4, <1>7
<1>12. /\ LinkHolds(Linked(link, node), ts \cup {t})
       /\ ToSet(Linked(link, node)) = ToSet(link) \cup {node}
  <2> HIDE DEF node
  <2> QED
    BY <1>10, LinkedHold
<1>13. \E left \in Int :
         /\ ToSet(g_swtmrSortLinkList') = ToSet(link) \cup {[timer |-> t, left |-> left]}
         /\ ~align[t].canAlign => left = Interval(t) * CYCLES
         /\ (\A u \in Timers : AlignInv(u, align)) /\ WithinInterval(link)
              => left <= Interval(t) * CYCLES
  <2> WITNESS count * CYCLES \in Int
  <2> QED
    BY <1>1, <1>7, <1>8, <1>11, <1>12
<1> QED
  BY <1>1, <1>2, <1>12, <1>13 DEF Started

-----------------------------------------------------------------------------
(***************************************************************************)
(* What a step may do to the time that a timer has left.                   *)
(***************************************************************************)
NotEarly ==
  \A t \in Timers :
    (~misused /\ (setting[t].sensitive \/ Mode(t) # "PERIOD")) =>
      Left(t)' \in {{}, Left(t), {left - 1 : left \in Left(t)}, {Interval(t) * CYCLES}}

\* The times that the list link has for the timer t.
LeftIn(link, t) == {x.left : x \in {y \in ToSet(link) : y.timer = t}}

LEMMA LeftToSet ==
  ASSUME NEW t
  PROVE  Left(t) = LeftIn(g_swtmrSortLinkList, t) /\ Left(t)' = LeftIn(g_swtmrSortLinkList', t)
<1>1. ASSUME NEW link
      PROVE  {link[i].left : i \in {j \in DOMAIN link : link[j].timer = t}} = LeftIn(link, t)
  <2>1. \A i \in {j \in DOMAIN link : link[j].timer = t} : link[i].left \in LeftIn(link, t)
    BY DEF LeftIn, ToSet
  <2>2. ASSUME NEW x \in {y \in ToSet(link) : y.timer = t}
        PROVE  \E i \in {j \in DOMAIN link : link[j].timer = t} : x.left = link[i].left
    BY DEF ToSet
  <2>3. \A v \in LeftIn(link, t) : \E i \in {j \in DOMAIN link : link[j].timer = t} : v = link[i].left
    BY <2>2 DEF LeftIn
  <2> QED
    BY <2>1, <2>3
<1> QED
  BY <1>1 DEF Left, Nodes

\* The list stays as it is, or the node of one timer is taken out.
LEMMA TakenNotEarly ==
  ASSUME \/ g_swtmrSortLinkList' = g_swtmrSortLinkList
         \/ \E u \in Timers : ToSet(g_swtmrSortLinkList') =
                               {x \in ToSet(g_swtmrSortLinkList) : x.timer # u}
  PROVE  NotEarly
<1> SUFFICES ASSUME NEW t \in Timers PROVE Left(t)' \in {{}, Left(t)}
  BY DEF NotEarly
<1>1. CASE g_swtmrSortLinkList' = g_swtmrSortLinkList
  BY <1>1, LeftToSet
<1>2. ASSUME NEW u \in Timers, ToSet(g_swtmrSortLinkList') =
                                {x \in ToSet(g_swtmrSortLinkList) : x.timer # u}
      PROVE  Left(t)' \in {{}, Left(t)}
  <2>1. CASE u = t
    <3>1. {y \in ToSet(g_swtmrSortLinkList') : y.timer = t} = {}
      BY <1>2, <2>1
    <3> QED
      BY <3>1, LeftToSet DEF LeftIn
  <2>2. CASE u # t
    <3>1. {y \in ToSet(g_swtmrSortLinkList') : y.timer = t}
            = {y \in ToSet(g_swtmrSortLinkList) : y.timer = t}
      BY <1>2, <2>2
    <3> QED
      BY <3>1, LeftToSet DEF LeftIn
  <2> QED
    BY <2>1, <2>2
<1> QED
  BY <1>1, <1>2

\* A timer is started: all of its interval is ahead, unless it is to be aligned.
LEMMA StartedNotEarly ==
  ASSUME NEW u \in Timers, NEW left, NEW link,
         ToSet(link) = {x \in ToSet(g_swtmrSortLinkList) : x.timer # u},
         ToSet(g_swtmrSortLinkList') = ToSet(link) \cup {[timer |-> u, left |-> left]},
         ~misused /\ (setting[u].sensitive \/ Mode(u) # "PERIOD") => left = Interval(u) * CYCLES
  PROVE  NotEarly
<1> SUFFICES ASSUME NEW t \in Timers, ~misused /\ (setting[t].sensitive \/ Mode(t) # "PERIOD")
             PROVE  Left(t)' \in {Left(t), {Interval(t) * CYCLES}}
  BY DEF NotEarly
<1> DEFINE node == [timer |-> u, left |-> left]
<1>1. node.timer = u /\ node.left = left /\ ToSet(g_swtmrSortLinkList') = ToSet(link) \cup {node}
  OBVIOUS
<1> HIDE DEF node
<1>2. CASE t = u
  <2>1. {y \in ToSet(g_swtmrSortLinkList') : y.timer = t} = {node}
    BY <1>1, <1>2
  <2>2. Left(t)' = {node.left}
    BY <2>1, LeftToSet DEF LeftIn
  <2> QED
    BY <2>2, <1>1, <1>2
<1>3. CASE t # u
  <2>1. {y \in ToSet(g_swtmrSortLinkList') : y.timer = t}
          = {y \in ToSet(g_swtmrSortLinkList) : y.timer = t}
    BY <1>1, <1>3
  <2> QED
    BY <2>1, LeftToSet DEF LeftIn
<1> QED
  BY <1>2, <1>3

-----------------------------------------------------------------------------
(* The steps *)

LEMMA InitHolds ==
  SwtmrInit => SwtmrInv
<1> SUFFICES ASSUME SwtmrInit PROVE SwtmrInv
  OBVIOUS
<1>1. LIMIT \in Nat \ {0}
  BY SwtmrAssumption
<1>2. \A i \in 1..LIMIT : i - 1 \in Timers
  BY <1>1 DEF Timers
<1>3. Typed
  BY DEF Typed, SwtmrInit, States, Modes, AlignData, NotAligned
<1>4. LinkHolds(g_swtmrSortLinkList, Ticking)
  <2>1. g_swtmrSortLinkList = <<>> /\ Ticking = {}
    BY DEF SwtmrInit, Ticking
  <2>2. LinkHolds(<<>>, {})
    BY DEF LinkHolds
  <2> QED
    BY <2>1, <2>2
<1>5. /\ g_swtmrFreeList \in Seq(Timers)
      /\ DOMAIN g_swtmrFreeList = 1..LIMIT
      /\ \A i \in 1..LIMIT : g_swtmrFreeList[i] = i - 1
  <2>1. g_swtmrFreeList = [i \in 1..LIMIT |-> i - 1]
    BY DEF SwtmrInit
  <2>2. [i \in 1..LIMIT |-> i - 1] \in Seq(Timers)
    BY <1>1, <1>2, IsASeq
  <2> QED
    BY <2>1, <2>2
<1>6. IsInjective(g_swtmrFreeList)
  <2>1. \A i, j \in 1..LIMIT : i - 1 = j - 1 => i = j
    BY <1>1
  <2> QED
    BY <1>5, <2>1 DEF IsInjective
<1>7. ToSet(g_swtmrFreeList) = Unused
  <2>1. Unused = Timers
    BY DEF SwtmrInit, Unused
  <2>2. \A u \in Timers : u + 1 \in 1..LIMIT /\ (u + 1) - 1 = u
    BY <1>1 DEF Timers
  <2>3. ToSet(g_swtmrFreeList) \subseteq Timers
    BY <1>2, <1>5 DEF ToSet
  <2>4. ASSUME NEW u \in Timers PROVE u \in ToSet(g_swtmrFreeList)
    BY <2>2, <1>5 DEF ToSet
  <2> QED
    BY <2>1, <2>3, <2>4
<1>8. BlockInv
  <2>1. \A t \in Timers : ucState[t] = "UNUSED" /\ g_swtmrAlignID[t] = NotAligned
    BY DEF SwtmrInit
  <2>2. \A t \in Timers : AlignInv(t, g_swtmrAlignID)
    BY <2>1 DEF AlignInv, NotAligned
  <2>3. WithinInterval(g_swtmrSortLinkList)
    BY DEF SwtmrInit, WithinInterval, ToSet
  <2> QED
    BY <2>1, <2>2, <2>3 DEF BlockInv, Unused
<1>9. IdInv
  BY DEF SwtmrInit, IdInv, OwnTimer
<1> QED
  BY <1>3, <1>4, <1>5, <1>6, <1>7, <1>8, <1>9 DEF SwtmrInv, ListsInv

\* What LOS_SwtmrStart notes is what the setting of the timer says.
LEMMA NotedHolds ==
  ASSUME Typed, NEW t \in Timers
  PROVE  /\ AlignNoted(t) \in [Timers -> AlignData]
         /\ \A u \in Timers : u # t => AlignNoted(t)[u] = g_swtmrAlignID[u]
         /\ AlignInv(t, g_swtmrAlignID) => AlignInv(t, AlignNoted(t))
         /\ AlignNoted(t)[t].canAlign =>
              g_swtmrAlignID[t].canAlign \/ (Mode(t) = "PERIOD" /\ ~setting[t].sensitive)
<1>1. /\ Interval(t) \in Nat /\ DIVISOR \in Nat \ {0}
      /\ g_swtmrAlignID \in [Timers -> AlignData] /\ g_swtmrAlignID[t] \in AlignData
      /\ setting[t].sensitive \in BOOLEAN
  BY SwtmrAssumption DEF Typed, Interval
<1>2. CASE ~(setting[t].mode = "PERIOD" /\ ~setting[t].sensitive)
  <2>1. AlignNoted(t) = g_swtmrAlignID
    BY <1>2 DEF AlignNoted
  <2> QED
    BY <2>1, <1>1
<1>3. CASE setting[t].mode = "PERIOD" /\ ~setting[t].sensitive
  <2> DEFINE q == IF Interval(t) % DIVISOR = 0 THEN Interval(t) \div DIVISOR
                  ELSE g_swtmrAlignID[t].times
             d == [g_swtmrAlignID[t] EXCEPT !.canAlign = TRUE, !.times = q]
  <2>1. AlignNoted(t) = [g_swtmrAlignID EXCEPT ![t] = d]
    BY <1>1, <1>3 DEF AlignNoted
  <2>2. q \in Nat
    BY <1>1 DEF AlignData
  <2>3. d \in AlignData /\ d.canAlign = TRUE /\ d.times = q
    <3> HIDE DEF q
    <3> QED
      BY <1>1, <2>2 DEF AlignData
  <2>4. AlignInv(t, g_swtmrAlignID) => (q > 0 => Interval(t) = q * DIVISOR)
    <3>1. CASE Interval(t) % DIVISOR = 0
      <4>1. q = Interval(t) \div DIVISOR
        BY <3>1
      <4>2. \A n \in Nat : n % DIVISOR = 0 => n = (n \div DIVISOR) * DIVISOR
        BY <1>1
      <4> QED
        BY <4>1, <4>2, <3>1, <1>1
    <3>2. CASE Interval(t) % DIVISOR # 0
      <4>1. q = g_swtmrAlignID[t].times
        BY <3>2
      <4> QED
        BY <4>1 DEF AlignInv
    <3> QED
      BY <3>1, <3>2
  <2> HIDE DEF d, q
  <2>5. AlignNoted(t) \in [Timers -> AlignData] /\ AlignNoted(t)[t] = d
    BY <2>1, <2>3, <1>1
  <2>6. \A u \in Timers : u # t => AlignNoted(t)[u] = g_swtmrAlignID[u]
    BY <2>1, <1>1
  <2>7. AlignInv(t, g_swtmrAlignID) => AlignInv(t, AlignNoted(t))
    BY <1>3, <2>3, <2>4, <2>5 DEF AlignInv, Mode
  <2> QED
    BY <1>3, <2>5, <2>6, <2>7 DEF Mode
<1> QED
  BY <1>2, <1>3

\* IDs are judged by what a step leaves alone.
LEMMA IdsKept ==
  ASSUME IdInv, lap' = lap, swtmrId' = swtmrId, creator' = creator, Typed,
         \A t \in Timers : ucState[t] # "UNUSED" => ucState'[t] # "UNUSED"
  PROVE  IdInv'
<1>1. \A c \in Callers : \A id \in swtmrId[c] : id.timer \in Timers
  BY DEF Typed, Ids
<1> QED
  BY <1>1 DEF IdInv, OwnTimer, Accepted

(***************************************************************************)
(* OsSwtmrStart, of a timer whose node was taken out: lists and blocks     *)
(* agree again.                                                            *)
(***************************************************************************)
LEMMA StartKeeps ==
  ASSUME Typed, ListsInv, BlockInv, NEW t \in Timers, ucState[t] # "UNUSED",
         NEW link, LinkHolds(link, Ticking \ {t}),
         ToSet(link) = {x \in ToSet(g_swtmrSortLinkList) : x.timer # t},
         NEW align \in [Timers -> AlignData],
         \A u \in Timers : u # t => align[u] = g_swtmrAlignID[u],
         ~misused => AlignInv(t, align),
         OsSwtmrStart(t, link, align),
         setting' = setting, g_swtmrFreeList' = g_swtmrFreeList, misused' = misused
  PROVE  /\ ucState' \in [Timers -> States]
         /\ \A u \in Timers : ucState[u] # "UNUSED" => ucState'[u] # "UNUSED"
         /\ g_swtmrAlignID' \in [Timers -> AlignData]
         /\ ListsInv' /\ BlockInv' /\ NotEarly
<1> DEFINE ts == Ticking \ {t}
<1>1. Interval(t) >= 1 /\ t \notin ts /\ LinkHolds(link, ts)
  BY DEF BlockInv
<1>2. /\ ucState' = [ucState EXCEPT ![t] = "TICKING"]
      /\ g_swtmrAlignID' \in [Timers -> AlignData]
      /\ \A u \in Timers : /\ u # t => g_swtmrAlignID'[u] = align[u]
                           /\ g_swtmrAlignID'[u].canAlign = align[u].canAlign
                           /\ g_swtmrAlignID'[u].times = align[u].times
      /\ LinkHolds(g_swtmrSortLinkList', ts \cup {t})
      /\ \E left \in Int :
           /\ ToSet(g_swtmrSortLinkList') = ToSet(link) \cup {[timer |-> t, left |-> left]}
           /\ ~align[t].canAlign => left = Interval(t) * CYCLES
           /\ (\A u \in Timers : AlignInv(u, align)) /\ WithinInterval(link)
                => left <= Interval(t) * CYCLES
  <2>1. Started(t, ts, link, align)
    <3> HIDE DEF ts
    <3> QED
      BY <1>1, StartHolds
  <2> QED
    BY <2>1 DEF Started
<1>3. /\ ucState' \in [Timers -> States] /\ ucState'[t] = "TICKING"
      /\ \A u \in Timers : u # t => ucState'[u] = ucState[u]
  BY <1>2 DEF Typed, States
<1>4. Ticking' = (Ticking \ {t}) \cup {t}
  BY <1>3 DEF Ticking
<1>5. Unused' = Unused
  BY <1>3 DEF Unused
<1>6. ListsInv'
  BY <1>2, <1>4, <1>5 DEF ListsInv
<1>7. \A u \in Timers : ucState'[u] # "UNUSED" => Interval(u)' >= 1
  BY <1>3 DEF BlockInv, Interval
<1>8. ASSUME ~misused
      PROVE  /\ \A u \in Timers : AlignInv(u, align)
             /\ WithinInterval(link)
  <2>1. \A u \in Timers : AlignInv(u, g_swtmrAlignID)
    BY <1>8 DEF BlockInv
  <2>2. \A u \in Timers : AlignInv(u, align)
    BY <1>8, <2>1 DEF AlignInv
  <2>3. WithinInterval(g_swtmrSortLinkList)
    BY <1>8 DEF BlockInv
  <2>4. \A x \in ToSet(link) : x \in ToSet(g_swtmrSortLinkList)
    OBVIOUS
  <2>5. WithinInterval(link)
    BY <2>3, <2>4 DEF WithinInterval
  <2> QED
    BY <2>2, <2>5
<1>9. ASSUME ~misused PROVE WithinInterval(g_swtmrSortLinkList)'
  <2>1. PICK left \in Int :
           /\ ToSet(g_swtmrSortLinkList') = ToSet(link) \cup {[timer |-> t, left |-> left]}
           /\ left <= Interval(t) * CYCLES
    BY <1>2, <1>8, <1>9
  <2>2. \A x \in ToSet(g_swtmrSortLinkList') : x.left <= Interval(x.timer) * CYCLES
    BY <2>1, <1>8, <1>9 DEF WithinInterval
  <2> QED
    BY <2>2 DEF WithinInterval, Interval
<1>10. ASSUME ~misused PROVE \A u \in Timers : AlignInv(u, g_swtmrAlignID)'
  BY <1>2, <1>8, <1>10 DEF AlignInv, Interval, Mode
<1>11. ASSUME ~misused PROVE \A u \in Unused' : g_swtmrAlignID'[u] = NotAligned
  <2>1. \A u \in Unused : u # t /\ u \in Timers /\ g_swtmrAlignID[u] = NotAligned
    BY <1>11 DEF Unused, BlockInv
  <2> QED
    BY <2>1, <1>2, <1>5
<1>12. BlockInv'
  BY <1>7, <1>9, <1>10, <1>11 DEF BlockInv
<1>13. NotEarly
  <2>1. PICK left \in Int :
           /\ ToSet(g_swtmrSortLinkList') = ToSet(link) \cup {[timer |-> t, left |-> left]}
           /\ ~align[t].canAlign => left = Interval(t) * CYCLES
    BY <1>2
  <2>2. ~misused /\ (setting[t].sensitive \/ Mode(t) # "PERIOD") => ~align[t].canAlign
    BY DEF AlignInv
  <2> QED
    BY <2>1, <2>2, StartedNotEarly
<1> QED
  BY <1>2, <1>3, <1>6, <1>12, <1>13

\* A block that is given back becomes the first of the free list.
LEMMA FreedHolds ==
  ASSUME ListsInv, NEW t \in Timers, t \notin Unused
  PROVE  /\ <<t>> \o g_swtmrFreeList \in Seq(Timers)
         /\ IsInjective(<<t>> \o g_swtmrFreeList)
         /\ ToSet(<<t>> \o g_swtmrFreeList) = Unused \cup {t}
<1>1. <<t>> \in Seq(Timers) /\ DOMAIN <<t>> = {1} /\ <<t>>[1] = t
  OBVIOUS
<1>2. ToSet(<<t>>) = {t} /\ IsInjective(<<t>>)
  BY <1>1 DEF ToSet, IsInjective
<1>3. /\ g_swtmrFreeList \in Seq(Timers) /\ IsInjective(g_swtmrFreeList)
      /\ ToSet(g_swtmrFreeList) = Unused
  BY DEF ListsInv
<1> DEFINE first == <<t>>
           free == g_swtmrFreeList
<1>4. first \in Seq(Timers) /\ free \in Seq(Timers) /\ ToSet(first) \cap ToSet(free) = {}
  BY <1>1, <1>2, <1>3
<1>5. /\ first \o free \in Seq(Timers)
      /\ ToSet(first \o free) = ToSet(first) \cup ToSet(free)
      /\ IsInjective(first) /\ IsInjective(free) => IsInjective(first \o free)
  <2> HIDE DEF first, free
  <2> QED
    BY <1>4, ConcatMembers
<1> QED
  BY <1>2, <1>3, <1>5

(***************************************************************************)
(* A block leaves use, by LOS_SwtmrDelete or by the scan: whatever is left *)
(* of the sorted list, the lists agree with the states.                    *)
(***************************************************************************)
LEMMA DeletedKeeps ==
  ASSUME Typed, ListsInv, BlockInv, NEW t \in Timers, ucState[t] # "UNUSED",
         LinkHolds(g_swtmrSortLinkList', Ticking \ {t}),
         ToSet(g_swtmrSortLinkList') = {x \in ToSet(g_swtmrSortLinkList) : x.timer # t},
         ucState' = [ucState EXCEPT ![t] = "UNUSED"],
         g_swtmrFreeList' = <<t>> \o g_swtmrFreeList,
         g_swtmrAlignID' = [g_swtmrAlignID EXCEPT ![t] = NotAligned],
         setting' = setting, misused' = misused
  PROVE  /\ ucState' \in [Timers -> States]
         /\ g_swtmrAlignID' \in [Timers -> AlignData]
         /\ ListsInv' /\ BlockInv' /\ NotEarly
<1>1. /\ ucState' \in [Timers -> States] /\ ucState'[t] = "UNUSED"
      /\ \A u \in Timers : u # t => ucState'[u] = ucState[u]
  BY DEF Typed, States
<1>2. /\ g_swtmrAlignID' \in [Timers -> AlignData] /\ g_swtmrAlignID'[t] = NotAligned
      /\ \A u \in Timers : u # t => g_swtmrAlignID'[u] = g_swtmrAlignID[u]
  BY DEF Typed, AlignData, NotAligned
<1>3. Ticking' = Ticking \ {t} /\ Unused' = Unused \cup {t} /\ t \notin Unused
  BY <1>1 DEF Ticking, Unused
<1>4. ListsInv'
  BY <1>3, FreedHolds DEF ListsInv
<1>5. \A u \in Timers : ucState'[u] # "UNUSED" => Interval(u)' >= 1
  BY <1>1 DEF BlockInv, Interval
<1>6. ASSUME ~misused
      PROVE  /\ \A u \in Timers : AlignInv(u, g_swtmrAlignID)'
             /\ \A u \in Unused' : g_swtmrAlignID'[u] = NotAligned
             /\ WithinInterval(g_swtmrSortLinkList)'
  <2>1. /\ \A u \in Timers : AlignInv(u, g_swtmrAlignID)
        /\ \A u \in Unused : g_swtmrAlignID[u] = NotAligned
        /\ WithinInterval(g_swtmrSortLinkList)
    BY <1>6 DEF BlockInv
  <2>2. \A u \in Timers : AlignInv(u, g_swtmrAlignID)'
    BY <1>2, <2>1 DEF AlignInv, NotAligned, Interval, Mode
  <2>3. \A u \in Unused' : g_swtmrAlignID'[u] = NotAligned
    BY <1>2, <1>3, <2>1 DEF Unused
  <2>4. \A x \in ToSet(g_swtmrSortLinkList') : x \in ToSet(g_swtmrSortLinkList)
    OBVIOUS
  <2>5. WithinInterval(g_swtmrSortLinkList)'
    BY <2>1, <2>4 DEF WithinInterval, Interval
  <2> QED
    BY <2>2, <2>3, <2>5
<1>7. BlockInv'
  BY <1>5, <1>6 DEF BlockInv
<1>8. NotEarly
  BY TakenNotEarly
<1> QED
  BY <1>1, <1>2, <1>4, <1>7, <1>8

(***************************************************************************)
(* A timer stops ticking and stays created, by LOS_SwtmrStop or because it *)
(* expired and does not delete itself.                                     *)
(***************************************************************************)
LEMMA StoppedKeeps ==
  ASSUME Typed, ListsInv, BlockInv, NEW t \in Timers, ucState[t] = "TICKING",
         LinkHolds(g_swtmrSortLinkList', Ticking \ {t}),
         ToSet(g_swtmrSortLinkList') = {x \in ToSet(g_swtmrSortLinkList) : x.timer # t},
         ucState' = [ucState EXCEPT ![t] = "CREATED"],
         g_swtmrFreeList' = g_swtmrFreeList,
         g_swtmrAlignID' \in [Timers -> AlignData],
         \A u \in Timers : /\ u # t => g_swtmrAlignID'[u] = g_swtmrAlignID[u]
                           /\ g_swtmrAlignID'[u].canAlign = g_swtmrAlignID[u].canAlign
                           /\ g_swtmrAlignID'[u].times = g_swtmrAlignID[u].times,
         setting' = setting, misused' = misused
  PROVE  /\ ucState' \in [Timers -> States]
         /\ \A u \in Timers : ucState[u] # "UNUSED" => ucState'[u] # "UNUSED"
         /\ ListsInv' /\ BlockInv' /\ NotEarly
<1>1. /\ ucState' \in [Timers -> States] /\ ucState'[t] = "CREATED"
      /\ \A u \in Timers : u # t => ucState'[u] = ucState[u]
  BY DEF Typed, States
<1>2. Ticking' = Ticking \ {t} /\ Unused' = Unused /\ t \notin Unused
  BY <1>1 DEF Ticking, Unused
<1>3. ListsInv'
  BY <1>2 DEF ListsInv
<1>4. \A u \in Timers : ucState'[u] # "UNUSED" => Interval(u)' >= 1
  BY <1>1 DEF BlockInv, Interval
<1>5. ASSUME ~misused
      PROVE  /\ \A u \in Timers : AlignInv(u, g_swtmrAlignID)'
             /\ \A u \in Unused' : g_swtmrAlignID'[u] = NotAligned
             /\ WithinInterval(g_swtmrSortLinkList)'
  <2>1. /\ \A u \in Timers : AlignInv(u, g_swtmrAlignID)
        /\ \A u \in Unused : g_swtmrAlignID[u] = NotAligned
        /\ WithinInterval(g_swtmrSortLinkList)
    BY <1>5 DEF BlockInv
  <2>2. \A u \in Timers : AlignInv(u, g_swtmrAlignID)'
    BY <2>1 DEF AlignInv, Interval, Mode
  <2>3. \A u \in Unused' : g_swtmrAlignID'[u] = NotAligned
    BY <1>2, <2>1 DEF Unused
  <2>4. \A x \in ToSet(g_swtmrSortLinkList') : x \in ToSet(g_swtmrSortLinkList)
    OBVIOUS
  <2>5. WithinInterval(g_swtmrSortLinkList)'
    BY <2>1, <2>4 DEF WithinInterval, Interval
  <2> QED
    BY <2>2, <2>3, <2>5
<1>6. BlockInv'
  BY <1>4, <1>5 DEF BlockInv
<1>7. NotEarly
  BY TakenNotEarly
<1> QED
  BY <1>1, <1>3, <1>6, <1>7

LEMMA CreateKeeps ==
  ASSUME SwtmrInv, NEW c \in Callers, NEW s \in Settings, LOS_SwtmrCreate(c, s)
  PROVE  SwtmrInv' /\ NotEarly
<1> DEFINE t == Head(g_swtmrFreeList)
<1>0. Typed /\ ListsInv /\ BlockInv /\ IdInv
  BY DEF SwtmrInv
<1>1. /\ g_swtmrFreeList # <<>> /\ g_swtmrFreeList' = Tail(g_swtmrFreeList)
      /\ ucState' = [ucState EXCEPT ![t] = "CREATED"]
      /\ setting' = [setting EXCEPT ![t] = s]
      /\ swtmrId' = [swtmrId EXCEPT ![c] = {[timer |-> t, lap |-> lap[t]]}]
      /\ creator' = [creator EXCEPT ![t] = c]
      /\ lap' = lap /\ g_swtmrAlignID' = g_swtmrAlignID
      /\ g_swtmrSortLinkList' = g_swtmrSortLinkList /\ misused' = misused
  BY DEF LOS_SwtmrCreate
<1>2. /\ Tail(g_swtmrFreeList) \in Seq(Timers) /\ t \in Timers /\ t \in Unused
      /\ ToSet(Tail(g_swtmrFreeList)) = Unused \ {t}
      /\ IsInjective(Tail(g_swtmrFreeList))
  BY <1>0, <1>1, TailMembers DEF ListsInv
<1> HIDE DEF t
<1>3. /\ s \in [mode : Modes, interval : Nat, sensitive : BOOLEAN] /\ s.interval >= 1
  BY SwtmrAssumption DEF Modes
<1>4. /\ ucState' \in [Timers -> States] /\ ucState'[t] = "CREATED"
      /\ \A u \in Timers : u # t => ucState'[u] = ucState[u]
  BY <1>0, <1>1, <1>2 DEF Typed, States
<1>5. /\ setting' \in [Timers -> [mode : Modes, interval : Nat, sensitive : BOOLEAN]]
      /\ setting'[t] = s
      /\ \A u \in Timers : u # t => setting'[u] = setting[u]
  BY <1>0, <1>1, <1>2, <1>3 DEF Typed
<1>6. lap[t] \in Nat
  BY <1>0, <1>2 DEF Typed
<1>7. Typed'
  <2>1. [timer |-> t, lap |-> lap[t]] \in Ids
    BY <1>2, <1>6 DEF Ids
  <2>2. swtmrId' \in [Callers -> SUBSET Ids]
    BY <2>1, <1>0, <1>1 DEF Typed
  <2>3. creator' \in [Timers -> Callers \cup {NoCaller}]
    BY <1>0, <1>1, <1>2 DEF Typed
  <2>4. lap' \in [Timers -> Nat] /\ g_swtmrAlignID' \in [Timers -> AlignData]
    BY <1>0, <1>1 DEF Typed
  <2> QED
    BY <2>2, <2>3, <2>4, <1>4, <1>5 DEF Typed
<1>8. Ticking' = Ticking /\ Unused' = Unused \ {t} /\ t \notin Ticking
  BY <1>2, <1>4 DEF Ticking, Unused
<1>9. ListsInv'
  BY <1>0, <1>1, <1>2, <1>8 DEF ListsInv
<1>10. \A u \in Timers : ucState'[u] # "UNUSED" => Interval(u)' >= 1
  BY <1>0, <1>3, <1>4, <1>5 DEF BlockInv, Interval
<1>11. ASSUME ~misused
       PROVE  /\ \A u \in Timers : AlignInv(u, g_swtmrAlignID)'
              /\ \A u \in Unused' : g_swtmrAlignID'[u] = NotAligned
              /\ WithinInterval(g_swtmrSortLinkList)'
  <2>1. /\ \A u \in Timers : AlignInv(u, g_swtmrAlignID)
        /\ \A u \in Unused : g_swtmrAlignID[u] = NotAligned
        /\ WithinInterval(g_swtmrSortLinkList)
    BY <1>0, <1>11 DEF BlockInv
  <2>2. g_swtmrAlignID[t] = NotAligned
    BY <2>1, <1>2
  <2>3. ASSUME NEW u \in Timers PROVE AlignInv(u, g_swtmrAlignID)'
    <3>1. CASE u = t
      <4>1. g_swtmrAlignID'[u].canAlign = FALSE /\ g_swtmrAlignID'[u].times = 0
        BY <3>1, <2>2, <1>1 DEF NotAligned
      <4> QED
        BY <4>1 DEF AlignInv
    <3>2. CASE u # t
      BY <3>2, <2>1, <1>1, <1>5 DEF AlignInv, Interval, Mode
    <3> QED
      BY <3>1, <3>2
  <2>4. \A u \in Unused' : g_swtmrAlignID'[u] = NotAligned
    BY <2>1, <1>1, <1>8
  <2>5. \A x \in ToSet(g_swtmrSortLinkList) : x.timer \in Ticking
    BY <1>0 DEF ListsInv, LinkHolds, ToSet
  <2>6. \A u \in Ticking : Interval(u)' = Interval(u)
    BY <1>5, <1>8 DEF Interval, Ticking
  <2>7. WithinInterval(g_swtmrSortLinkList)'
    <3>1. ASSUME NEW x \in ToSet(g_swtmrSortLinkList) PROVE x.left <= setting'[x.timer].interval * CYCLES
      BY <2>1, <2>5, <2>6 DEF WithinInterval, Interval
    <3> QED
      BY <3>1, <1>1 DEF WithinInterval, Interval
  <2> QED
    BY <2>3, <2>4, <2>7
<1>12. BlockInv'
  BY <1>1, <1>10, <1>11 DEF BlockInv
<1>13. ASSUME NEW d \in Callers, NEW id \in swtmrId'[d]
       PROVE  /\ id.lap <= lap'[id.timer]
              /\ Accepted(id)' => creator'[id.timer] = d /\ ucState'[id.timer] # "UNUSED"
  <2>1. CASE d = c
    <3>1. id.timer = t /\ id.lap = lap[t]
      BY <2>1, <1>0, <1>1 DEF Typed
    <3>2. creator'[t] = c
      BY <1>0, <1>1, <1>2 DEF Typed
    <3> QED
      BY <3>1, <3>2, <2>1, <1>1, <1>4, <1>6
  <2>2. CASE d # c
    <3>1. id \in swtmrId[d] /\ id.timer \in Timers
      BY <2>2, <1>0, <1>1 DEF Typed, Ids
    <3>2. /\ id.lap <= lap[id.timer]
          /\ Accepted(id) => creator[id.timer] = d /\ ucState[id.timer] # "UNUSED"
      BY <3>1, <1>0 DEF IdInv, OwnTimer
    <3>3. Accepted(id)' => Accepted(id)
      BY <1>1 DEF Accepted
    <3>4. ucState[t] = "UNUSED"
      BY <1>2 DEF Unused
    <3>5. Accepted(id) => id.timer # t
      BY <3>2, <3>4
    <3>6. id.timer # t => creator'[id.timer] = creator[id.timer]
      BY <3>1, <1>0, <1>1 DEF Typed
    <3> QED
      BY <3>1, <3>2, <3>3, <3>5, <3>6, <1>1, <1>4
  <2> QED
    BY <2>1, <2>2
<1>14. IdInv'
  BY <1>13 DEF IdInv, OwnTimer
<1>15. NotEarly
  BY <1>1, TakenNotEarly
<1> QED
  BY <1>7, <1>9, <1>12, <1>14, <1>15 DEF SwtmrInv

LEMMA SwtmrStartKeeps ==
  ASSUME SwtmrInv, NEW c \in Callers, NEW id \in swtmrId[c], LOS_SwtmrStart(id)
  PROVE  SwtmrInv' /\ NotEarly
<1> DEFINE t == id.timer
           noted == AlignNoted(t)
<1>0. Typed /\ ListsInv /\ BlockInv /\ IdInv /\ LinkHolds(g_swtmrSortLinkList, Ticking)
  BY DEF SwtmrInv, ListsInv
<1>1. t \in Timers
  BY <1>0 DEF Typed, Ids
<1>2. /\ noted \in [Timers -> AlignData]
      /\ \A u \in Timers : u # t => noted[u] = g_swtmrAlignID[u]
      /\ AlignInv(t, g_swtmrAlignID) => AlignInv(t, noted)
  BY <1>0, <1>1, NotedHolds
<1>3. ~misused => AlignInv(t, noted)
  BY <1>0, <1>1, <1>2 DEF BlockInv
<1>4. /\ setting' = setting /\ lap' = lap /\ g_swtmrFreeList' = g_swtmrFreeList
      /\ swtmrId' = swtmrId /\ creator' = creator /\ misused' = misused
  BY DEF LOS_SwtmrStart
<1>5. \/ /\ ucState[t] = "TICKING"
         /\ OsSwtmrStart(t, Removed(g_swtmrSortLinkList, t), [noted EXCEPT ![t].isAligned = FALSE])
      \/ /\ ucState[t] = "CREATED"
         /\ OsSwtmrStart(t, g_swtmrSortLinkList, noted)
  BY DEF LOS_SwtmrStart
<1> HIDE DEF noted, t
<1>6. /\ ucState' \in [Timers -> States]
      /\ \A u \in Timers : ucState[u] # "UNUSED" => ucState'[u] # "UNUSED"
      /\ g_swtmrAlignID' \in [Timers -> AlignData]
      /\ ListsInv' /\ BlockInv' /\ NotEarly
  <2>1. CASE /\ ucState[t] = "TICKING"
             /\ OsSwtmrStart(t, Removed(g_swtmrSortLinkList, t),
                             [noted EXCEPT ![t].isAligned = FALSE])
    <3> DEFINE align == [noted EXCEPT ![t].isAligned = FALSE]
               link == Removed(g_swtmrSortLinkList, t)
    <3>1. \A d \in AlignData : /\ [d EXCEPT !.isAligned = FALSE] \in AlignData
                               /\ [d EXCEPT !.isAligned = FALSE].canAlign = d.canAlign
                               /\ [d EXCEPT !.isAligned = FALSE].times = d.times
      BY DEF AlignData
    <3>2. /\ align \in [Timers -> AlignData]
          /\ \A u \in Timers : u # t => align[u] = g_swtmrAlignID[u]
          /\ align[t].canAlign = noted[t].canAlign /\ align[t].times = noted[t].times
      BY <3>1, <1>1, <1>2
    <3>3. /\ LinkHolds(link, Ticking \ {t})
          /\ ToSet(link) = {x \in ToSet(g_swtmrSortLinkList) : x.timer # t}
      BY <1>0, RemovedHold
    <3>4. ~misused => AlignInv(t, align)
      BY <3>2, <1>3 DEF AlignInv
    <3>5. OsSwtmrStart(t, link, align) /\ ucState[t] # "UNUSED"
      BY <2>1
    <3> HIDE DEF align, link
    <3> QED
      BY <3>2, <3>3, <3>4, <3>5, <1>0, <1>1, <1>4, StartKeeps
  <2>2. CASE ucState[t] = "CREATED" /\ OsSwtmrStart(t, g_swtmrSortLinkList, noted)
    <3> DEFINE link == g_swtmrSortLinkList
    <3>1. Ticking \ {t} = Ticking /\ ucState[t] # "UNUSED"
      BY <2>2 DEF Ticking
    <3>2. \A x \in ToSet(link) : x.timer # t
      BY <3>1, <1>0 DEF LinkHolds, ToSet
    <3>3. /\ LinkHolds(link, Ticking \ {t}) /\ OsSwtmrStart(t, link, noted)
          /\ ToSet(link) = {x \in ToSet(g_swtmrSortLinkList) : x.timer # t}
      BY <3>1, <3>2, <2>2, <1>0
    <3> HIDE DEF link
    <3> QED
      BY <3>1, <3>3, <1>0, <1>1, <1>2, <1>3, <1>4, StartKeeps
  <2> QED
    BY <2>1, <2>2, <1>5
<1>7. Typed'
  BY <1>0, <1>4, <1>6 DEF Typed
<1>8. IdInv'
  BY <1>0, <1>4, <1>6, IdsKept
<1> QED
  BY <1>6, <1>7, <1>8 DEF SwtmrInv

LEMMA StartDeletedKeeps ==
  ASSUME SwtmrInv, NEW t \in Timers, SwtmrStartDeleted(t)
  PROVE  SwtmrInv' /\ NotEarly
<1>0. Typed /\ ListsInv /\ BlockInv /\ IdInv
  BY DEF SwtmrInv
<1>1. /\ g_swtmrAlignID' = AlignNoted(t) /\ misused' = TRUE
      /\ ucState' = ucState /\ setting' = setting /\ lap' = lap
      /\ g_swtmrFreeList' = g_swtmrFreeList /\ g_swtmrSortLinkList' = g_swtmrSortLinkList
      /\ swtmrId' = swtmrId /\ creator' = creator
  BY DEF SwtmrStartDeleted
<1>2. g_swtmrAlignID' \in [Timers -> AlignData]
  BY <1>0, <1>1, NotedHolds
<1>3. Typed'
  BY <1>0, <1>1, <1>2 DEF Typed
<1>4. ListsInv'
  BY <1>0, <1>1 DEF ListsInv, Ticking, Unused
<1>5. BlockInv'
  BY <1>0, <1>1 DEF BlockInv, Interval
<1>6. IdInv'
  BY <1>0, <1>1, IdsKept
<1>7. NotEarly
  BY <1>1, TakenNotEarly
<1> QED
  BY <1>3, <1>4, <1>5, <1>6, <1>7 DEF SwtmrInv

LEMMA StopKeeps ==
  ASSUME SwtmrInv, NEW c \in Callers, NEW id \in swtmrId[c], LOS_SwtmrStop(id)
  PROVE  SwtmrInv' /\ NotEarly
<1> DEFINE t == id.timer
<1>0. Typed /\ ListsInv /\ BlockInv /\ IdInv /\ LinkHolds(g_swtmrSortLinkList, Ticking)
  BY DEF SwtmrInv, ListsInv
<1>1. t \in Timers
  BY <1>0 DEF Typed, Ids
<1>2. /\ ucState[t] = "TICKING"
      /\ ucState' = [ucState EXCEPT ![t] = "CREATED"]
      /\ g_swtmrSortLinkList' = Removed(g_swtmrSortLinkList, t)
      /\ g_swtmrAlignID' = [g_swtmrAlignID EXCEPT ![t].isAligned = FALSE]
      /\ setting' = setting /\ lap' = lap /\ g_swtmrFreeList' = g_swtmrFreeList
      /\ swtmrId' = swtmrId /\ creator' = creator /\ misused' = misused
  BY DEF LOS_SwtmrStop
<1> HIDE DEF t
<1>3. /\ LinkHolds(g_swtmrSortLinkList', Ticking \ {t})
      /\ ToSet(g_swtmrSortLinkList') = {x \in ToSet(g_swtmrSortLinkList) : x.timer # t}
  BY <1>0, <1>2, RemovedHold
<1>4. \A d \in AlignData : /\ [d EXCEPT !.isAligned = FALSE] \in AlignData
                           /\ [d EXCEPT !.isAligned = FALSE].canAlign = d.canAlign
                           /\ [d EXCEPT !.isAligned = FALSE].times = d.times
  BY DEF AlignData
<1>5. g_swtmrAlignID \in [Timers -> AlignData]
  BY <1>0 DEF Typed
<1>6. /\ g_swtmrAlignID' \in [Timers -> AlignData]
      /\ \A u \in Timers : /\ u # t => g_swtmrAlignID'[u] = g_swtmrAlignID[u]
                           /\ g_swtmrAlignID'[u].canAlign = g_swtmrAlignID[u].canAlign
                           /\ g_swtmrAlignID'[u].times = g_swtmrAlignID[u].times
  BY <1>1, <1>2, <1>4, <1>5
<1>7. /\ ucState' \in [Timers -> States]
      /\ \A u \in Timers : ucState[u] # "UNUSED" => ucState'[u] # "UNUSED"
      /\ ListsInv' /\ BlockInv' /\ NotEarly
  BY <1>0, <1>1, <1>2, <1>3, <1>6, StoppedKeeps
<1>8. Typed'
  BY <1>0, <1>2, <1>6, <1>7 DEF Typed
<1>9. IdInv'
  BY <1>0, <1>2, <1>7, IdsKept
<1> QED
  BY <1>7, <1>8, <1>9 DEF SwtmrInv

LEMMA DeleteKeeps ==
  ASSUME SwtmrInv, NEW c \in Callers, NEW id \in swtmrId[c], LOS_SwtmrDelete(id, c)
  PROVE  SwtmrInv' /\ NotEarly
<1> DEFINE t == id.timer
<1>0. Typed /\ ListsInv /\ BlockInv /\ IdInv /\ LinkHolds(g_swtmrSortLinkList, Ticking)
  BY DEF SwtmrInv, ListsInv
<1>1. t \in Timers
  BY <1>0 DEF Typed, Ids
<1>2. /\ Accepted(id) /\ ucState[t] # "UNUSED"
      /\ ucState' = [ucState EXCEPT ![t] = "UNUSED"]
      /\ g_swtmrSortLinkList' = Removed(g_swtmrSortLinkList, t)
      /\ g_swtmrFreeList' = <<t>> \o g_swtmrFreeList
      /\ g_swtmrAlignID' = [g_swtmrAlignID EXCEPT ![t] = NotAligned]
      /\ swtmrId' = [swtmrId EXCEPT ![c] = {}]
      /\ setting' = setting /\ lap' = lap /\ creator' = creator /\ misused' = misused
  BY DEF LOS_SwtmrDelete
<1>3. /\ LinkHolds(g_swtmrSortLinkList', Ticking \ {t})
      /\ ToSet(g_swtmrSortLinkList') = {x \in ToSet(g_swtmrSortLinkList) : x.timer # t}
  BY <1>0, <1>2, RemovedHold
<1>4. /\ ucState' \in [Timers -> States]
      /\ g_swtmrAlignID' \in [Timers -> AlignData]
      /\ ListsInv' /\ BlockInv' /\ NotEarly
  <2> HIDE DEF t
  <2> QED
    BY <1>0, <1>1, <1>2, <1>3, DeletedKeeps
<1>5. Typed'
  BY <1>0, <1>2, <1>4 DEF Typed
<1>6. ASSUME NEW d \in Callers, NEW e \in swtmrId'[d]
      PROVE  /\ e.lap <= lap'[e.timer]
             /\ Accepted(e)' => creator'[e.timer] = d /\ ucState'[e.timer] # "UNUSED"
  <2>1. d # c /\ e \in swtmrId[d] /\ e.timer \in Timers
    BY <1>0, <1>2 DEF Typed, Ids
  <2>2. /\ e.lap <= lap[e.timer]
        /\ Accepted(e) => creator[e.timer] = d /\ ucState[e.timer] # "UNUSED"
    BY <2>1, <1>0 DEF IdInv, OwnTimer
  <2>3. creator[t] = c
    BY <1>0, <1>2 DEF IdInv, OwnTimer
  <2>4. Accepted(e) => e.timer # t
    BY <2>1, <2>2, <2>3
  <2>5. e.timer # t => ucState'[e.timer] = ucState[e.timer]
    BY <2>1, <1>0, <1>2 DEF Typed
  <2>6. Accepted(e)' => Accepted(e)
    BY <1>2 DEF Accepted
  <2> QED
    BY <2>2, <2>4, <2>5, <2>6, <1>2
<1>7. IdInv'
  BY <1>6 DEF IdInv, OwnTimer
<1> QED
  BY <1>4, <1>5, <1>7 DEF SwtmrInv

LEMMA ForgetKeeps ==
  ASSUME SwtmrInv, NEW c \in Callers, NEW id \in swtmrId[c], Forget(id, c)
  PROVE  SwtmrInv' /\ NotEarly
<1>0. Typed /\ ListsInv /\ BlockInv /\ IdInv
  BY DEF SwtmrInv
<1>1. /\ swtmrId' = [swtmrId EXCEPT ![c] = {}]
      /\ ucState' = ucState /\ setting' = setting /\ lap' = lap
      /\ g_swtmrAlignID' = g_swtmrAlignID
      /\ g_swtmrFreeList' = g_swtmrFreeList /\ g_swtmrSortLinkList' = g_swtmrSortLinkList
      /\ creator' = creator /\ misused' = misused
  BY DEF Forget, blockVars
<1>2. Typed'
  BY <1>0, <1>1 DEF Typed
<1>3. ListsInv'
  BY <1>0, <1>1 DEF ListsInv, Ticking, Unused
<1>4. BlockInv'
  BY <1>0, <1>1 DEF BlockInv, Interval, Mode, AlignInv, WithinInterval, Unused
<1>5. \A d \in Callers : swtmrId'[d] \subseteq swtmrId[d]
  BY <1>0, <1>1 DEF Typed
<1>6. IdInv'
  BY <1>0, <1>1, <1>5 DEF IdInv, OwnTimer, Accepted
<1>7. NotEarly
  BY <1>1, TakenNotEarly
<1> QED
  BY <1>2, <1>3, <1>4, <1>6, <1>7 DEF SwtmrInv

\* Steps that change neither blocks nor lists.
LEMMA OtherKeeps ==
  ASSUME SwtmrInv, blockVars' = blockVars, g_swtmrFreeList' = g_swtmrFreeList,
         g_swtmrSortLinkList' = g_swtmrSortLinkList,
         swtmrId' = swtmrId, creator' = creator, misused' = misused
  PROVE  SwtmrInv' /\ NotEarly
<1>0. Typed /\ ListsInv /\ BlockInv /\ IdInv
  BY DEF SwtmrInv
<1>1. /\ ucState' = ucState /\ setting' = setting /\ lap' = lap
      /\ g_swtmrAlignID' = g_swtmrAlignID
  BY DEF blockVars
<1>2. Typed'
  BY <1>0, <1>1 DEF Typed
<1>3. ListsInv'
  BY <1>0, <1>1 DEF ListsInv, Ticking, Unused
<1>4. BlockInv'
  BY <1>0, <1>1 DEF BlockInv, Interval, Mode, AlignInv, WithinInterval, Unused
<1>5. IdInv'
  BY <1>0, <1>1, IdsKept
<1>6. NotEarly
  BY TakenNotEarly
<1> QED
  BY <1>2, <1>3, <1>4, <1>5, <1>6 DEF SwtmrInv

LEMMA CycleKeeps ==
  ASSUME SwtmrInv, Cycle
  PROVE  SwtmrInv' /\ NotEarly
<1>0. Typed /\ ListsInv /\ BlockInv /\ IdInv /\ LinkHolds(g_swtmrSortLinkList, Ticking)
  BY DEF SwtmrInv, ListsInv
<1>1. /\ g_swtmrSortLinkList' = Passed
      /\ ucState' = ucState /\ setting' = setting /\ lap' = lap
      /\ g_swtmrAlignID' = g_swtmrAlignID /\ g_swtmrFreeList' = g_swtmrFreeList
      /\ swtmrId' = swtmrId /\ creator' = creator /\ misused' = misused
  BY DEF Cycle, blockVars
<1>2. /\ LinkHolds(Passed, Ticking)
      /\ ToSet(Passed) = {[timer |-> x.timer, left |-> x.left - 1] :
                            x \in ToSet(g_swtmrSortLinkList)}
  BY <1>0, PassedHold
<1>3. Typed'
  BY <1>0, <1>1 DEF Typed
<1>4. ListsInv'
  <2>1. Ticking' = Ticking /\ Unused' = Unused
    BY <1>1 DEF Ticking, Unused
  <2> QED
    BY <2>1, <1>0, <1>1, <1>2 DEF ListsInv
<1>5. ASSUME ~misused PROVE WithinInterval(g_swtmrSortLinkList)'
  <2>1. WithinInterval(g_swtmrSortLinkList)
    BY <1>0, <1>5 DEF BlockInv
  <2>2. ToSet(g_swtmrSortLinkList) \subseteq TimerNodes
    BY <1>0, LinkType DEF LinkHolds, ToSet
  <2>3. \A n \in Nat, m \in Int : n * CYCLES \in Int /\ (m <= n * CYCLES => m - 1 <= n * CYCLES)
    BY SwtmrAssumption
  <2>4. ASSUME NEW y \in ToSet(Passed) PROVE y.left <= Interval(y.timer) * CYCLES
    <3>1. PICK x \in ToSet(g_swtmrSortLinkList) : y = [timer |-> x.timer, left |-> x.left - 1]
      BY <1>2
    <3>2. x.left \in Int /\ Interval(x.timer) \in Nat /\ x.left <= Interval(x.timer) * CYCLES
      BY <2>1, <2>2, <1>0 DEF TimerNodes, WithinInterval, Typed, Interval
    <3>3. y.left = x.left - 1 /\ y.timer = x.timer
      BY <3>1
    <3> QED
      BY <3>2, <3>3, <2>3
  <2> QED
    BY <2>4, <1>1 DEF WithinInterval, Interval
<1>6. BlockInv'
  BY <1>0, <1>1, <1>5 DEF BlockInv, Interval, Mode, AlignInv, Unused
<1>7. IdInv'
  BY <1>0, <1>1, IdsKept
<1>8. ASSUME NEW t \in Timers PROVE Left(t)' = {left - 1 : left \in Left(t)}
  <2> DEFINE link == g_swtmrSortLinkList
             passed(x) == [timer |-> x.timer, left |-> x.left - 1]
  <2>1. /\ Left(t) = LeftIn(link, t) /\ Left(t)' = LeftIn(Passed, t)
        /\ ToSet(Passed) = {passed(x) : x \in ToSet(link)}
    BY <1>1, <1>2, LeftToSet
  <2>2. \A x : passed(x).timer = x.timer /\ passed(x).left = x.left - 1
    OBVIOUS
  <2> HIDE DEF link, passed
  <2>3. ASSUME NEW y \in ToSet(Passed), y.timer = t
        PROVE  y.left \in {left - 1 : left \in LeftIn(link, t)}
    <3>1. PICK x \in ToSet(link) : y = passed(x)
      BY <2>1
    <3> QED
      BY <3>1, <2>2, <2>3 DEF LeftIn
  <2>4. ASSUME NEW x \in ToSet(link), x.timer = t PROVE x.left - 1 \in LeftIn(Passed, t)
    <3>1. passed(x) \in ToSet(Passed)
      BY <2>1
    <3> QED
      BY <3>1, <2>2, <2>4 DEF LeftIn
  <2>5. LeftIn(Passed, t) \subseteq {left - 1 : left \in LeftIn(link, t)}
    BY <2>3 DEF LeftIn
  <2>6. {left - 1 : left \in LeftIn(link, t)} \subseteq LeftIn(Passed, t)
    BY <2>4 DEF LeftIn
  <2> QED
    BY <2>1, <2>5, <2>6
<1>9. NotEarly
  BY <1>8 DEF NotEarly
<1> QED
  BY <1>3, <1>4, <1>6, <1>7, <1>9 DEF SwtmrInv

LEMMA ScanKeeps ==
  ASSUME SwtmrInv, OsSwtmrScan
  PROVE  SwtmrInv' /\ NotEarly
<1> DEFINE t == Head(g_swtmrSortLinkList).timer
           link == Tail(g_swtmrSortLinkList)
<1>0. Typed /\ ListsInv /\ BlockInv /\ IdInv /\ LinkHolds(g_swtmrSortLinkList, Ticking)
  BY DEF SwtmrInv, ListsInv
<1>1. /\ g_swtmrSortLinkList # <<>> /\ OsSwtmrTimeoutHandle(t, link)
      /\ setting' = setting /\ swtmrId' = swtmrId /\ creator' = creator /\ misused' = misused
  BY DEF OsSwtmrScan, FirstIsDue
<1>2. /\ t \in Ticking
      /\ LinkHolds(link, Ticking \ {t})
      /\ ToSet(link) = {x \in ToSet(g_swtmrSortLinkList) : x.timer # t}
  BY <1>0, <1>1, TailHold
<1>3. t \in Timers /\ ucState[t] = "TICKING"
  BY <1>2 DEF Ticking
<1> HIDE DEF t, link
<1>4. CASE /\ Mode(t) = "ONCE"
           /\ ucState' = [ucState EXCEPT ![t] = "UNUSED"]
           /\ g_swtmrFreeList' = <<t>> \o g_swtmrFreeList
           /\ g_swtmrAlignID' = [g_swtmrAlignID EXCEPT ![t] = NotAligned]
           /\ lap' = Renewed(t)
           /\ g_swtmrSortLinkList' = link
  <2>1. /\ ucState' \in [Timers -> States]
        /\ g_swtmrAlignID' \in [Timers -> AlignData]
        /\ ListsInv' /\ BlockInv' /\ NotEarly
    <3>1. ucState[t] # "UNUSED"
      BY <1>3
    <3> QED
      BY <3>1, <1>0, <1>1, <1>2, <1>3, <1>4, DeletedKeeps
  <2>2. /\ lap' \in [Timers -> Nat] /\ lap'[t] = lap[t] + 1 /\ lap[t] \in Nat
        /\ \A u \in Timers : u # t => lap'[u] = lap[u]
    BY <1>0, <1>3, <1>4 DEF Typed, Renewed
  <2>3. Typed'
    BY <1>0, <1>1, <2>1, <2>2 DEF Typed
  <2>4. ASSUME NEW d \in Callers, NEW id \in swtmrId[d]
        PROVE  /\ id.lap <= lap'[id.timer]
               /\ Accepted(id)' => creator'[id.timer] = d /\ ucState'[id.timer] # "UNUSED"
    <3>1. id.timer \in Timers /\ id.lap \in Nat
      BY <1>0 DEF Typed, Ids
    <3>2. /\ id.lap <= lap[id.timer]
          /\ Accepted(id) => creator[id.timer] = d /\ ucState[id.timer] # "UNUSED"
      BY <1>0 DEF IdInv, OwnTimer
    <3>3. CASE id.timer = t
      BY <3>1, <3>2, <3>3, <2>2 DEF Accepted
    <3>4. CASE id.timer # t
      <4>1. ucState'[id.timer] = ucState[id.timer]
        BY <3>1, <3>4, <1>0, <1>4 DEF Typed
      <4> QED
        BY <4>1, <3>1, <3>2, <3>4, <2>2, <1>1 DEF Accepted
    <3> QED
      BY <3>3, <3>4
  <2>5. IdInv'
    BY <2>4, <1>1 DEF IdInv, OwnTimer
  <2> QED
    BY <2>1, <2>3, <2>5 DEF SwtmrInv
<1>5. CASE /\ Mode(t) = "PERIOD"
           /\ OsSwtmrStart(t, link, g_swtmrAlignID)
           /\ lap' = lap /\ g_swtmrFreeList' = g_swtmrFreeList
  <2> DEFINE align == g_swtmrAlignID
  <2>1. /\ align \in [Timers -> AlignData]
        /\ \A u \in Timers : u # t => align[u] = g_swtmrAlignID[u]
        /\ ~misused => AlignInv(t, align)
        /\ ucState[t] # "UNUSED" /\ OsSwtmrStart(t, link, align)
    BY <1>0, <1>3, <1>5 DEF Typed, BlockInv
  <2>2. /\ ucState' \in [Timers -> States]
        /\ \A u \in Timers : ucState[u] # "UNUSED" => ucState'[u] # "UNUSED"
        /\ g_swtmrAlignID' \in [Timers -> AlignData]
        /\ ListsInv' /\ BlockInv' /\ NotEarly
    <3> HIDE DEF align
    <3> QED
      BY <2>1, <1>0, <1>1, <1>2, <1>3, <1>5, StartKeeps
  <2>3. Typed'
    BY <2>2, <1>0, <1>1, <1>5 DEF Typed
  <2>4. IdInv'
    BY <2>2, <1>0, <1>1, <1>5, IdsKept
  <2> QED
    BY <2>2, <2>3, <2>4 DEF SwtmrInv
<1>6. CASE /\ Mode(t) = "NO_SELFDELETE"
           /\ ucState' = [ucState EXCEPT ![t] = "CREATED"]
           /\ g_swtmrSortLinkList' = link
           /\ lap' = lap /\ g_swtmrFreeList' = g_swtmrFreeList
           /\ g_swtmrAlignID' = g_swtmrAlignID
  <2>1. /\ g_swtmrAlignID' \in [Timers -> AlignData]
        /\ \A u \in Timers : /\ u # t => g_swtmrAlignID'[u] = g_swtmrAlignID[u]
                             /\ g_swtmrAlignID'[u].canAlign = g_swtmrAlignID[u].canAlign
                             /\ g_swtmrAlignID'[u].times = g_swtmrAlignID[u].times
    BY <1>0, <1>6 DEF Typed
  <2>2. /\ ucState' \in [Timers -> States]
        /\ \A u \in Timers : ucState[u] # "UNUSED" => ucState'[u] # "UNUSED"
        /\ ListsInv' /\ BlockInv' /\ NotEarly
    BY <2>1, <1>0, <1>1, <1>2, <1>3, <1>6, StoppedKeeps
  <2>3. Typed'
    BY <2>1, <2>2, <1>0, <1>1, <1>6 DEF Typed
  <2>4. IdInv'
    BY <2>2, <1>0, <1>1, <1>6, IdsKept
  <2> QED
    BY <2>2, <2>3, <2>4 DEF SwtmrInv
<1> QED
  BY <1>1, <1>4, <1>5, <1>6 DEF OsSwtmrTimeoutHandle

\* Every step keeps the invariant, and takes nothing off the time of a timer.
LEMMA StepHolds ==
  SwtmrInv /\ [SwtmrNext]_swtmrVars => SwtmrInv' /\ ([NotEarly]_swtmrVars)
<1> SUFFICES ASSUME SwtmrInv, [SwtmrNext]_swtmrVars
             PROVE  SwtmrInv' /\ ([NotEarly]_swtmrVars)
  OBVIOUS
<1>1. ASSUME NEW c \in Callers, NEW s \in Settings, LOS_SwtmrCreate(c, s)
      PROVE  SwtmrInv' /\ NotEarly
  BY <1>1, CreateKeeps
<1>2. ASSUME NEW c \in Callers, NEW id \in swtmrId[c],
             LOS_SwtmrStart(id) \/ LOS_SwtmrStop(id) \/ LOS_SwtmrDelete(id, c) \/ Forget(id, c)
      PROVE  SwtmrInv' /\ NotEarly
  BY <1>2, SwtmrStartKeeps, StopKeeps, DeleteKeeps, ForgetKeeps
<1>3. ASSUME NEW t \in Timers, SwtmrStartDeleted(t)
      PROVE  SwtmrInv' /\ NotEarly
  BY <1>3, StartDeletedKeeps
<1>4. CASE OsSwtmrTask \/ ScanEnds
  BY <1>4, OtherKeeps DEF OsSwtmrTask, ScanEnds
<1>5. CASE Cycle
  BY <1>5, CycleKeeps
<1>6. CASE OsSwtmrScan
  BY <1>6, ScanKeeps
<1>7. CASE swtmrVars' = swtmrVars
  BY <1>7, OtherKeeps DEF swtmrVars
<1> QED
  BY <1>1, <1>2, <1>3, <1>4, <1>5, <1>6, <1>7 DEF SwtmrNext, Calls

LEMMA InvHolds ==
  SwtmrSpec => []SwtmrInv
<1>1. SwtmrInv /\ [SwtmrNext]_swtmrVars => SwtmrInv'
  BY StepHolds
<1> QED
  BY InitHolds, <1>1, PTL DEF SwtmrSpec
-----------------------------------------------------------------------------
(* The theorems *)

(***************************************************************************)
(* State, lists and times of the timers agree, for any number of timers    *)
(* and callers and every setting: a timer that runs is in the sorted list  *)
(* once, within its interval, whatever it was aligned with, and a block    *)
(* that is not used is in the free list once.                              *)
(***************************************************************************)
THEOREM TimersAlwaysAgree ==
  SwtmrSpec => []TimersAgree
<1>1. SwtmrInv => TimersAgree
  <2> SUFFICES ASSUME SwtmrInv PROVE TimersAgree
    OBVIOUS
  <2> DEFINE link == g_swtmrSortLinkList
  <2>1. /\ LinkHolds(link, Ticking) /\ g_swtmrFreeList \in Seq(Timers)
        /\ IsInjective(g_swtmrFreeList) /\ ToSet(g_swtmrFreeList) = Unused
    BY DEF SwtmrInv, ListsInv
  <2>2. /\ \A i, j \in DOMAIN link : link[i].timer = link[j].timer => i = j
        /\ {link[i].timer : i \in DOMAIN link} = Ticking
        /\ \A i, j \in DOMAIN link : i < j => link[i].left <= link[j].left
    BY <2>1 DEF LinkHolds
  <2>3. ASSUME NEW t \in Timers
        PROVE  Cardinality(Nodes(t)) = IF ucState[t] = "TICKING" THEN 1 ELSE 0
    <3>1. CASE ucState[t] = "TICKING"
      <4>1. PICK i \in DOMAIN link : link[i].timer = t
        BY <3>1, <2>2 DEF Ticking
      <4>2. Nodes(t) = {i}
        BY <4>1, <2>2 DEF Nodes
      <4> QED
        BY <4>2, <3>1, FS_Singleton
    <3>2. CASE ucState[t] # "TICKING"
      <4>1. Nodes(t) = {}
        BY <3>2, <2>2 DEF Nodes, Ticking
      <4> QED
        BY <4>1, <3>2, FS_EmptySet
    <3> QED
      BY <3>1, <3>2
  <2>4. ASSUME NEW t \in Timers
        PROVE  Contains(g_swtmrFreeList, t) <=> ucState[t] = "UNUSED"
    BY <2>1, ContainsToSet DEF Unused
  <2>5. ~misused => \A i \in DOMAIN link : link[i].left <= Interval(link[i].timer) * CYCLES
    BY DEF SwtmrInv, BlockInv, WithinInterval, ToSet
  <2> QED
    BY <2>1, <2>2, <2>3, <2>4, <2>5 DEF TimersAgree
<1> QED
  BY InvHolds, <1>1, PTL

\* An ID that is accepted is that of a timer created for the caller who has it.
THEOREM TimersAreOwn ==
  SwtmrSpec => []OwnTimer
<1>1. SwtmrInv => OwnTimer
  BY DEF SwtmrInv, IdInv
<1> QED
  BY InvHolds, <1>1, PTL

(***************************************************************************)
(* One-shot timers, and those that are sensitive to alignment, never       *)
(* expire early: whenever one is started all of its interval is ahead,     *)
(* whatever the block was used for before.                                 *)
(***************************************************************************)
THEOREM TimersNeverEarly ==
  SwtmrSpec => NeverEarly
<1>1. SwtmrInv /\ [SwtmrNext]_swtmrVars => [NotEarly]_swtmrVars
  BY StepHolds
<1> QED
  BY InvHolds, <1>1, PTL DEF SwtmrSpec, NeverEarly, NotEarly
==============================================================================
