----------------------------- MODULE HeapProofs -----------------------------
(***************************************************************************)
(* The heap, for any sizes of words, blocks, chunks and pages that fit     *)
(* each other, any linear memory and any requests: no kassert fails, every *)
(* byte that MemoryManager gave has exactly one use, and new and delete    *)
(* implement the pool of objects.                                          *)
(***************************************************************************)
EXTENDS Heap, TLAPS

\* What is known of the two trees' bookkeeping, for the trees of the heap.
Ranges == INSTANCE AddressSpaceProofs WITH
            Usable <- Linear, LockBound <- 0, treeLength <- ByLength, held <- {},
            lockCnt <- 0, halted <- FALSE,
            last <- [op |-> "none", start |-> 0, length |-> 0, slack |-> 0]
-----------------------------------------------------------------------------
(***************************************************************************)
(* The inductive invariant.  lives stands for LiveObjects: of each object, *)
(* whether new[] gave it, and its record.                                  *)
(***************************************************************************)
Lives == BOOLEAN \X [ptr : Nat \ {0}, size : Nat]
Own(e) == Bytes(e[2].ptr, Words(e[2].size))

SmallOf(lives)  == {e \in lives : Small(e[1], e[2].size)}
RangedOf(lives) == {e \in lives : Ranged(e[1], e[2].size)}
PagedOf(lives)  == {e \in lives : Paged(e[1], e[2].size)}

BytesIn(ranges) == UNION {Bytes(r.x, r.y) : r \in ranges}
OwnIn(objs) == UNION {Own(e) : e \in objs}

\* The mappings that are chunks of blocks, the ones that are pages of an object, and
\* the rest: chunks of free ranges.
PoolMaps(chunks) == {Mapping(c, POOL) : c \in chunks}
PageMap(e) == Mapping(e[2].ptr, RoundUp(Words(e[2].size), PAGE))
PageMaps(objs) == {PageMap(e) : e \in objs}
RangeMaps(maps, chunks, objs) == maps \ (PoolMaps(chunks) \cup PageMaps(objs))

\* Mappings are not empty and do not overlap.
MapsSound(maps) ==
  /\ \A m \in maps : m \in RangePair /\ m.y > 0 /\ Bytes(m.x, m.y) \subseteq Linear
  /\ \A m, n \in maps : m # n => Bytes(m.x, m.y) \cap Bytes(n.x, n.y) = {}

\* The objects served by pages have one mapping each, of their own, at a page.
PagesSound(objs, chunks, maps) ==
  /\ PageMaps(objs) \subseteq maps /\ PageMaps(objs) \cap PoolMaps(chunks) = {}
  /\ \A e \in objs : e[2].ptr % PAGE = 0
  /\ \A e, f \in objs : e[2].ptr = f[2].ptr => e = f

\* Free ranges are whole words, not empty, and do not touch.
Alone(ranges) ==
  /\ ranges \subseteq RangePair
  /\ \A r \in ranges : r.y > 0 /\ r.x % WORD = 0 /\ r.y % WORD = 0
  /\ \A r, s \in ranges : r # s => r.x + r.y < s.x \/ s.x + s.y < r.x

\* The chunks of ranges are what is free in the trees and what objects own.
RangesSound(tree, objs, maps) ==
  /\ Alone(tree)
  /\ \A m \in maps : m.y = CHUNK /\ m.x % CHUNK = 0
  /\ BytesIn(maps) = BytesIn(tree) \cup OwnIn(objs)
  /\ BytesIn(tree) \cap OwnIn(objs) = {}
  /\ \A e \in objs : e[2].ptr % WORD = 0
  /\ \A e, f \in objs : e # f => Own(e) \cap Own(f) = {}

\* Every block a PrimitiveHeap has is in a chunk of ph2048 and in that heap only; the
\* objects in use are the live ones, each in a block of its size.
SmallSound(objs, blocks, inUse, chunks, heaps, maps) ==
  /\ PoolMaps(chunks) \subseteq maps
  /\ \A c \in chunks : c \in Nat /\ c % POOL = 0
  /\ \A b \in blocks : /\ b \in [block : Nat, size : 1 .. LIMIT]
                       /\ \E c \in chunks : b.block \in BlocksOf(c)
  /\ \A b, d \in blocks : b.block = d.block => b = d
  /\ inUse = {e[2].ptr : e \in objs}
  /\ \A e \in objs : /\ Words(e[2].size) \in heaps
                     /\ \E b \in blocks : /\ b.size = Words(e[2].size)
                                          /\ e[2].ptr \in ObjectsOf(b.block, b.size)
  /\ \A e, f \in objs : e[2].ptr = f[2].ptr => e = f

\* The cache names the heap of each size it holds.
CacheSound(cache, index, heaps) ==
  /\ cache \in [1 .. CACHE -> [size : Nat, ph : Nat]] /\ index \in 1 .. CACHE
  /\ heaps \subseteq Nat \ {0}
  /\ \A i \in 1 .. CACHE : /\ cache[i].ph = cache[i].size
                           /\ cache[i].size # 0 => cache[i].size \in heaps

Sound(lives, tree, blocks, inUse, chunks, heaps, maps) ==
  /\ lives \subseteq Lives
  /\ MapsSound(maps)
  /\ PagesSound(PagedOf(lives), chunks, maps)
  /\ SmallSound(SmallOf(lives), blocks, inUse, chunks, heaps, maps)
  /\ RangesSound(tree, RangedOf(lives), RangeMaps(maps, chunks, PagedOf(lives)))

IInv ==
  /\ Sound(LiveObjects, treeStart, slabs, taken, pool, pHeaps, mapped)
  /\ CacheSound(sppCache, sppCacheIndex, pHeaps)
  /\ machine # "kassert"
-----------------------------------------------------------------------------
(***************************************************************************)
(* Division and multiples.                                                 *)
(***************************************************************************)
\* Quotient and remainder.
LEMMA Division ==
  ASSUME NEW a \in Int, NEW d \in Nat \ {0}
  PROVE  a \div d \in Int /\ a % d \in 0 .. d - 1 /\ a = d * (a \div d) + (a % d)
OBVIOUS

\* They are the only ones.
LEMMA DivisionUnique ==
  ASSUME NEW d \in Nat \ {0}, NEW q \in Int, NEW r \in 0 .. d - 1
  PROVE  (d * q + r) % d = r /\ (d * q + r) \div d = q
<1> DEFINE a == d * q + r
<1>1. a \in Int /\ a \div d \in Int /\ a % d \in 0 .. d - 1 /\ a = d * (a \div d) + (a % d)
  BY Division
<1>2. d * (q - (a \div d)) = (a % d) - r
  BY <1>1
<1>3. CASE q - (a \div d) >= 1
  <2>1. d * (q - (a \div d)) >= d
    BY <1>1, <1>3
  <2> QED BY <1>1, <1>2, <2>1
<1>4. CASE q - (a \div d) <= -1
  <2>1. d * (q - (a \div d)) <= -d
    BY <1>1, <1>4
  <2> QED BY <1>1, <1>2, <2>1
<1>5. CASE q - (a \div d) = 0
  BY <1>1, <1>2, <1>5
<1> QED BY <1>1, <1>3, <1>4, <1>5

\* An offset of less than d from a multiple of d is the remainder.
LEMMA Offset ==
  ASSUME NEW d \in Nat \ {0}, NEW a \in Int, a % d = 0, NEW r \in 0 .. d - 1
  PROVE  (a + r) % d = r
<1>1. a \div d \in Int /\ a = d * (a \div d)
  BY Division
<1>2. (d * (a \div d) + r) % d = r
  BY <1>1, DivisionUnique
<1> QED BY <1>1, <1>2

\* Sums and differences of multiples are multiples.
LEMMA SumOfMultiples ==
  ASSUME NEW d \in Nat \ {0}, NEW a \in Int, NEW b \in Int, a % d = 0, b % d = 0
  PROVE  (a + b) % d = 0 /\ (a - b) % d = 0
<1>1. a \div d \in Int /\ b \div d \in Int /\ a = d * (a \div d) /\ b = d * (b \div d)
  BY Division
<1> DEFINE q == (a \div d) + (b \div d)
           s == (a \div d) - (b \div d)
<1>2. a + b = d * q + 0 /\ a - b = d * s + 0
  BY <1>1
<1>3. q \in Int /\ s \in Int /\ 0 \in 0 .. d - 1
  BY <1>1
<1> HIDE DEF q, s
<1> QED BY <1>2, <1>3, DivisionUnique

\* And so are products.
LEMMA ProductOfMultiple ==
  ASSUME NEW d \in Nat \ {0}, NEW a \in Int, NEW b \in Int, a % d = 0
  PROVE  (a * b) % d = 0
<1>1. a \div d \in Int /\ a = d * (a \div d)
  BY Division
<1> DEFINE q == (a \div d) * b
<1>2. a * b = d * q + 0
  BY <1>1
<1>3. q \in Int /\ 0 \in 0 .. d - 1
  BY <1>1
<1> HIDE DEF q
<1> QED BY <1>2, <1>3, DivisionUnique

\* A multiple of a multiple is a multiple.
LEMMA MultipleOfMultiple ==
  ASSUME NEW d \in Nat \ {0}, NEW b \in Nat \ {0}, NEW a \in Int, a % b = 0, b % d = 0
  PROVE  a % d = 0
<1>1. a \div b \in Int /\ a = b * (a \div b)
  BY Division
<1> DEFINE c == b * (a \div b)
<1>2. c % d = 0
  <2>1. b \in Int
    OBVIOUS
  <2> QED BY <1>1, <2>1, ProductOfMultiple, Zenon
<1>3. a = c
  BY <1>1
<1> HIDE DEF c
<1> QED BY <1>2, <1>3

\* Two multiples of d that differ, differ by d at least.
LEMMA MultiplesApart ==
  ASSUME NEW d \in Nat \ {0}, NEW a \in Int, NEW b \in Int, a % d = 0, b % d = 0, a < b
  PROVE  a + d <= b
<1>1. CASE b - a < d
  <2>1. b - a \in 0 .. d - 1
    BY <1>1
  <2>2. (a + (b - a)) % d = b - a
    BY <2>1, Offset
  <2>3. a + (b - a) = b
    OBVIOUS
  <2> QED BY <2>2, <2>3
<1> QED BY <1>1

\* Rounding up yields a multiple, which is not less.
LEMMA RoundUpIs ==
  ASSUME NEW n \in Nat \ {0}, NEW to \in Nat \ {0}
  PROVE  RoundUp(n, to) \in Nat \ {0} /\ RoundUp(n, to) >= n /\ RoundUp(n, to) % to = 0
<1>1. n \div to \in Int /\ n % to \in 0 .. to - 1 /\ n = to * (n \div to) + (n % to)
  BY Division
<1>2. CASE n % to = 0
  BY <1>2 DEF RoundUp
<1>3. CASE n % to # 0
  <2> DEFINE q == (n \div to) + 1
  <2>1. RoundUp(n, to) = (n + to) - (n % to)
    BY <1>3 DEF RoundUp
  <2>2. RoundUp(n, to) = to * q + 0
    BY <1>1, <2>1
  <2>3. q \in Int /\ 0 \in 0 .. to - 1
    BY <1>1
  <2>4. (to * q + 0) % to = 0
    BY <2>3, DivisionUnique
  <2> HIDE DEF q
  <2>5. RoundUp(n, to) % to = 0
    BY <2>2, <2>4
  <2> QED BY <1>1, <2>1, <2>5
<1> QED BY <1>2, <1>3

\* The heap meets what AddressSpaceManager assumes of its constants.
LEMMA SpaceAssumptions ==
  /\ PAGE \in Nat \ {0} /\ Linear \subseteq Nat \ {0} /\ 0 \in Nat
  /\ Ranges!IsFiniteSet(Linear)
<1>1. Ranges!IsFiniteSet(Linear)
  BY LinearAssumption DEF IsFiniteSet, Ranges!IsFiniteSet
<1> QED BY <1>1, LinearAssumption, SizesAssumption

\* The lowest of a set of numbers is in it.
LEMMA LowestIn ==
  ASSUME NEW S \in SUBSET Nat, S # {}
  PROVE  Lowest(S) \in S
<1>1. \E a \in S : \A b \in S : a <= b
  BY SpaceAssumptions, Ranges!NatMin
<1> QED BY <1>1 DEF Lowest
-----------------------------------------------------------------------------
(***************************************************************************)
(* Sizes, and the places of blocks and objects.                            *)
(***************************************************************************)
\* The constants are positive numbers.
LEMMA Positive ==
  /\ WORD \in Nat \ {0} /\ LIMIT \in Nat \ {0} /\ BLOCK \in Nat \ {0} /\ HEADER \in Nat \ {0}
  /\ POOL \in Nat \ {0} /\ CHUNK \in Nat \ {0} /\ PAGE \in Nat \ {0} /\ CACHE \in Nat \ {0}
BY SizesAssumption

\* Every unit of memory is whole words.
LEMMA WholeWords ==
  /\ BLOCK % WORD = 0 /\ HEADER % WORD = 0 /\ PAGE % WORD = 0
  /\ POOL % WORD = 0 /\ CHUNK % WORD = 0
<1>i. POOL \in Int /\ CHUNK \in Int
  BY Positive
<1>1. POOL % WORD = 0
  <2>1. POOL % BLOCK = 0 /\ BLOCK % WORD = 0
    BY SizesAssumption
  <2> QED BY <1>i, <2>1, Positive, MultipleOfMultiple, Zenon
<1>2. (WORD * 2) % WORD = 0
  <2>1. (WORD * 2 + 0) % WORD = 0
    BY Positive, DivisionUnique
  <2> QED BY <2>1, Positive
<1>3. 2 * WORD = WORD * 2 /\ WORD * 2 \in Nat \ {0}
  BY Positive
<1>4. CHUNK % (WORD * 2) = 0
  BY <1>3, SizesAssumption
<1>5. CHUNK % WORD = 0
  BY <1>i, <1>2, <1>3, <1>4, Positive, MultipleOfMultiple, Zenon
<1> QED BY <1>1, <1>5, SizesAssumption

\* A request in whole words.
LEMMA WordsIs ==
  ASSUME NEW size \in Nat
  PROVE  /\ Words(size) \in Nat \ {0} /\ Words(size) >= size /\ Words(size) % WORD = 0
BY Positive, RoundUpIs DEF Words

\* At least two objects fit in a block, behind its header.
LEMMA FitIs ==
  ASSUME NEW size \in 1 .. LIMIT
  PROVE  Fit(size) \in Nat /\ Fit(size) >= 2 /\ HEADER + size * Fit(size) <= BLOCK
<1> DEFINE room == BLOCK - HEADER
<1>1. /\ room \div size \in Int /\ room % size \in 0 .. size - 1
      /\ room = size * (room \div size) + (room % size)
  BY Positive, Division
<1>2. room >= 2 * LIMIT
  <2>1. /\ room \div LIMIT \in Int /\ room % LIMIT \in 0 .. LIMIT - 1
        /\ room = LIMIT * (room \div LIMIT) + (room % LIMIT)
    <3>1. room \in Int
      BY Positive
    <3> HIDE DEF room
    <3> QED BY <3>1, Positive, Division
  <2>2. LIMIT * (room \div LIMIT) >= LIMIT * 2
    BY <2>1, Positive, SizesAssumption
  <2> QED BY <2>1, <2>2, Positive
<1>3. room \div size >= 2
  <2>1. CASE room \div size <= 1
    <3>1. size * (room \div size) <= size
      BY <1>1, <2>1
    <3> QED BY <1>1, <1>2, <3>1, Positive
  <2> QED BY <1>1, <2>1
<1> QED BY <1>1, <1>3, Positive DEF Fit

\* An object lies in its block, which is what its address says, and apart from the
\* others of the block.
LEMMA ObjectPlace ==
  ASSUME NEW size \in 1 .. LIMIT, NEW b \in Nat, b % BLOCK = 0, NEW p \in ObjectsOf(b, size)
  PROVE  /\ p \in Nat /\ b < p /\ p + size <= b + BLOCK
         /\ p - (p % BLOCK) = b
         /\ \A q \in ObjectsOf(b, size) : p < q => p + size <= q
<1>1. Fit(size) \in Nat /\ HEADER + size * Fit(size) <= BLOCK
  BY FitIs
<1>2. PICK i \in 0 .. Fit(size) - 1 : p = b + HEADER + size * i
  BY DEF ObjectsOf
<1>3. size * i + size <= size * Fit(size) /\ size * i \in Nat
  <2>1. size * (i + 1) <= size * Fit(size)
    BY <1>1
  <2> QED BY <2>1
<1>4. p \in Nat /\ b < p /\ p + size <= b + BLOCK
  BY <1>1, <1>2, <1>3, Positive
<1>5. p % BLOCK = p - b
  <2>1. p - b \in 0 .. BLOCK - 1 /\ b + (p - b) = p
    BY <1>4, Positive
  <2>2. (b + (p - b)) % BLOCK = p - b
    BY <2>1, Positive, Offset
  <2> QED BY <2>1, <2>2
<1>6. ASSUME NEW q \in ObjectsOf(b, size), p < q PROVE p + size <= q
  <2>1. PICK j \in 0 .. Fit(size) - 1 : q = b + HEADER + size * j
    BY DEF ObjectsOf
  <2>2. j > i
    <3>1. CASE j <= i
      <4>1. size * j <= size * i
        BY <3>1
      <4> QED BY <1>2, <1>3, <1>6, <2>1, <4>1, Positive
    <3> QED BY <1>1, <3>1
  <2>3. size * j >= size * i + size
    <3>1. size * j >= size * (i + 1)
      BY <2>2, <1>1
    <3> QED BY <3>1
  <2> QED BY <1>2, <1>3, <2>1, <2>3, Positive
<1> QED BY <1>4, <1>5, <1>6

\* There are objects in a block, at whole words.
LEMMA ObjectsThere ==
  ASSUME NEW size \in 1 .. LIMIT, NEW b \in Nat
  PROVE  /\ ObjectsOf(b, size) # {} /\ ObjectsOf(b, size) \subseteq Nat
         /\ b % WORD = 0 /\ size % WORD = 0 => \A p \in ObjectsOf(b, size) : p % WORD = 0
<1>1. Fit(size) \in Nat /\ Fit(size) >= 2
  BY FitIs
<1>2. b + HEADER + size * 0 \in ObjectsOf(b, size)
  BY <1>1 DEF ObjectsOf
<1>3. ASSUME NEW p \in ObjectsOf(b, size)
      PROVE  p \in Nat /\ (b % WORD = 0 /\ size % WORD = 0 => p % WORD = 0)
  <2>1. PICK i \in 0 .. Fit(size) - 1 : p = b + HEADER + size * i
    BY DEF ObjectsOf
  <2>2. size * i \in Nat
    BY <1>1
  <2>3. ASSUME b % WORD = 0, size % WORD = 0 PROVE p % WORD = 0
    <3>1. (size * i) % WORD = 0
      <4>1. size \in Int /\ i \in Int
        BY <1>1
      <4> QED BY <2>3, <4>1, Positive, ProductOfMultiple, Zenon
    <3>2. (b + HEADER) % WORD = 0
      <4>1. b \in Int /\ HEADER \in Int
        BY Positive
      <4> QED BY <2>3, <4>1, Positive, WholeWords, SumOfMultiples, Zenon
    <3>3. b + HEADER \in Int /\ size * i \in Int
      BY <2>2, Positive
    <3>4. ((b + HEADER) + size * i) % WORD = 0
      BY <3>1, <3>2, <3>3, Positive, SumOfMultiples, Zenon
    <3> QED BY <2>1, <3>4
  <2> QED BY <2>1, <2>2, <2>3, Positive
<1> QED BY <1>2, <1>3

\* A block lies in its chunk, which is what its address says, behind the first block.
LEMMA BlockPlace ==
  ASSUME NEW c \in Nat, c % POOL = 0, NEW b \in BlocksOf(c)
  PROVE  /\ b \in Nat /\ b % BLOCK = 0 /\ c < b /\ b + BLOCK <= c + POOL
         /\ b - (b % POOL) = c
<1> DEFINE n == POOL \div BLOCK
<1>1. n \in Int /\ n >= 3 /\ POOL = BLOCK * n
  BY Positive, SizesAssumption, Division
<1>2. PICK i \in 1 .. n - 1 : b = c + BLOCK * i
  BY DEF BlocksOf
<1> HIDE DEF n
<1>3. BLOCK * i + BLOCK <= POOL /\ BLOCK * i > 0 /\ BLOCK * i \in Nat
  <2>1. BLOCK * (i + 1) <= BLOCK * n
    BY <1>1, Positive
  <2>2. BLOCK * i >= BLOCK
    BY <1>1, Positive
  <2> QED BY <1>1, <2>1, <2>2, Positive
<1>4. b % BLOCK = 0
  <2>1. c % BLOCK = 0
    <3>1. c \in Int /\ POOL % BLOCK = 0
      BY SizesAssumption
    <3> QED BY <3>1, Positive, MultipleOfMultiple, Zenon
  <2>2. (BLOCK * i) % BLOCK = 0
    <3>1. (BLOCK * i + 0) % BLOCK = 0
      BY <1>1, Positive, DivisionUnique
    <3> QED BY <1>3, <3>1
  <2> QED BY <1>2, <1>3, <2>1, <2>2, Positive, SumOfMultiples
<1>5. (c + BLOCK * i) % POOL = BLOCK * i
  <2>1. BLOCK * i \in 0 .. POOL - 1
    BY <1>3, Positive
  <2>2. c \in Int
    OBVIOUS
  <2> QED BY <2>1, <2>2, Positive, Offset, Zenon
<1> QED BY <1>2, <1>3, <1>4, <1>5, Positive

\* There are blocks in a chunk.
LEMMA BlocksThere ==
  ASSUME NEW c \in Nat
  PROVE  BlocksOf(c) # {} /\ BlocksOf(c) \subseteq Nat
<1>1. POOL \div BLOCK \in Int /\ POOL \div BLOCK >= 3
  BY Positive, SizesAssumption, Division
<1>2. c + BLOCK * 1 \in BlocksOf(c)
  BY <1>1 DEF BlocksOf
<1>3. ASSUME NEW i \in 1 .. POOL \div BLOCK - 1 PROVE c + BLOCK * i \in Nat
  BY <1>1, Positive
<1> QED BY <1>2, <1>3 DEF BlocksOf
-----------------------------------------------------------------------------
(***************************************************************************)
(* The trees of free ranges.                                               *)
(***************************************************************************)
\* Both instances of the bookkeeping are the same.
LEMMA SpaceIs ==
  /\ Ranges!RangePair = RangePair
  /\ Alone(treeStart) => treeStart \subseteq RangePair /\ Ranges!Apart
  /\ Ranges!FreeBytes = BytesIn(treeStart)
  /\ \A start, length :
       /\ Ranges!Bytes(start, length) = Bytes(start, length)
       /\ Ranges!AlreadyFree(start, length) <=> Space!AlreadyFree(start, length)
       /\ Ranges!MergedBefore(start) = Space!MergedBefore(start)
       /\ Ranges!MergedAfter(start, length) = Space!MergedAfter(start, length)
       /\ Ranges!MergedRange(start, length) = Space!MergedRange(start, length)
<1>1. Ranges!RangePair = RangePair
  BY DEF RangePair, Ranges!RangePair
<1>2. ASSUME NEW tree, NEW key
      PROVE  /\ Ranges!UpperBound(tree, key) = Space!UpperBound(tree, key)
             /\ Ranges!LowerBound(tree, key) = Space!LowerBound(tree, key)
  BY DEF Ranges!UpperBound, Ranges!LowerBound, Ranges!LessEq,
         Space!UpperBound, Space!LowerBound, Space!LessEq
<1>3. ASSUME NEW start
      PROVE  /\ Ranges!Before(start) = Space!Before(start)
             /\ Ranges!MergedBefore(start) = Space!MergedBefore(start)
  BY <1>2 DEF Ranges!Before, Space!Before, Ranges!MergedBefore, Space!MergedBefore
<1>4. ASSUME NEW start PROVE Ranges!After(start) = Space!After(start)
  BY <1>2, <1>3 DEF Ranges!After, Space!After
<1>5. ASSUME NEW start, NEW length
      PROVE  /\ Ranges!Bytes(start, length) = Bytes(start, length)
             /\ Ranges!AlreadyFree(start, length) <=> Space!AlreadyFree(start, length)
             /\ Ranges!MergedAfter(start, length) = Space!MergedAfter(start, length)
  BY <1>3, <1>4 DEF Ranges!Bytes, Bytes, Ranges!AlreadyFree, Space!AlreadyFree,
                    Ranges!MergedAfter, Space!MergedAfter
<1>6. ASSUME NEW start, NEW length
      PROVE  Ranges!MergedRange(start, length) = Space!MergedRange(start, length)
  <2> DEFINE range(before, after) ==
               LET mergedStart == IF before = {} THEN start ELSE (CHOOSE p \in before : TRUE).x
                   mergedEnd   == IF after = {} THEN start + length
                                  ELSE LET p == CHOOSE p \in after : TRUE IN p.x + p.y
               IN  [x |-> mergedStart, y |-> mergedEnd - mergedStart]
  <2>1. /\ Ranges!MergedRange(start, length)
             = range(Ranges!MergedBefore(start), Ranges!MergedAfter(start, length))
        /\ Space!MergedRange(start, length)
             = range(Space!MergedBefore(start), Space!MergedAfter(start, length))
    BY DEF Ranges!MergedRange, Space!MergedRange
  <2> HIDE DEF range
  <2> QED BY <1>3, <1>5, <2>1
<1>7. Alone(treeStart) => treeStart \subseteq RangePair /\ Ranges!Apart
  BY DEF Alone, Ranges!Apart
<1>8. Ranges!FreeBytes = BytesIn(treeStart)
  BY <1>5 DEF Ranges!FreeBytes, BytesIn
<1> QED BY <1>1, <1>3, <1>5, <1>6, <1>7, <1>8

\* What merging finds, and the range it makes.
LEMMA MergedIs ==
  ASSUME Alone(treeStart), NEW start \in Nat, NEW length \in Nat \ {0},
         start % WORD = 0, length % WORD = 0, ~Space!AlreadyFree(start, length)
  PROVE  LET range  == Space!MergedRange(start, length)
             merged == Space!MergedBefore(start) \cup Space!MergedAfter(start, length)
         IN  /\ range \in RangePair /\ range.y > 0 /\ merged \subseteq treeStart
             /\ range.x % WORD = 0 /\ range.y % WORD = 0
             /\ \A a \in Nat :
                  a \in Bytes(range.x, range.y) <=>
                    a \in Bytes(start, length) \/ \E p \in merged : a \in Bytes(p.x, p.y)
             /\ \A q \in treeStart \ merged :
                  q.x + q.y < range.x \/ range.x + range.y < q.x
<1> DEFINE range  == Space!MergedRange(start, length)
           before == Space!MergedBefore(start)
           after  == Space!MergedAfter(start, length)
           merged == before \cup after
<1>1. /\ range \in RangePair /\ range.y > 0
      /\ \A a \in Nat :
           a \in Bytes(range.x, range.y) <=>
             a \in Bytes(start, length) \/ \E p \in merged : a \in Bytes(p.x, p.y)
      /\ \A q \in treeStart \ merged : q.x + q.y < range.x \/ range.x + range.y < q.x
  <2>1. treeStart \subseteq Ranges!RangePair /\ Ranges!Apart /\ ~Ranges!AlreadyFree(start, length)
    BY SpaceIs
  <2>2. LET r == Ranges!MergedRange(start, length)
            m == Ranges!MergedBefore(start) \cup Ranges!MergedAfter(start, length)
        IN  /\ r \in Ranges!RangePair
            /\ r.y > 0
            /\ \A a \in Nat :
                 a \in Ranges!Bytes(r.x, r.y) <=>
                   a \in Ranges!Bytes(start, length) \/ \E p \in m : a \in Ranges!Bytes(p.x, p.y)
            /\ \A q \in treeStart \ m : q.x + q.y < r.x \/ r.x + r.y < q.x
    BY <2>1, SpaceAssumptions, Ranges!MergedRangeIs
  <2> QED BY <2>2, SpaceIs
<1>2. before \subseteq treeStart /\ after \subseteq treeStart
  BY DEF Space!MergedBefore, Space!Before, Space!UpperBound, Space!MergedAfter, Space!After,
         Space!LowerBound
<1>3. ASSUME NEW p \in treeStart
      PROVE  /\ p.x \in Nat /\ p.y \in Nat /\ p.x % WORD = 0
             /\ (p.x + p.y) % WORD = 0
  <2>1. p.x \in Int /\ p.y \in Int /\ p.x % WORD = 0 /\ p.y % WORD = 0
    BY DEF Alone, RangePair
  <2>2. (p.x + p.y) % WORD = 0
    BY <2>1, Positive, SumOfMultiples, Zenon
  <2> QED BY <2>1, <2>2 DEF Alone, RangePair
<1>4. start + length \in Int /\ (start + length) % WORD = 0
  <2>1. start \in Int /\ length \in Int
    OBVIOUS
  <2>2. (start + length) % WORD = 0
    BY <2>1, Positive, SumOfMultiples, Zenon
  <2> QED BY <2>2
<1> DEFINE first == IF before = {} THEN start ELSE (CHOOSE p \in before : TRUE).x
           last  == IF after = {} THEN start + length
                    ELSE LET p == CHOOSE p \in after : TRUE IN p.x + p.y
<1>5. range = [x |-> first, y |-> last - first]
  BY DEF Space!MergedRange
<1>6. first \in Int /\ first % WORD = 0
  <2>1. CASE before = {}
    BY <2>1
  <2>2. CASE before # {}
    <3>1. (CHOOSE p \in before : TRUE) \in before
      BY <2>2
    <3> QED BY <1>2, <1>3, <2>2, <3>1
  <2> QED BY <2>1, <2>2
<1>7. last \in Int /\ last % WORD = 0
  <2>1. CASE after = {}
    BY <1>4, <2>1
  <2>2. CASE after # {}
    <3>1. PICK p \in after : last = p.x + p.y
      BY <2>2
    <3> QED BY <1>2, <1>3, <3>1
  <2> QED BY <2>1, <2>2
<1> HIDE DEF range, before, after, first, last
<1>8. range.x % WORD = 0 /\ range.y % WORD = 0
  <2>1. (last - first) % WORD = 0
    BY <1>6, <1>7, Positive, SumOfMultiples, Zenon
  <2> QED BY <1>5, <1>6, <2>1
<1>9. merged \subseteq treeStart
  BY <1>2
<1> QED BY <1>1, <1>8, <1>9 DEF range, before, after

\* A range with no byte that is free can be freed: the trees then have its bytes too,
\* and a range of them is what it was merged to.
LEMMA FreedKeeps ==
  ASSUME Alone(treeStart), NEW start \in Nat, NEW length \in Nat \ {0},
         start % WORD = 0, length % WORD = 0,
         Bytes(start, length) \cap BytesIn(treeStart) = {}
  PROVE  /\ ~Space!AlreadyFree(start, length)
         /\ Alone(Freed(start, length))
         /\ BytesIn(Freed(start, length)) = BytesIn(treeStart) \cup Bytes(start, length)
         /\ Space!MergedRange(start, length) \in Freed(start, length)
         /\ Unmerged(start, length) = Freed(start, length) \ {Space!MergedRange(start, length)}
<1>1. ~Space!AlreadyFree(start, length)
  <2>1. SUFFICES ASSUME Ranges!AlreadyFree(start, length) PROVE FALSE
    BY SpaceIs
  <2>2. treeStart \subseteq Ranges!RangePair /\ Ranges!Apart
    BY SpaceIs
  <2>3. Ranges!Bytes(start, length) \cap Ranges!FreeBytes # {}
    BY <2>1, <2>2, SpaceAssumptions, Ranges!AlreadyFreeIsFree
  <2> QED BY <2>3, SpaceIs
<1> DEFINE range  == Space!MergedRange(start, length)
           merged == Space!MergedBefore(start) \cup Space!MergedAfter(start, length)
           others == treeStart \ merged
<1>2. /\ range \in RangePair /\ range.y > 0 /\ merged \subseteq treeStart
      /\ range.x % WORD = 0 /\ range.y % WORD = 0
      /\ \A a \in Nat :
           a \in Bytes(range.x, range.y) <=>
             a \in Bytes(start, length) \/ \E p \in merged : a \in Bytes(p.x, p.y)
      /\ \A q \in treeStart \ merged : q.x + q.y < range.x \/ range.x + range.y < q.x
  BY <1>1, MergedIs
<1>3. Unmerged(start, length) = others /\ Freed(start, length) = others \cup {range}
  BY DEF Unmerged, Freed
<1> HIDE DEF range, merged
<1>4. range \notin others
  BY <1>2 DEF RangePair
<1>5. Alone(others \cup {range})
  BY <1>2 DEF Alone
<1>6. ASSUME NEW a PROVE a \in BytesIn(others \cup {range}) <=> a \in BytesIn(treeStart) \/ a \in Bytes(start, length)
  <2>1. a \in BytesIn(others \cup {range}) => a \in Nat
    BY <1>2 DEF BytesIn, Bytes, Alone, RangePair
  <2>2. a \in BytesIn(treeStart) \/ a \in Bytes(start, length) => a \in Nat
    BY DEF BytesIn, Bytes, Alone, RangePair
  <2>3. a \in BytesIn(others \cup {range}) <=> a \in Bytes(range.x, range.y) \/ \E p \in others : a \in Bytes(p.x, p.y)
    BY DEF BytesIn
  <2>4. a \in BytesIn(treeStart) <=> (\E p \in others : a \in Bytes(p.x, p.y)) \/ \E p \in merged : a \in Bytes(p.x, p.y)
    BY <1>2 DEF BytesIn
  <2> HIDE DEF others
  <2> QED BY <1>2, <2>1, <2>2, <2>3, <2>4
<1>7. BytesIn(others \cup {range}) = BytesIn(treeStart) \cup Bytes(start, length)
  BY <1>6
<1> QED BY <1>1, <1>3, <1>4, <1>5, <1>7 DEF range

\* Taking a piece out of a range leaves what is left of it on either side.
LEMMA CutKeeps ==
  ASSUME NEW tree, Alone(tree), NEW r \in tree,
         NEW start \in Nat, NEW length \in Nat \ {0}, start % WORD = 0, length % WORD = 0,
         r.x <= start, start + length <= r.x + r.y
  PROVE  LET left == {Flip(rest) : rest \in Space!Leftovers([x |-> length, y |-> start], Flip(r))}
             cut  == (tree \ {r}) \cup left
         IN  Alone(cut) /\ BytesIn(cut) = BytesIn(tree) \ Bytes(start, length)
<1> DEFINE left == {Flip(rest) : rest \in Space!Leftovers([x |-> length, y |-> start], Flip(r))}
           cut  == (tree \ {r}) \cup left
           low  == [x |-> r.x, y |-> start - r.x]
           high == [x |-> start + length, y |-> (r.x + r.y) - (start + length)]
<1>1. r.x \in Nat /\ r.y \in Nat /\ r.x % WORD = 0 /\ r.y % WORD = 0 /\ r = [x |-> r.x, y |-> r.y]
  BY DEF Alone, RangePair
<1>2. left = (IF r.x < start THEN {low} ELSE {}) \cup (IF r.x + r.y > start + length THEN {high} ELSE {})
  <2> DEFINE lows  == IF r.x < start THEN {[x |-> start - r.x, y |-> r.x]} ELSE {}
             highs == IF r.x + r.y > start + length
                      THEN {[x |-> (r.x + r.y) - (start + length), y |-> start + length]} ELSE {}
  <2>1. Space!Leftovers([x |-> length, y |-> start], Flip(r)) = lows \cup highs
    BY <1>1 DEF Space!Leftovers, Flip
  <2>f. Flip([x |-> start - r.x, y |-> r.x]) = low
        /\ Flip([x |-> (r.x + r.y) - (start + length), y |-> start + length]) = high
    BY DEF Flip
  <2> HIDE DEF low, high
  <2>2. {Flip(rest) : rest \in lows} = IF r.x < start THEN {low} ELSE {}
    <3>1. CASE r.x < start
      BY <2>f, <3>1
    <3>2. CASE ~(r.x < start)
      BY <3>2
    <3> QED BY <3>1, <3>2
  <2>3. {Flip(rest) : rest \in highs} = IF r.x + r.y > start + length THEN {high} ELSE {}
    <3>1. CASE r.x + r.y > start + length
      BY <2>f, <3>1
    <3>2. CASE ~(r.x + r.y > start + length)
      BY <3>2
    <3> QED BY <3>1, <3>2
  <2>4. left = {Flip(rest) : rest \in lows} \cup {Flip(rest) : rest \in highs}
    BY <2>1
  <2> QED BY <2>2, <2>3, <2>4
<1>3. low.y % WORD = 0 /\ high.x % WORD = 0 /\ high.y % WORD = 0
  <2>1. r.x \in Int /\ r.y \in Int /\ start \in Int /\ length \in Int /\ r.x + r.y \in Int /\ start + length \in Int
    BY <1>1
  <2>2. (start - r.x) % WORD = 0 /\ (start + length) % WORD = 0 /\ (r.x + r.y) % WORD = 0
    BY <1>1, <2>1, Positive, SumOfMultiples, Zenon
  <2>3. ((r.x + r.y) - (start + length)) % WORD = 0
    BY <2>1, <2>2, Positive, SumOfMultiples, Zenon
  <2> QED BY <2>2, <2>3
<1>4. ASSUME NEW p \in left
      PROVE  /\ p \in RangePair /\ p.y > 0 /\ p.x % WORD = 0 /\ p.y % WORD = 0
             /\ r.x <= p.x /\ p.x + p.y <= r.x + r.y
             /\ (p = low /\ r.x < start) \/ (p = high /\ r.x + r.y > start + length)
  <2>1. CASE p = low /\ r.x < start
    <3>1. p.x = r.x /\ p.y = start - r.x /\ start - r.x \in Nat /\ start - r.x > 0
      BY <1>1, <2>1
    <3>2. p \in RangePair
      BY <1>1, <2>1, <3>1 DEF RangePair
    <3>3. r.x <= p.x /\ p.x + p.y <= r.x + r.y
      BY <1>1, <3>1
    <3>4. p.y = low.y
      BY <2>1
    <3>5. p.x % WORD = 0 /\ p.y % WORD = 0
      BY <1>1, <1>3, <3>1, <3>4
    <3> QED BY <2>1, <3>1, <3>2, <3>3, <3>5
  <2>2. CASE p = high /\ r.x + r.y > start + length
    BY <1>1, <1>3, <2>2 DEF RangePair
  <2> HIDE DEF low, high, left
  <2> QED BY <1>2, <2>1, <2>2
<1>5. Alone(cut)
  <2>1. \A p \in cut : p \in RangePair /\ p.y > 0 /\ p.x % WORD = 0 /\ p.y % WORD = 0
    BY <1>4 DEF Alone
  <2>2. ASSUME NEW p \in cut, NEW q \in cut, p # q PROVE p.x + p.y < q.x \/ q.x + q.y < p.x
    <3>1. CASE p \in tree /\ q \in tree
      BY <2>2, <3>1 DEF Alone
    <3>2. CASE p \in left /\ q \in tree \ {r}
      <4>1. r.x + r.y < q.x \/ q.x + q.y < r.x
        BY <3>2 DEF Alone
      <4>2. q.x \in Nat /\ q.y \in Nat
        BY <3>2 DEF Alone, RangePair
      <4> QED BY <1>1, <1>4, <3>2, <4>1, <4>2 DEF RangePair
    <3>3. CASE q \in left /\ p \in tree \ {r}
      <4>1. r.x + r.y < p.x \/ p.x + p.y < r.x
        BY <3>3 DEF Alone
      <4>2. p.x \in Nat /\ p.y \in Nat
        BY <3>3 DEF Alone, RangePair
      <4> QED BY <1>1, <1>4, <3>3, <4>1, <4>2 DEF RangePair
    <3>4. CASE p \in left /\ q \in left
      BY <1>1, <1>4, <2>2, <3>4
    <3> QED BY <2>2, <3>1, <3>2, <3>3, <3>4
  <2> HIDE DEF cut
  <2> QED BY <2>1, <2>2 DEF Alone
<1>6. ASSUME NEW a PROVE a \in BytesIn(cut) <=> a \in BytesIn(tree) /\ a \notin Bytes(start, length)
  <2>1. a \in BytesIn(left) <=> a \in Bytes(r.x, r.y) /\ a \notin Bytes(start, length)
    <3>1. a \in BytesIn(left) <=>
            \/ r.x < start /\ a \in Bytes(low.x, low.y)
            \/ r.x + r.y > start + length /\ a \in Bytes(high.x, high.y)
      BY <1>2 DEF BytesIn
    <3> QED BY <1>1, <3>1 DEF Bytes
  <2>2. ASSUME NEW p \in tree \ {r}, a \in Bytes(p.x, p.y) PROVE a \notin Bytes(start, length)
    <3>1. p.x \in Nat /\ p.y \in Nat /\ (r.x + r.y < p.x \/ p.x + p.y < r.x)
      BY DEF Alone, RangePair
    <3> QED BY <1>1, <2>2, <3>1 DEF Bytes
  <2>3. a \in BytesIn(cut) <=> a \in BytesIn(left) \/ \E p \in tree \ {r} : a \in Bytes(p.x, p.y)
    BY DEF BytesIn
  <2>4. a \in BytesIn(tree) <=> a \in Bytes(r.x, r.y) \/ \E p \in tree \ {r} : a \in Bytes(p.x, p.y)
    BY DEF BytesIn
  <2> QED BY <2>1, <2>2, <2>3, <2>4
<1>7. BytesIn(cut) = BytesIn(tree) \ Bytes(start, length)
  BY <1>6
<1> QED BY <1>5, <1>7
\* Best fit takes the low end of a range, whichever way the piece is passed.
LEMMA TakesBest ==
  ASSUME Alone(treeStart), NEW size \in Nat \ {0}, size % WORD = 0,
         \A r \in treeStart : r.x >= size,
         BestRange(size) # {}, NEW p \in NextRanges(size)
  PROVE  LET left == {r \in treeStart : Flip(r) \notin BestRange(size)}
                       \cup UNION {{Flip(rest) : rest \in Space!Leftovers([x |-> p, y |-> size], s)} :
                                     s \in BestRange(size)}
         IN  /\ Alone(left) /\ BytesIn(left) = BytesIn(treeStart) \ Bytes(p, size)
             /\ Bytes(p, size) \subseteq BytesIn(treeStart) /\ p \in Nat /\ p % WORD = 0
<1>1. PICK s \in BestRange(size) : p = s.y
  BY DEF NextRanges
<1>2. PICK r \in treeStart : s = Flip(r)
  BY <1>1 DEF BestRange, LowerBound, ByLength
<1>3. r = [x |-> p, y |-> s.x] /\ s.x \in Nat /\ p \in Nat /\ s.x >= size
  BY <1>1, <1>2 DEF Alone, RangePair, Flip, BestRange, LowerBound, LessEq
<1>4. ASSUME NEW t \in BestRange(size) PROVE t = s
  <2>1. LessEq(s, t) /\ LessEq(t, s)
    BY DEF BestRange, LowerBound
  <2>2. PICK q \in treeStart : t = Flip(q)
    BY DEF BestRange, LowerBound, ByLength
  <2>3. q = [x |-> q.x, y |-> q.y] /\ q.x \in Nat /\ q.y \in Nat /\ t = [x |-> q.y, y |-> q.x]
    BY <2>2 DEF Alone, RangePair, Flip
  <2>4. s = [x |-> s.x, y |-> p]
    BY <1>2, <1>3 DEF Flip
  <2> QED BY <1>1, <1>3, <2>1, <2>3, <2>4 DEF LessEq
<1>5. ASSUME NEW q \in treeStart PROVE Flip(q) = s <=> q = r
  <2>1. q = [x |-> q.x, y |-> q.y] /\ Flip(q) = [x |-> q.y, y |-> q.x]
    BY DEF Alone, RangePair, Flip
  <2>2. s = [x |-> s.x, y |-> p]
    BY <1>2, <1>3 DEF Flip
  <2> QED BY <1>3, <2>1, <2>2
<1> DEFINE left == {Flip(rest) : rest \in Space!Leftovers([x |-> size, y |-> p], Flip(r))}
<1>6. Space!Leftovers([x |-> p, y |-> size], s) = Space!Leftovers([x |-> size, y |-> p], s)
  <2>1. s.x \in Nat /\ s.y = p /\ p \in Nat /\ p >= size /\ p + size = size + p
    BY <1>1, <1>3
  <2> QED BY <2>1 DEF Space!Leftovers
<1>7. {q \in treeStart : Flip(q) \notin BestRange(size)} = treeStart \ {r}
  BY <1>1, <1>4, <1>5
<1>8. UNION {{Flip(rest) : rest \in Space!Leftovers([x |-> p, y |-> size], t)} : t \in BestRange(size)} = left
  <2>1. BestRange(size) = {s}
    BY <1>4
  <2> DEFINE of(t) == {Flip(rest) : rest \in Space!Leftovers([x |-> p, y |-> size], t)}
  <2>2. of(s) = left
    BY <1>2, <1>6
  <2> HIDE DEF of, left
  <2>3. UNION {of(t) : t \in BestRange(size)} = left
    BY <2>1, <2>2
  <2> QED BY <2>3 DEF of
<1>9. p % WORD = 0 /\ r.x <= p /\ p + size <= r.x + r.y
  BY <1>3 DEF Alone
<1>10. Alone((treeStart \ {r}) \cup left)
       /\ BytesIn((treeStart \ {r}) \cup left) = BytesIn(treeStart) \ Bytes(p, size)
  BY <1>3, <1>9, CutKeeps
<1>11. Bytes(p, size) \subseteq BytesIn(treeStart)
  BY <1>3 DEF BytesIn, Bytes
<1> QED BY <1>3, <1>7, <1>8, <1>9, <1>10, <1>11
-----------------------------------------------------------------------------
(***************************************************************************)
(* The mappings.                                                           *)
(***************************************************************************)
\* A byte is in one mapping only.
LEMMA MappedOnce ==
  ASSUME NEW maps, MapsSound(maps), NEW m \in maps, NEW n \in maps,
         NEW a, a \in Bytes(m.x, m.y), a \in Bytes(n.x, n.y)
  PROVE  m = n
BY DEF MapsSound

\* A mapping that MemoryManager can add.
LEMMA PlaceIs ==
  ASSUME MapsSound(mapped), NEW length \in Nat \ {0}, NEW align, NEW a \in Places(length, align)
  PROVE  /\ MapsSound(mapped \cup {Mapping(a, length)}) /\ Mapping(a, length) \notin mapped
         /\ a \in Nat \ {0} /\ a >= CHUNK /\ a % align = 0
         /\ Bytes(a, length) \cap BytesIn(mapped) = {}
         /\ a \in Bytes(a, length)
<1> DEFINE m == Mapping(a, length)
<1>1. a \in Linear /\ a % align = 0 /\ Bytes(a, length) \subseteq Linear \ BytesIn(mapped)
  BY DEF Places, MappedBytes, BytesIn
<1>2. a \in Nat \ {0} /\ a >= CHUNK
  BY <1>1, LinearAssumption, Positive
<1>3. a \in Bytes(a, length)
  BY <1>2 DEF Bytes
<1>4. m \in RangePair /\ m.x = a /\ m.y = length
  BY <1>2 DEF Mapping, RangePair
<1> HIDE DEF m
<1>5. ASSUME NEW n \in mapped PROVE Bytes(n.x, n.y) \cap Bytes(a, length) = {}
  BY <1>1 DEF BytesIn
<1>6. m \notin mapped
  BY <1>3, <1>4, <1>5
<1>7. MapsSound(mapped \cup {m})
  BY <1>1, <1>4, <1>5 DEF MapsSound
<1> QED BY <1>1, <1>2, <1>3, <1>6, <1>7 DEF m

\* The mapping of one's pages.
LEMMA PageMapIs ==
  ASSUME NEW e \in Lives
  PROVE  /\ PageMap(e).x = e[2].ptr /\ PageMap(e).y \in Nat \ {0}
         /\ PageMap(e).y >= Words(e[2].size)
         /\ e[2].ptr \in Nat \ {0} /\ e[2].size \in Nat
<1>1. e[2].ptr \in Nat \ {0} /\ e[2].size \in Nat
  BY DEF Lives
<1>2. Words(e[2].size) \in Nat \ {0}
  BY <1>1, WordsIs
<1>3. RoundUp(Words(e[2].size), PAGE) \in Nat \ {0} /\ RoundUp(Words(e[2].size), PAGE) >= Words(e[2].size)
  BY <1>2, Positive, RoundUpIs
<1> QED BY <1>1, <1>3 DEF PageMap, Mapping

\* Every object is of one kind.
LEMMA Kinds ==
  ASSUME NEW lives \in SUBSET Lives, NEW e \in Lives
  PROVE  /\ Small(e[1], e[2].size) => /\ SmallOf(lives \cup {e}) = SmallOf(lives) \cup {e}
                                      /\ RangedOf(lives \cup {e}) = RangedOf(lives)
                                      /\ PagedOf(lives \cup {e}) = PagedOf(lives)
                                      /\ SmallOf(lives \ {e}) = SmallOf(lives) \ {e}
                                      /\ RangedOf(lives \ {e}) = RangedOf(lives)
                                      /\ PagedOf(lives \ {e}) = PagedOf(lives)
         /\ Ranged(e[1], e[2].size) => /\ SmallOf(lives \cup {e}) = SmallOf(lives)
                                       /\ RangedOf(lives \cup {e}) = RangedOf(lives) \cup {e}
                                       /\ PagedOf(lives \cup {e}) = PagedOf(lives)
                                       /\ SmallOf(lives \ {e}) = SmallOf(lives)
                                       /\ RangedOf(lives \ {e}) = RangedOf(lives) \ {e}
                                       /\ PagedOf(lives \ {e}) = PagedOf(lives)
         /\ Paged(e[1], e[2].size) => /\ SmallOf(lives \cup {e}) = SmallOf(lives)
                                      /\ RangedOf(lives \cup {e}) = RangedOf(lives)
                                      /\ PagedOf(lives \cup {e}) = PagedOf(lives) \cup {e}
                                      /\ SmallOf(lives \ {e}) = SmallOf(lives)
                                      /\ RangedOf(lives \ {e}) = RangedOf(lives)
                                      /\ PagedOf(lives \ {e}) = PagedOf(lives) \ {e}
<1>1. /\ e[2].size \in Nat /\ Words(e[2].size) \in Nat
      /\ CHUNK \div 2 \in Int
  <2>1. e[2].size \in Nat
    BY DEF Lives
  <2>2. CHUNK \div 2 \in Int
    BY Positive
  <2> QED BY <2>1, <2>2, WordsIs
<1>2. /\ Small(e[1], e[2].size) => ~Ranged(e[1], e[2].size) /\ ~Paged(e[1], e[2].size)
      /\ Ranged(e[1], e[2].size) => ~Paged(e[1], e[2].size)
  BY <1>1 DEF Ranged, Paged
<1> QED BY <1>2 DEF SmallOf, RangedOf, PagedOf

\* A chunk of blocks, one more or the same ones, leaves the other mappings alone.
LEMMA BlockTaken ==
  ASSUME MapsSound(mapped), PoolMaps(pool) \subseteq mapped, NEW objs \in SUBSET Lives,
         PagesSound(objs, pool, mapped), NEW c, c \in pool \/ c \in Places(POOL, POOL),
         pool' = pool \cup {c}, mapped' = mapped \cup {Mapping(c, POOL)}
  PROVE  /\ MapsSound(mapped') /\ PoolMaps(pool') \subseteq mapped'
         /\ PagesSound(objs, pool', mapped')
         /\ RangeMaps(mapped', pool', objs) = RangeMaps(mapped, pool, objs)
<1>1. PoolMaps(pool') = PoolMaps(pool) \cup {Mapping(c, POOL)}
  BY DEF PoolMaps
<1>2. CASE c \in pool
  <2>1. pool' = pool /\ Mapping(c, POOL) \in PoolMaps(pool)
    BY <1>2 DEF PoolMaps
  <2>2. mapped' = mapped
    BY <2>1
  <2> QED BY <2>1, <2>2
<1>3. CASE c \in Places(POOL, POOL)
  <2>1. MapsSound(mapped') /\ Mapping(c, POOL) \notin mapped
    BY <1>3, Positive, PlaceIs
  <2> QED BY <1>1, <2>1 DEF PagesSound, RangeMaps
<1> QED BY <1>2, <1>3

\* Chunks of blocks that are given back leave the other mappings alone.
LEMMA BlocksGiven ==
  ASSUME MapsSound(mapped), PoolMaps(pool) \subseteq mapped, NEW objs \in SUBSET Lives,
         PagesSound(objs, pool, mapped), NEW spare, spare \subseteq pool,
         pool' = pool \ spare, mapped' = mapped \ {Mapping(c, POOL) : c \in spare}
  PROVE  /\ MapsSound(mapped') /\ PoolMaps(pool') \subseteq mapped'
         /\ PagesSound(objs, pool', mapped')
         /\ RangeMaps(mapped', pool', objs) = RangeMaps(mapped, pool, objs)
<1>1. \A c, d : Mapping(c, POOL) = Mapping(d, POOL) => c = d
  BY DEF Mapping
<1>2. PoolMaps(pool') = PoolMaps(pool) \ PoolMaps(spare) /\ PoolMaps(spare) \subseteq PoolMaps(pool)
  <2>1. PoolMaps(spare) \subseteq PoolMaps(pool)
    BY DEF PoolMaps
  <2>2. ASSUME NEW m PROVE m \in PoolMaps(pool') <=> m \in PoolMaps(pool) /\ m \notin PoolMaps(spare)
    BY <1>1 DEF PoolMaps
  <2> QED BY <2>1, <2>2
<1>3. mapped' = mapped \ PoolMaps(spare)
  BY DEF PoolMaps
<1>4. MapsSound(mapped')
  BY <1>3 DEF MapsSound
<1> QED BY <1>2, <1>3, <1>4 DEF PagesSound, RangeMaps
-----------------------------------------------------------------------------
(***************************************************************************)
(* Small objects.                                                          *)
(***************************************************************************)
\* The units of small objects.
LEMMA SmallIs ==
  ASSUME NEW array \in BOOLEAN, NEW size \in Nat, Small(array, size)
  PROVE  Words(size) \in 1 .. LIMIT
BY WordsIs, Positive DEF Small

\* What alloc of a PrimitiveHeap chooses is available, in one of its groups.
LEMMA FirstUnitsAre ==
  ASSUME NEW available, NEW groups, \A g \in groups : g \subseteq Nat,
         NEW u \in FirstUnits(available, groups)
  PROVE  \E g \in groups : u \in g \cap available
<1> DEFINE usable == {g \in groups : g \cap available # {}}
           partly == {g \in usable : ~(g \subseteq available)}
           chosen == IF partly # {} THEN partly ELSE usable
<1>1. PICK g \in chosen : u = Lowest(g \cap available)
  BY DEF FirstUnits
<1>2. g \in groups /\ g \cap available # {} /\ g \cap available \in SUBSET Nat
  BY <1>1
<1>3. u \in g \cap available
  BY <1>1, <1>2, LowestIn
<1> QED BY <1>2, <1>3

\* A block that ph2048 answers with is nobody's, in a chunk that it has or gets.
LEMMA NextBlockIs ==
  ASSUME NEW objs, MapsSound(mapped), SmallSound(objs, slabs, taken, pool, pHeaps, mapped),
         NEW b \in NextBlocks
  PROVE  \E c \in Nat : /\ c % POOL = 0 /\ b \in BlocksOf(c)
                        /\ c \in pool \/ c \in Places(POOL, POOL)
                        /\ \A d \in slabs : d.block # b
<1>1. CASE FreeBlocks(pool, slabs) # {}
  <2>1. b \in FirstUnits(FreeBlocks(pool, slabs), {BlocksOf(c) : c \in pool})
    BY <1>1 DEF NextBlocks
  <2>2. \A g \in {BlocksOf(c) : c \in pool} : g \subseteq Nat
    BY BlocksThere DEF SmallSound
  <2>3. PICK g \in {BlocksOf(c) : c \in pool} : b \in g \cap FreeBlocks(pool, slabs)
    BY <2>1, <2>2, FirstUnitsAre
  <2>4. PICK c \in pool : b \in BlocksOf(c)
    BY <2>3
  <2>5. \A d \in slabs : d.block # b
    BY <2>3 DEF FreeBlocks
  <2> QED BY <2>4, <2>5 DEF SmallSound
<1>2. CASE FreeBlocks(pool, slabs) = {}
  <2>1. PICK c \in Places(POOL, POOL) : b = Lowest(BlocksOf(c))
    BY <1>2 DEF NextBlocks
  <2>2. c \in Nat /\ c % POOL = 0 /\ c \in Bytes(c, POOL) /\ Bytes(c, POOL) \cap BytesIn(mapped) = {}
    BY Positive, PlaceIs
  <2>3. b \in BlocksOf(c)
    BY <2>1, <2>2, BlocksThere, LowestIn
  <2>4. ASSUME NEW d \in slabs, d.block = b PROVE FALSE
    <3>1. PICK k \in pool : b \in BlocksOf(k)
      BY <2>4 DEF SmallSound
    <3>2. k \in Nat /\ k % POOL = 0 /\ Mapping(k, POOL) \in mapped
      BY DEF SmallSound, PoolMaps
    <3>3. c = b - (b % POOL) /\ k = b - (b % POOL)
      BY <2>2, <2>3, <3>1, <3>2, BlockPlace
    <3>4. Bytes(c, POOL) \subseteq BytesIn(mapped)
      BY <3>2, <3>3 DEF BytesIn, Mapping
    <3> QED BY <2>2, <3>4
  <2> QED BY <2>2, <2>3, <2>4
<1> QED BY <1>1, <1>2

\* The heap takes an object that is not in use, in a block of its size.
LEMMA TakenObjectIs ==
  ASSUME NEW objs, MapsSound(mapped), SmallSound(objs, slabs, taken, pool, pHeaps, mapped),
         NEW w \in 1 .. LIMIT, NEW p \in NextObjects(w), TakeObject(w, p)
  PROVE  /\ p \in Nat \ {0} /\ p \notin taken /\ taken' = taken \cup {p}
         /\ \E b \in Nat, c \in Nat :
              /\ b \in BlocksOf(c) /\ c % POOL = 0 /\ p \in ObjectsOf(b, w)
              /\ c \in pool \/ c \in Places(POOL, POOL)
              /\ \A d \in slabs : d.block = b => d = [block |-> b, size |-> w]
              /\ slabs' = slabs \cup {[block |-> b, size |-> w]}
              /\ pool' = pool \cup {c} /\ mapped' = mapped \cup {Mapping(c, POOL)}
<1> DEFINE available == Available(w, slabs, taken)
<1>1. \A d \in slabs : /\ d.block \in Nat /\ d.block % BLOCK = 0 /\ d.size \in 1 .. LIMIT
                       /\ d = [block |-> d.block, size |-> d.size]
  BY BlockPlace DEF SmallSound
<1>2. \E b \in Nat, c \in Nat :
        /\ c % POOL = 0 /\ b \in BlocksOf(c) /\ p \in ObjectsOf(b, w) /\ p \notin taken
        /\ c \in pool \/ c \in Places(POOL, POOL)
        /\ \A d \in slabs : d.block = b => d = [block |-> b, size |-> w]
  <2>1. CASE available # {}
    <3> DEFINE groups == {ObjectsOf(b, w) : b \in BlocksFor(w, slabs)}
    <3>1. p \in FirstUnits(available, groups)
      BY <2>1 DEF NextObjects
    <3>2. \A g \in groups : g \subseteq Nat
      BY <1>1, ObjectsThere DEF BlocksFor
    <3>3. PICK g \in groups : p \in g \cap available
      BY <3>1, <3>2, FirstUnitsAre
    <3>4. PICK d \in slabs : d.size = w /\ p \in ObjectsOf(d.block, w)
      BY <3>3 DEF BlocksFor
    <3>5. p \notin taken
      BY <3>3 DEF Available
    <3>6. PICK c \in pool : d.block \in BlocksOf(c)
      BY DEF SmallSound
    <3>7. c \in Nat /\ c % POOL = 0
      BY DEF SmallSound
    <3>8. \A k \in slabs : k.block = d.block => k = [block |-> d.block, size |-> w]
      BY <1>1, <3>4 DEF SmallSound
    <3> QED BY <1>1, <3>4, <3>5, <3>6, <3>7, <3>8
  <2>2. CASE available = {}
    <3>1. PICK b \in NextBlocks : p = Lowest(ObjectsOf(b, w))
      BY <2>2 DEF NextObjects
    <3>2. PICK c \in Nat : /\ c % POOL = 0 /\ b \in BlocksOf(c)
                           /\ c \in pool \/ c \in Places(POOL, POOL)
                           /\ \A d \in slabs : d.block # b
      BY NextBlockIs
    <3>3. b \in Nat /\ b % BLOCK = 0
      BY <3>2, BlockPlace
    <3>4. p \in ObjectsOf(b, w)
      BY <3>1, <3>3, ObjectsThere, LowestIn
    <3>5. ASSUME p \in taken PROVE FALSE
      <4>1. PICK e \in objs : p = e[2].ptr
        BY <3>5 DEF SmallSound
      <4>2. PICK d \in slabs : p \in ObjectsOf(d.block, d.size)
        BY <4>1 DEF SmallSound
      <4>3. p - (p % BLOCK) = d.block /\ p - (p % BLOCK) = b
        BY <1>1, <3>3, <3>4, <4>2, ObjectPlace
      <4> QED BY <3>2, <4>3
    <3> QED BY <3>2, <3>3, <3>4, <3>5
  <2> QED BY <2>1, <2>2
<1>3. PICK b \in Nat, c \in Nat :
        /\ c % POOL = 0 /\ b \in BlocksOf(c) /\ p \in ObjectsOf(b, w) /\ p \notin taken
        /\ c \in pool \/ c \in Places(POOL, POOL)
        /\ \A d \in slabs : d.block = b => d = [block |-> b, size |-> w]
  BY <1>2
<1>4. b % BLOCK = 0 /\ b - (b % POOL) = c
  BY <1>3, BlockPlace
<1>5. p \in Nat /\ b < p /\ p - (p % BLOCK) = b
  BY <1>3, <1>4, ObjectPlace
<1>6. /\ taken' = taken \cup {p} /\ slabs' = slabs \cup {[block |-> b, size |-> w]}
      /\ pool' = pool \cup {c} /\ mapped' = mapped \cup {Mapping(c, POOL)}
  BY <1>4, <1>5 DEF TakeObject, TakeBlock
<1> QED BY <1>3, <1>5, <1>6

\* getPH finds the heap of the size, if there is one, and no other.
LEMMA HeapFound ==
  ASSUME CacheSound(sppCache, sppCacheIndex, pHeaps), NEW w \in Nat \ {0}
  PROVE  /\ HeapFor(w) \in {w, NoHeap}
         /\ w \in pHeaps => HeapFor(w) = w
<1>1. CASE Cached(w) # {}
  <2>1. Cached(w) \in SUBSET Nat
    BY DEF Cached
  <2>2. Lowest(Cached(w)) \in Cached(w)
    BY <1>1, <2>1, LowestIn
  <2>3. sppCache[Lowest(Cached(w))].ph = w
    BY <2>2 DEF CacheSound, Cached
  <2> QED BY <1>1, <2>3 DEF HeapFor
<1>2. CASE Cached(w) = {}
  BY <1>2 DEF HeapFor
<1> QED BY <1>1, <1>2

\* And what it remembers of it is right.
LEMMA Remembered ==
  ASSUME CacheSound(sppCache, sppCacheIndex, pHeaps), NEW w \in Nat \ {0}, Remember(w),
         NEW heaps, pHeaps \subseteq heaps, w \in heaps, heaps \subseteq Nat \ {0}
  PROVE  CacheSound(sppCache', sppCacheIndex', heaps)
<1>1. CASE Cached(w) # {}
  BY <1>1 DEF Remember, CacheSound
<1>2. CASE Cached(w) = {}
  <2>1. /\ sppCache' = [sppCache EXCEPT ![sppCacheIndex] = [size |-> w, ph |-> w]]
        /\ sppCacheIndex' = (sppCacheIndex % CACHE) + 1
    BY <1>2 DEF Remember, Entry
  <2>2. sppCacheIndex' \in 1 .. CACHE
    <3>1. sppCacheIndex % CACHE \in 0 .. CACHE - 1
      BY Positive DEF CacheSound
    <3> QED BY <2>1, <3>1, Positive
  <2>3. sppCache' \in [1 .. CACHE -> [size : Nat, ph : Nat]]
    BY <2>1 DEF CacheSound
  <2>4. ASSUME NEW i \in 1 .. CACHE
        PROVE  sppCache'[i].ph = sppCache'[i].size /\ (sppCache'[i].size # 0 => sppCache'[i].size \in heaps)
    BY <2>1 DEF CacheSound
  <2> QED BY <2>2, <2>3, <2>4 DEF CacheSound
<1> QED BY <1>1, <1>2
-----------------------------------------------------------------------------
(***************************************************************************)
(* The three ways to serve a request, and to take back what was given.     *)
(***************************************************************************)
\* A small object is taken from its heap.
LEMMA TakeSmallKeeps ==
  ASSUME NEW lives, Sound(lives, treeStart, slabs, taken, pool, pHeaps, mapped),
         CacheSound(sppCache, sppCacheIndex, pHeaps),
         NEW array \in BOOLEAN, NEW size \in Nat, Small(array, size),
         NEW p \in NextObjects(Words(size)), TakeSmall(Words(size), p)
  PROVE  LET e == <<array, Object(p, size)>>
         IN  /\ Sound(lives \cup {e}, treeStart', slabs', taken', pool', pHeaps', mapped')
             /\ CacheSound(sppCache', sppCacheIndex', pHeaps') /\ machine' = "running"
             /\ e \in Lives /\ e \notin lives
<1> DEFINE e == <<array, Object(p, size)>>
           w == Words(size)
           objs == SmallOf(lives)
           pages == PagedOf(lives)
<1>1. w \in 1 .. LIMIT /\ w \in Nat \ {0}
  BY SmallIs
<1>2. /\ MapsSound(mapped) /\ SmallSound(objs, slabs, taken, pool, pHeaps, mapped)
      /\ PagesSound(pages, pool, mapped) /\ pages \in SUBSET Lives /\ objs \subseteq lives
      /\ lives \in SUBSET Lives /\ PoolMaps(pool) \subseteq mapped
  BY DEF Sound, PagedOf, SmallOf, SmallSound
<1>3. TakeObject(w, p) /\ Remember(w) /\ pHeaps' = pHeaps \cup {w} /\ treeStart' = treeStart
      /\ Kassert(HeapFor(w) \in {w, NoHeap}) /\ p \in NextObjects(w)
  BY DEF TakeSmall
<1> HIDE DEF w
<1>4. CacheSound(sppCache', sppCacheIndex', pHeaps')
  <2>1. pHeaps \subseteq pHeaps' /\ w \in pHeaps' /\ pHeaps' \subseteq Nat \ {0}
    BY <1>1, <1>3 DEF CacheSound
  <2> HIDE DEF CacheSound
  <2> QED BY <1>1, <1>3, <2>1, Remembered
<1>5. machine' = "running"
  BY <1>1, <1>3, HeapFound DEF Kassert
<1>6. /\ p \in Nat \ {0} /\ p \notin taken /\ taken' = taken \cup {p}
      /\ \E b \in Nat, c \in Nat :
           /\ b \in BlocksOf(c) /\ c % POOL = 0 /\ p \in ObjectsOf(b, w)
           /\ c \in pool \/ c \in Places(POOL, POOL)
           /\ \A d \in slabs : d.block = b => d = [block |-> b, size |-> w]
           /\ slabs' = slabs \cup {[block |-> b, size |-> w]}
           /\ pool' = pool \cup {c} /\ mapped' = mapped \cup {Mapping(c, POOL)}
  BY <1>1, <1>2, <1>3, TakenObjectIs
<1>7. PICK b \in Nat, c \in Nat :
        /\ b \in BlocksOf(c) /\ c % POOL = 0 /\ p \in ObjectsOf(b, w)
        /\ c \in pool \/ c \in Places(POOL, POOL)
        /\ \A d \in slabs : d.block = b => d = [block |-> b, size |-> w]
        /\ slabs' = slabs \cup {[block |-> b, size |-> w]}
        /\ pool' = pool \cup {c} /\ mapped' = mapped \cup {Mapping(c, POOL)}
  BY <1>6
<1>8. /\ MapsSound(mapped') /\ PoolMaps(pool') \subseteq mapped'
      /\ PagesSound(pages, pool', mapped')
      /\ RangeMaps(mapped', pool', pages) = RangeMaps(mapped, pool, pages)
  BY <1>2, <1>7, BlockTaken
<1>9. e \in Lives /\ e[1] = array /\ e[2].ptr = p /\ e[2].size = size
  BY <1>6 DEF Lives, Object
<1>10. e \notin lives
  <2>1. SUFFICES ASSUME e \in objs PROVE FALSE
    BY <1>9 DEF SmallOf
  <2> QED BY <1>2, <1>6, <1>9, <2>1 DEF SmallSound
<1> HIDE DEF e, objs, pages
<1>11. SmallSound(objs \cup {e}, slabs', taken', pool', pHeaps', mapped')
  <2>1. \A k \in pool' : k \in Nat /\ k % POOL = 0
    BY <1>2, <1>7 DEF SmallSound
  <2>2. \A d \in slabs' : d \in [block : Nat, size : 1 .. LIMIT] /\ \E k \in pool' : d.block \in BlocksOf(k)
    BY <1>1, <1>2, <1>7 DEF SmallSound
  <2>3. \A d, k \in slabs' : d.block = k.block => d = k
    BY <1>2, <1>7 DEF SmallSound
  <2>4. taken' = {f[2].ptr : f \in objs \cup {e}}
    BY <1>2, <1>6, <1>9 DEF SmallSound
  <2>5. ASSUME NEW f \in objs \cup {e}
        PROVE  /\ Words(f[2].size) \in pHeaps'
               /\ \E d \in slabs' : d.size = Words(f[2].size) /\ f[2].ptr \in ObjectsOf(d.block, d.size)
    <3>1. CASE f \in objs
      BY <1>2, <1>3, <1>7, <3>1 DEF SmallSound
    <3>2. CASE f = e
      <4>1. Words(f[2].size) = w /\ f[2].ptr = p
        BY <1>9, <3>2 DEF w
      <4>2. [block |-> b, size |-> w] \in slabs' /\ w \in pHeaps'
        BY <1>3, <1>7
      <4> QED BY <1>7, <4>1, <4>2
    <3> QED BY <3>1, <3>2
  <2>6. \A f, g \in objs \cup {e} : f[2].ptr = g[2].ptr => f = g
    BY <1>2, <1>6, <1>9 DEF SmallSound
  <2> QED BY <1>8, <2>1, <2>2, <2>3, <2>4, <2>5, <2>6 DEF SmallSound
<1>12. /\ SmallOf(lives \cup {e}) = objs \cup {e} /\ RangedOf(lives \cup {e}) = RangedOf(lives)
       /\ PagedOf(lives \cup {e}) = pages
  BY <1>2, <1>9, Kinds DEF objs, pages
<1>13. RangesSound(treeStart', RangedOf(lives \cup {e}), RangeMaps(mapped', pool', pages))
  BY <1>3, <1>8, <1>12 DEF Sound, pages
<1>14. lives \cup {e} \subseteq Lives
  BY <1>2, <1>9
<1> QED BY <1>4, <1>5, <1>8, <1>9, <1>10, <1>11, <1>12, <1>13, <1>14 DEF Sound, e

\* And returned to it; no block that has an object in use leaves it, and no chunk that
\* has a block of a heap is given back.
LEMMA GiveSmallKeeps ==
  ASSUME NEW lives, Sound(lives, treeStart, slabs, taken, pool, pHeaps, mapped),
         CacheSound(sppCache, sppCacheIndex, pHeaps),
         NEW e \in lives, Small(e[1], e[2].size),
         GiveSmall(Words(e[2].size), e[2].ptr)
  PROVE  /\ Sound(lives \ {e}, treeStart', slabs', taken', pool', pHeaps', mapped')
         /\ CacheSound(sppCache', sppCacheIndex', pHeaps') /\ machine' = "running"
<1> DEFINE w == Words(e[2].size)
           p == e[2].ptr
           objs == SmallOf(lives)
           pages == PagedOf(lives)
           available == Available(w, slabs, taken \ {p})
<1>1. /\ MapsSound(mapped) /\ SmallSound(objs, slabs, taken, pool, pHeaps, mapped)
      /\ PagesSound(pages, pool, mapped) /\ pages \in SUBSET Lives /\ e \in objs
      /\ lives \in SUBSET Lives /\ PoolMaps(pool) \subseteq mapped /\ e \in Lives
  BY DEF Sound, PagedOf, SmallOf, SmallSound
<1>2. w \in 1 .. LIMIT /\ w \in Nat \ {0} /\ w \in pHeaps
  <2>1. e[1] \in BOOLEAN /\ e[2].size \in Nat
    BY <1>1 DEF Lives
  <2> QED BY <1>1, <2>1, SmallIs DEF SmallSound
<1>3. GiveObject(w, p) /\ Remember(w) /\ pHeaps' = pHeaps /\ treeStart' = treeStart
      /\ Kassert(HeapFor(w) = w)
  BY DEF GiveSmall
<1> HIDE DEF w
<1>4. CacheSound(sppCache', sppCacheIndex', pHeaps')
  <2>1. pHeaps \subseteq pHeaps /\ pHeaps \subseteq Nat \ {0}
    BY DEF CacheSound
  <2> QED BY <1>2, <1>3, <2>1, Remembered
<1>5. machine' = "running"
  BY <1>2, <1>3, HeapFound DEF Kassert
<1>6. PICK spare : /\ spare \subseteq {b \in BlocksFor(w, slabs) : ObjectsOf(b, w) \subseteq available}
                   /\ slabs' = slabs \ {[block |-> b, size |-> w] : b \in spare}
  BY <1>3 DEF GiveObject, Spares, kSubset
<1>7. taken' = taken \ {p} /\ GiveBlocks
  BY <1>3 DEF GiveObject
<1>8. PICK chunks : /\ chunks \subseteq {c \in pool : BlocksOf(c) \subseteq FreeBlocks(pool, slabs')}
                    /\ pool' = pool \ chunks
                    /\ mapped' = mapped \ {Mapping(c, POOL) : c \in chunks}
  BY <1>7 DEF GiveBlocks, Spares, kSubset
<1>9. /\ MapsSound(mapped') /\ PoolMaps(pool') \subseteq mapped'
      /\ PagesSound(pages, pool', mapped')
      /\ RangeMaps(mapped', pool', pages) = RangeMaps(mapped, pool, pages)
  <2>1. chunks \subseteq pool
    BY <1>8
  <2> QED BY <1>1, <1>8, <2>1, BlocksGiven
<1> HIDE DEF p, objs, pages, available
<1>10. SmallSound(objs \ {e}, slabs', taken', pool', pHeaps', mapped')
  <2>1. slabs' \subseteq slabs /\ pool' \subseteq pool
    BY <1>6, <1>8
  <2>2. \A k \in pool' : k \in Nat /\ k % POOL = 0
    BY <1>1, <2>1 DEF SmallSound
  <2>3. ASSUME NEW d \in slabs'
        PROVE  d \in [block : Nat, size : 1 .. LIMIT] /\ \E k \in pool' : d.block \in BlocksOf(k)
    <3>1. PICK k \in pool : d.block \in BlocksOf(k)
      BY <1>1, <2>1 DEF SmallSound
    <3>2. k \notin chunks
      BY <1>8, <3>1 DEF FreeBlocks
    <3> QED BY <1>1, <1>8, <2>1, <3>1, <3>2 DEF SmallSound
  <2>4. \A d, k \in slabs' : d.block = k.block => d = k
    BY <1>1, <2>1 DEF SmallSound
  <2>5. taken' = {f[2].ptr : f \in objs \ {e}}
    BY <1>1, <1>7 DEF SmallSound, p
  <2>6. ASSUME NEW f \in objs \ {e}
        PROVE  /\ Words(f[2].size) \in pHeaps'
               /\ \E d \in slabs' : d.size = Words(f[2].size) /\ f[2].ptr \in ObjectsOf(d.block, d.size)
    <3>1. PICK d \in slabs : d.size = Words(f[2].size) /\ f[2].ptr \in ObjectsOf(d.block, d.size)
      BY <1>1 DEF SmallSound
    <3>2. f[2].ptr \in taken'
      BY <2>5
    <3>3. ASSUME NEW b \in spare, d = [block |-> b, size |-> w] PROVE FALSE
      <4>1. f[2].ptr \in available
        BY <1>6, <3>1, <3>3
      <4> QED BY <1>7, <3>2, <4>1 DEF available, Available
    <3>4. d \in slabs'
      BY <1>6, <3>3
    <3>5. Words(f[2].size) \in pHeaps'
      BY <1>1, <1>3 DEF SmallSound
    <3> QED BY <3>1, <3>4, <3>5
  <2>7. \A f, g \in objs \ {e} : f[2].ptr = g[2].ptr => f = g
    BY <1>1 DEF SmallSound
  <2> QED BY <1>9, <2>2, <2>3, <2>4, <2>5, <2>6, <2>7 DEF SmallSound
<1>11. /\ SmallOf(lives \ {e}) = objs \ {e} /\ RangedOf(lives \ {e}) = RangedOf(lives)
       /\ PagedOf(lives \ {e}) = pages
  BY <1>1, Kinds DEF objs, pages
<1>12. RangesSound(treeStart', RangedOf(lives \ {e}), RangeMaps(mapped', pool', pages))
  BY <1>3, <1>9, <1>11 DEF Sound, pages
<1>13. lives \ {e} \subseteq Lives
  BY <1>1
<1> QED BY <1>4, <1>5, <1>9, <1>10, <1>11, <1>12, <1>13 DEF Sound

\* A range is taken from the trees, or from the low end of a new chunk.
LEMMA TakeRangeKeeps ==
  ASSUME NEW lives, Sound(lives, treeStart, slabs, taken, pool, pHeaps, mapped),
         CacheSound(sppCache, sppCacheIndex, pHeaps),
         NEW array \in BOOLEAN, NEW size \in Nat, Ranged(array, size),
         NEW p \in NextRanges(Words(size)), TakeRange(Words(size), p)
  PROVE  LET e == <<array, Object(p, size)>>
         IN  /\ Sound(lives \cup {e}, treeStart', slabs', taken', pool', pHeaps', mapped')
             /\ CacheSound(sppCache', sppCacheIndex', pHeaps') /\ machine' = "running"
             /\ e \in Lives /\ e \notin lives
<1> DEFINE e == <<array, Object(p, size)>>
           w == Words(size)
           objs == RangedOf(lives)
           pages == PagedOf(lives)
           maps == RangeMaps(mapped, pool, pages)
<1>1. /\ MapsSound(mapped) /\ PagesSound(pages, pool, mapped) /\ RangesSound(treeStart, objs, maps)
      /\ lives \in SUBSET Lives /\ PoolMaps(pool) \subseteq mapped
      /\ SmallSound(SmallOf(lives), slabs, taken, pool, pHeaps, mapped)
  BY DEF Sound, SmallSound
<1>2. w \in Nat \ {0} /\ w % WORD = 0 /\ w <= CHUNK \div 2 /\ w < CHUNK
  <2>1. w \in Nat \ {0} /\ w % WORD = 0 /\ w <= CHUNK \div 2
    BY WordsIs DEF Ranged
  <2>2. CHUNK \div 2 < CHUNK /\ CHUNK \div 2 \in Int
    BY Positive
  <2> QED BY <2>1, <2>2, Positive
<1>3. /\ pHeaps' = pHeaps /\ sppCache' = sppCache /\ sppCacheIndex' = sppCacheIndex
      /\ slabs' = slabs /\ taken' = taken /\ pool' = pool
      /\ p \in NextRanges(w) /\ TakeRange(w, p)
  BY DEF TakeRange, smallVars
<1>4. CacheSound(sppCache', sppCacheIndex', pHeaps')
  BY <1>3
<1>5. BytesIn(treeStart) \subseteq BytesIn(mapped) /\ OwnIn(objs) \subseteq BytesIn(mapped)
      /\ BytesIn(mapped) \subseteq Linear
  BY <1>1 DEF RangesSound, RangeMaps, BytesIn, MapsSound
<1> HIDE DEF w
\* The bytes of the object, and what is left.
<1>6. /\ p \in Nat \ {0} /\ p % WORD = 0 /\ machine' = "running"
      /\ MapsSound(mapped') /\ PagesSound(pages, pool, mapped') /\ PoolMaps(pool) \subseteq mapped'
      /\ Alone(treeStart')
      /\ \A m \in RangeMaps(mapped', pool, pages) : m.y = CHUNK /\ m.x % CHUNK = 0
      /\ BytesIn(RangeMaps(mapped', pool, pages)) = BytesIn(treeStart') \cup Bytes(p, w) \cup OwnIn(objs)
      /\ BytesIn(treeStart') \cap Bytes(p, w) = {} /\ BytesIn(treeStart') \cap OwnIn(objs) = {}
      /\ Bytes(p, w) \cap OwnIn(objs) = {}
  <2>1. CASE BestRange(w) # {}
    <3>1. /\ treeStart' = {r \in treeStart : Flip(r) \notin BestRange(w)}
               \cup UNION {{Flip(rest) : rest \in Space!Leftovers([x |-> p, y |-> w], s)} :
                             s \in BestRange(w)}
          /\ mapped' = mapped /\ machine' = "running"
      BY <1>3, <2>1 DEF TakeRange, Kassert
    <3>2. ASSUME NEW r \in treeStart PROVE r.x >= w
      <4>1. r.x \in BytesIn(treeStart)
        BY <1>1 DEF RangesSound, Alone, RangePair, BytesIn, Bytes
      <4>2. r.x \in Linear
        BY <1>5, <4>1
      <4>3. r.x \in Nat /\ r.x >= CHUNK
        BY <4>2, LinearAssumption
      <4> QED BY <1>2, <4>3, Positive
    <3>3. Alone(treeStart)
      BY <1>1 DEF RangesSound
    <3>4. /\ Alone(treeStart') /\ BytesIn(treeStart') = BytesIn(treeStart) \ Bytes(p, w)
          /\ Bytes(p, w) \subseteq BytesIn(treeStart) /\ p \in Nat /\ p % WORD = 0
      BY <1>2, <1>3, <2>1, <3>1, <3>2, <3>3, TakesBest
    <3>5. p # 0
      <4>1. p \in Bytes(p, w)
        BY <1>2, <3>4 DEF Bytes
      <4> QED BY <1>5, <3>4, <4>1, LinearAssumption, Positive
    <3> QED BY <1>1, <3>1, <3>4, <3>5 DEF RangesSound
  <2>2. CASE BestRange(w) = {}
    <3>1. /\ p \in Places(CHUNK, CHUNK) /\ mapped' = mapped \cup {Mapping(p, CHUNK)}
          /\ Kassert(~Space!AlreadyFree(p + w, CHUNK - w))
          /\ treeStart' = Freed(p + w, CHUNK - w)
      BY <1>3, <2>2 DEF TakeRange, NextRanges
    <3>2. /\ MapsSound(mapped') /\ Mapping(p, CHUNK) \notin mapped
          /\ p \in Nat \ {0} /\ p % CHUNK = 0 /\ Bytes(p, CHUNK) \cap BytesIn(mapped) = {}
      BY <1>1, <3>1, Positive, PlaceIs
    <3>3. /\ p + w \in Nat /\ CHUNK - w \in Nat \ {0} /\ p % WORD = 0
          /\ (p + w) % WORD = 0 /\ (CHUNK - w) % WORD = 0
      <4>1. p \in Int /\ w \in Int /\ CHUNK \in Int /\ CHUNK % WORD = 0
        BY <1>2, <3>2, Positive, WholeWords
      <4>2. p % WORD = 0
        BY <3>2, <4>1, Positive, MultipleOfMultiple, Zenon
      <4>3. (p + w) % WORD = 0 /\ (CHUNK - w) % WORD = 0
        BY <1>2, <4>1, <4>2, Positive, SumOfMultiples, Zenon
      <4> QED BY <1>2, <3>2, <4>1, <4>2, <4>3
    <3>4. \A a : a \in Bytes(p, CHUNK) <=> a \in Bytes(p, w) \/ a \in Bytes(p + w, CHUNK - w)
      BY <1>2, <3>2, Positive DEF Bytes
    <3>5. Bytes(p, w) \cap Bytes(p + w, CHUNK - w) = {}
      BY <1>2, <3>2, Positive DEF Bytes
    <3>6. Bytes(p + w, CHUNK - w) \cap BytesIn(treeStart) = {} /\ Bytes(p, w) \cap BytesIn(mapped) = {}
      BY <1>5, <3>2, <3>4
    <3>7. /\ ~Space!AlreadyFree(p + w, CHUNK - w) /\ Alone(treeStart')
          /\ BytesIn(treeStart') = BytesIn(treeStart) \cup Bytes(p + w, CHUNK - w)
      <4>1. Alone(treeStart)
        BY <1>1 DEF RangesSound
      <4> QED BY <3>1, <3>3, <3>6, <4>1, FreedKeeps
    <3>8. machine' = "running"
      BY <3>1, <3>7 DEF Kassert
    <3>9. PagesSound(pages, pool, mapped') /\ PoolMaps(pool) \subseteq mapped'
      BY <1>1, <3>1 DEF PagesSound
    <3>10. RangeMaps(mapped', pool, pages) = maps \cup {Mapping(p, CHUNK)}
      BY <1>1, <3>1, <3>2 DEF RangeMaps, PagesSound
    <3>11. Mapping(p, CHUNK).x = p /\ Mapping(p, CHUNK).y = CHUNK
      BY DEF Mapping
    <3>12. BytesIn(RangeMaps(mapped', pool, pages)) = BytesIn(maps) \cup Bytes(p, CHUNK)
      BY <3>10, <3>11 DEF BytesIn
    <3>13. \A m \in RangeMaps(mapped', pool, pages) : m.y = CHUNK /\ m.x % CHUNK = 0
      BY <1>1, <3>2, <3>10, <3>11 DEF RangesSound
    <3>14. /\ BytesIn(maps) = BytesIn(treeStart) \cup OwnIn(objs) /\ BytesIn(treeStart) \cap OwnIn(objs) = {}
      BY <1>1 DEF RangesSound
    <3>15. Bytes(p + w, CHUNK - w) \cap OwnIn(objs) = {}
      BY <1>5, <3>2, <3>4
    <3>16. /\ BytesIn(treeStart') \cap OwnIn(objs) = {} /\ BytesIn(treeStart') \cap Bytes(p, w) = {}
           /\ Bytes(p, w) \cap OwnIn(objs) = {}
      BY <1>5, <3>5, <3>6, <3>7, <3>14, <3>15
    <3>17. BytesIn(RangeMaps(mapped', pool, pages)) = BytesIn(treeStart') \cup Bytes(p, w) \cup OwnIn(objs)
      BY <3>4, <3>7, <3>12, <3>14
    <3> QED BY <3>2, <3>3, <3>7, <3>8, <3>9, <3>13, <3>16, <3>17
  <2> QED BY <2>1, <2>2
<1>7. e \in Lives /\ e[1] = array /\ e[2].ptr = p /\ e[2].size = size
  BY <1>6 DEF Lives, Object
<1>8. Own(e) = Bytes(p, w) /\ p \in Own(e)
  BY <1>2, <1>6, <1>7 DEF Own, w, Bytes
<1>9. e \notin lives
  <2>1. SUFFICES ASSUME e \in objs PROVE FALSE
    BY <1>7 DEF RangedOf
  <2>2. p \in OwnIn(objs)
    BY <1>8, <2>1 DEF OwnIn
  <2> QED BY <1>6, <1>8, <2>2
<1>10. /\ SmallOf(lives \cup {e}) = SmallOf(lives) /\ RangedOf(lives \cup {e}) = objs \cup {e}
       /\ PagedOf(lives \cup {e}) = pages
  <2>1. objs = RangedOf(lives) /\ pages = PagedOf(lives)
    OBVIOUS
  <2>2. Ranged(e[1], e[2].size) /\ e \in Lives
    BY <1>7
  <2> HIDE DEF e, objs, pages, maps
  <2>3. /\ SmallOf(lives \cup {e}) = SmallOf(lives) /\ RangedOf(lives \cup {e}) = RangedOf(lives) \cup {e}
        /\ PagedOf(lives \cup {e}) = PagedOf(lives)
    BY <1>1, <2>2, Kinds
  <2> QED BY <2>1, <2>3
<1> HIDE DEF e, objs, pages, maps
<1>11. OwnIn(objs \cup {e}) = OwnIn(objs) \cup Bytes(p, w)
  BY <1>8 DEF OwnIn
<1>12. RangesSound(treeStart', objs \cup {e}, RangeMaps(mapped', pool, pages))
  <2>1. ASSUME NEW f \in objs PROVE Own(f) \cap Own(e) = {} /\ Own(e) \cap Own(f) = {}
    BY <1>6, <1>8 DEF OwnIn
  <2>2. \A f, g \in objs \cup {e} : f # g => Own(f) \cap Own(g) = {}
    BY <1>1, <2>1 DEF RangesSound
  <2>3. \A f \in objs \cup {e} : f[2].ptr % WORD = 0
    BY <1>1, <1>6, <1>7 DEF RangesSound
  <2>4. /\ BytesIn(RangeMaps(mapped', pool, pages)) = BytesIn(treeStart') \cup OwnIn(objs \cup {e})
        /\ BytesIn(treeStart') \cap OwnIn(objs \cup {e}) = {}
    BY <1>6, <1>11
  <2> QED BY <1>6, <2>2, <2>3, <2>4 DEF RangesSound
<1>13. SmallSound(SmallOf(lives), slabs, taken, pool, pHeaps, mapped')
  BY <1>1, <1>6 DEF SmallSound
<1>14. lives \cup {e} \subseteq Lives
  BY <1>1, <1>7
<1>15. Sound(lives \cup {e}, treeStart', slabs', taken', pool', pHeaps', mapped')
  BY <1>3, <1>6, <1>10, <1>12, <1>13, <1>14 DEF Sound
<1> QED BY <1>4, <1>6, <1>7, <1>9, <1>15 DEF e

\* A range goes back to the trees; a chunk that is wholly free goes back to MemoryManager.
LEMMA GiveRangeKeeps ==
  ASSUME NEW lives, Sound(lives, treeStart, slabs, taken, pool, pHeaps, mapped),
         CacheSound(sppCache, sppCacheIndex, pHeaps),
         NEW e \in lives, Ranged(e[1], e[2].size),
         GiveRange(Words(e[2].size), e[2].ptr)
  PROVE  /\ Sound(lives \ {e}, treeStart', slabs', taken', pool', pHeaps', mapped')
         /\ CacheSound(sppCache', sppCacheIndex', pHeaps') /\ machine' = "running"
<1> DEFINE w == Words(e[2].size)
           p == e[2].ptr
           objs == RangedOf(lives)
           pages == PagedOf(lives)
           maps == RangeMaps(mapped, pool, pages)
           range == Space!MergedRange(p, w)
           chunk == ChunkOf(p)
<1>1. /\ MapsSound(mapped) /\ PagesSound(pages, pool, mapped) /\ RangesSound(treeStart, objs, maps)
      /\ lives \in SUBSET Lives /\ PoolMaps(pool) \subseteq mapped /\ e \in objs /\ e \in Lives
      /\ SmallSound(SmallOf(lives), slabs, taken, pool, pHeaps, mapped)
  BY DEF Sound, SmallSound, RangedOf
<1>2. w \in Nat \ {0} /\ w % WORD = 0 /\ p \in Nat \ {0} /\ p % WORD = 0
  <2>1. e[2].size \in Nat /\ p \in Nat \ {0}
    BY <1>1 DEF Lives
  <2> QED BY <1>1, <2>1, WordsIs DEF RangesSound
<1>3. /\ pHeaps' = pHeaps /\ sppCache' = sppCache /\ sppCacheIndex' = sppCacheIndex
      /\ slabs' = slabs /\ taken' = taken /\ pool' = pool
      /\ Kassert(~Space!AlreadyFree(p, w))
      /\ IF CoversChunk(range, chunk)
         THEN /\ mapped' = mapped \ {Mapping(chunk, CHUNK)}
              /\ treeStart' = Unmerged(p, w) \cup WithoutChunk(range, chunk)
         ELSE /\ treeStart' = Freed(p, w)
              /\ mapped' = mapped
  BY DEF GiveRange, smallVars
<1>4. CacheSound(sppCache', sppCacheIndex', pHeaps')
  BY <1>3
<1>5. Own(e) = Bytes(p, w) /\ p \in Own(e)
  BY <1>2 DEF Own, Bytes
<1> HIDE DEF w, p, objs, pages, maps, range, chunk
<1>6. /\ BytesIn(maps) = BytesIn(treeStart) \cup OwnIn(objs) /\ BytesIn(treeStart) \cap OwnIn(objs) = {}
      /\ Own(e) \subseteq OwnIn(objs) /\ OwnIn(objs \ {e}) = OwnIn(objs) \ Own(e)
  BY <1>1 DEF RangesSound, OwnIn
<1>7. /\ ~Space!AlreadyFree(p, w) /\ Alone(Freed(p, w))
      /\ BytesIn(Freed(p, w)) = BytesIn(treeStart) \cup Own(e)
      /\ range \in Freed(p, w) /\ Unmerged(p, w) = Freed(p, w) \ {range}
  <2>1. Alone(treeStart) /\ Bytes(p, w) \cap BytesIn(treeStart) = {}
    BY <1>1, <1>5, <1>6 DEF RangesSound
  <2> QED BY <1>2, <1>5, <2>1, FreedKeeps DEF range
<1>8. machine' = "running"
  BY <1>3, <1>7 DEF Kassert
<1>9. /\ Mapping(chunk, CHUNK) \in maps /\ chunk \in Nat /\ chunk % WORD = 0
      /\ Mapping(chunk, CHUNK).x = chunk /\ Mapping(chunk, CHUNK).y = CHUNK
  <2>1. PICK m \in maps : p \in Bytes(m.x, m.y)
    BY <1>5, <1>6 DEF BytesIn
  <2>2. /\ m.x \in Nat /\ m.y = CHUNK /\ m.x % CHUNK = 0 /\ m = [x |-> m.x, y |-> m.y]
    BY <1>1 DEF RangesSound, MapsSound, RangeMaps, RangePair, maps
  <2>3. p - m.x \in 0 .. CHUNK - 1 /\ m.x + (p - m.x) = p
    BY <1>2, <2>1, <2>2, Positive DEF Bytes
  <2>4. m.x \in Int
    BY <2>2
  <2>5. (m.x + (p - m.x)) % CHUNK = p - m.x
    BY <2>2, <2>3, <2>4, Positive, Offset, Zenon
  <2>6. chunk = m.x
    BY <1>2, <2>2, <2>3, <2>5 DEF chunk, ChunkOf
  <2>7. m.x % WORD = 0
    BY <2>2, <2>4, Positive, WholeWords, MultipleOfMultiple, Zenon
  <2> QED BY <2>2, <2>6, <2>7 DEF Mapping
<1>10. /\ MapsSound(mapped') /\ PagesSound(pages, pool, mapped') /\ PoolMaps(pool) \subseteq mapped'
       /\ Alone(treeStart')
       /\ RangeMaps(mapped', pool, pages) \subseteq maps
       /\ BytesIn(RangeMaps(mapped', pool, pages)) = BytesIn(treeStart') \cup OwnIn(objs \ {e})
       /\ BytesIn(treeStart') \cap OwnIn(objs \ {e}) = {}
  <2>1. CASE CoversChunk(range, chunk)
    <3>1. /\ mapped' = mapped \ {Mapping(chunk, CHUNK)}
          /\ treeStart' = (Freed(p, w) \ {range}) \cup WithoutChunk(range, chunk)
      BY <1>3, <1>7, <2>1
    <3>2. range.x <= chunk /\ chunk + CHUNK <= range.x + range.y /\ range.x \in Nat /\ range.y \in Nat
      BY <1>7, <1>9, <2>1, Positive DEF CoversChunk, Alone, RangePair
    <3>3. Alone(treeStart') /\ BytesIn(treeStart') = BytesIn(Freed(p, w)) \ Bytes(chunk, CHUNK)
      BY <1>7, <1>9, <3>1, <3>2, Positive, WholeWords, CutKeeps DEF WithoutChunk
    <3>4. Bytes(chunk, CHUNK) \subseteq BytesIn(Freed(p, w))
      <4>1. Bytes(chunk, CHUNK) \subseteq Bytes(range.x, range.y)
        BY <1>9, <3>2, Positive DEF Bytes
      <4> QED BY <1>7, <4>1 DEF BytesIn
    <3>5. Mapping(chunk, CHUNK) \in mapped /\ Mapping(chunk, CHUNK) \notin PoolMaps(pool) \cup PageMaps(pages)
      BY <1>9 DEF maps, RangeMaps
    <3>6. MapsSound(mapped')
      BY <1>1, <3>1 DEF MapsSound
    <3>7. PagesSound(pages, pool, mapped') /\ PoolMaps(pool) \subseteq mapped'
      BY <1>1, <3>1, <3>5 DEF PagesSound
    <3>8. RangeMaps(mapped', pool, pages) = maps \ {Mapping(chunk, CHUNK)}
      BY <3>1 DEF RangeMaps, maps
    <3>9. BytesIn(maps \ {Mapping(chunk, CHUNK)}) = BytesIn(maps) \ Bytes(chunk, CHUNK)
      <4>1. ASSUME NEW m \in maps \ {Mapping(chunk, CHUNK)} PROVE Bytes(m.x, m.y) \cap Bytes(chunk, CHUNK) = {}
        <5>1. m \in mapped /\ m # Mapping(chunk, CHUNK)
          BY DEF maps, RangeMaps
        <5> QED BY <1>1, <1>9, <3>5, <5>1 DEF MapsSound
      <4> QED BY <1>9, <4>1 DEF BytesIn
    <3> QED BY <1>6, <1>7, <3>3, <3>4, <3>6, <3>7, <3>8, <3>9
  <2>2. CASE ~CoversChunk(range, chunk)
    <3>1. mapped' = mapped /\ treeStart' = Freed(p, w)
      BY <1>3, <2>2
    <3> QED BY <1>1, <1>6, <1>7, <3>1 DEF maps
  <2> QED BY <2>1, <2>2
<1>11. /\ SmallOf(lives \ {e}) = SmallOf(lives) /\ RangedOf(lives \ {e}) = objs \ {e}
       /\ PagedOf(lives \ {e}) = pages
  BY <1>1, Kinds DEF objs, pages
<1>12. RangesSound(treeStart', objs \ {e}, RangeMaps(mapped', pool, pages))
  BY <1>1, <1>10 DEF RangesSound
<1>13. SmallSound(SmallOf(lives), slabs, taken, pool, pHeaps, mapped')
  BY <1>1, <1>10 DEF SmallSound
<1>14. lives \ {e} \subseteq Lives
  BY <1>1
<1> QED BY <1>3, <1>4, <1>8, <1>10, <1>11, <1>12, <1>13, <1>14 DEF Sound

\* Pages are MemoryManager's to give; its NULL changes nothing.
LEMMA TakePagesKeeps ==
  ASSUME NEW lives, Sound(lives, treeStart, slabs, taken, pool, pHeaps, mapped),
         CacheSound(sppCache, sppCacheIndex, pHeaps),
         NEW array \in BOOLEAN, NEW size \in Nat, Paged(array, size),
         NEW p \in NextPages(Words(size)), TakePages(Words(size), p)
  PROVE  LET e == <<array, Object(p, size)>>
         IN  /\ p = NULL => Sound(lives, treeStart', slabs', taken', pool', pHeaps', mapped')
             /\ p # NULL => /\ Sound(lives \cup {e}, treeStart', slabs', taken', pool', pHeaps', mapped')
                            /\ e \in Lives /\ e \notin lives /\ p % PAGE = 0
             /\ CacheSound(sppCache', sppCacheIndex', pHeaps') /\ machine' = "running"
<1> DEFINE e == <<array, Object(p, size)>>
           w == Words(size)
           objs == PagedOf(lives)
<1>1. /\ MapsSound(mapped) /\ PagesSound(objs, pool, mapped) /\ lives \in SUBSET Lives
      /\ RangesSound(treeStart, RangedOf(lives), RangeMaps(mapped, pool, objs))
      /\ SmallSound(SmallOf(lives), slabs, taken, pool, pHeaps, mapped)
  BY DEF Sound
<1>2. /\ pHeaps' = pHeaps /\ sppCache' = sppCache /\ sppCacheIndex' = sppCacheIndex
      /\ slabs' = slabs /\ taken' = taken /\ pool' = pool /\ treeStart' = treeStart
      /\ mapped' = IF p = NULL THEN mapped ELSE mapped \cup {Mapping(p, RoundUp(w, PAGE))}
      /\ Kassert(TRUE)
  BY DEF TakePages, smallVars
<1>3. CacheSound(sppCache', sppCacheIndex', pHeaps') /\ machine' = "running"
  BY <1>2 DEF Kassert
<1>4. ASSUME p = NULL PROVE Sound(lives, treeStart', slabs', taken', pool', pHeaps', mapped')
  BY <1>2, <1>4
<1>5. ASSUME p # NULL
      PROVE  /\ Sound(lives \cup {e}, treeStart', slabs', taken', pool', pHeaps', mapped')
             /\ e \in Lives /\ e \notin lives /\ p % PAGE = 0
  <2>1. p \in Places(RoundUp(w, PAGE), PAGE) /\ mapped' = mapped \cup {Mapping(p, RoundUp(w, PAGE))}
    BY <1>2, <1>5 DEF NextPages
  <2>2. RoundUp(w, PAGE) \in Nat \ {0}
    BY Positive, WordsIs, RoundUpIs
  <2>3. /\ MapsSound(mapped') /\ Mapping(p, RoundUp(w, PAGE)) \notin mapped
        /\ p \in Nat \ {0} /\ p % PAGE = 0 /\ p \in Bytes(p, RoundUp(w, PAGE))
        /\ Bytes(p, RoundUp(w, PAGE)) \cap BytesIn(mapped) = {}
    BY <1>1, <2>1, <2>2, PlaceIs
  <2>4. e \in Lives /\ e[1] = array /\ e[2].ptr = p /\ e[2].size = size
    BY <2>3 DEF Lives, Object
  <2>5. PageMap(e) = Mapping(p, RoundUp(w, PAGE))
    BY <2>4 DEF PageMap
  <2>6. ASSUME NEW f \in objs PROVE f[2].ptr # p
    <3>1. f \in Lives /\ PageMap(f) \in mapped
      BY <1>1 DEF PagesSound, PageMaps, PagedOf
    <3>2. f[2].ptr \in BytesIn(mapped)
      BY <3>1, PageMapIs DEF BytesIn, Bytes
    <3> QED BY <2>3, <3>2
  <2>7. e \notin lives
    <3>1. SUFFICES ASSUME e \in objs PROVE FALSE
      BY <2>4 DEF PagedOf
    <3> QED BY <2>4, <2>6, <3>1
  <2>8. /\ SmallOf(lives \cup {e}) = SmallOf(lives) /\ RangedOf(lives \cup {e}) = RangedOf(lives)
        /\ PagedOf(lives \cup {e}) = objs \cup {e}
    BY <1>1, <2>4, Kinds
  <2> HIDE DEF e, w, objs
  <2>9. PageMaps(objs \cup {e}) = PageMaps(objs) \cup {PageMap(e)}
    BY DEF PageMaps
  <2>10. PoolMaps(pool) \subseteq mapped
    BY <1>1 DEF SmallSound
  <2>11. PagesSound(objs \cup {e}, pool, mapped')
    BY <1>1, <2>1, <2>3, <2>4, <2>5, <2>6, <2>9, <2>10 DEF PagesSound
  <2>12. RangeMaps(mapped', pool, objs \cup {e}) = RangeMaps(mapped, pool, objs)
    BY <2>1, <2>3, <2>5, <2>9 DEF RangeMaps
  <2>13. SmallSound(SmallOf(lives), slabs, taken, pool, pHeaps, mapped')
    BY <1>1, <2>1 DEF SmallSound
  <2>14. lives \cup {e} \subseteq Lives
    BY <1>1, <2>4
  <2> QED BY <1>1, <1>2, <2>3, <2>4, <2>7, <2>8, <2>11, <2>12, <2>13, <2>14 DEF Sound
<1> QED BY <1>3, <1>4, <1>5

\* Pages that are given back were one mapping.
LEMMA GivePagesKeeps ==
  ASSUME NEW lives, Sound(lives, treeStart, slabs, taken, pool, pHeaps, mapped),
         CacheSound(sppCache, sppCacheIndex, pHeaps),
         NEW e \in lives, Paged(e[1], e[2].size),
         GivePages(Words(e[2].size), e[2].ptr)
  PROVE  /\ Sound(lives \ {e}, treeStart', slabs', taken', pool', pHeaps', mapped')
         /\ CacheSound(sppCache', sppCacheIndex', pHeaps') /\ machine' = "running"
<1> DEFINE objs == PagedOf(lives)
<1>1. /\ MapsSound(mapped) /\ PagesSound(objs, pool, mapped) /\ lives \in SUBSET Lives
      /\ RangesSound(treeStart, RangedOf(lives), RangeMaps(mapped, pool, objs))
      /\ SmallSound(SmallOf(lives), slabs, taken, pool, pHeaps, mapped) /\ e \in objs /\ e \in Lives
  BY DEF Sound, PagedOf
<1>2. /\ pHeaps' = pHeaps /\ sppCache' = sppCache /\ sppCacheIndex' = sppCacheIndex
      /\ slabs' = slabs /\ taken' = taken /\ pool' = pool /\ treeStart' = treeStart
      /\ mapped' = mapped \ {PageMap(e)} /\ Kassert(TRUE)
  BY DEF GivePages, PageMap, smallVars
<1>3. CacheSound(sppCache', sppCacheIndex', pHeaps') /\ machine' = "running"
  BY <1>2 DEF Kassert
<1>4. PageMap(e) \in PageMaps(objs) /\ PageMap(e) \notin PoolMaps(pool) /\ PageMaps(objs) \subseteq mapped
  BY <1>1 DEF PagesSound, PageMaps
<1>5. PageMaps(objs \ {e}) = PageMaps(objs) \ {PageMap(e)}
  <2>1. ASSUME NEW f \in objs \ {e} PROVE PageMap(f) # PageMap(e)
    <3>1. f \in Lives
      BY <1>1 DEF PagedOf
    <3> QED BY <1>1, <3>1, PageMapIs DEF PagesSound
  <2> QED BY <2>1 DEF PageMaps
<1>6. /\ SmallOf(lives \ {e}) = SmallOf(lives) /\ RangedOf(lives \ {e}) = RangedOf(lives)
      /\ PagedOf(lives \ {e}) = objs \ {e}
  BY <1>1, Kinds
<1> HIDE DEF objs
<1>7. MapsSound(mapped')
  BY <1>1, <1>2 DEF MapsSound
<1>8. PagesSound(objs \ {e}, pool, mapped')
  BY <1>1, <1>2, <1>5 DEF PagesSound
<1>9. RangeMaps(mapped', pool, objs \ {e}) = RangeMaps(mapped, pool, objs)
  BY <1>2, <1>4, <1>5 DEF RangeMaps
<1>10. SmallSound(SmallOf(lives), slabs, taken, pool, pHeaps, mapped')
  BY <1>1, <1>2, <1>4 DEF SmallSound
<1>11. lives \ {e} \subseteq Lives
  BY <1>1
<1> QED BY <1>1, <1>2, <1>3, <1>6, <1>7, <1>8, <1>9, <1>10, <1>11 DEF Sound
-----------------------------------------------------------------------------
(***************************************************************************)
(* What the invariant says of the bytes of the objects.                    *)
(***************************************************************************)
\* A small object lies in a block of its size and in a chunk of blocks.
LEMMA SmallPlace ==
  ASSUME NEW objs \in SUBSET Lives, NEW blocks, NEW inUse, NEW chunks, NEW heaps, NEW maps,
         SmallSound(objs, blocks, inUse, chunks, heaps, maps), NEW e \in objs
  PROVE  \E b \in blocks, c \in chunks :
           /\ b.size = Words(e[2].size) /\ b.size \in 1 .. LIMIT
           /\ b.block \in Nat /\ b.block % BLOCK = 0
           /\ e[2].ptr \in ObjectsOf(b.block, b.size) /\ Mapping(c, POOL) \in maps
           /\ Own(e) \subseteq Bytes(b.block, BLOCK) /\ Own(e) \subseteq Bytes(c, POOL)
<1>1. PICK b \in blocks : b.size = Words(e[2].size) /\ e[2].ptr \in ObjectsOf(b.block, b.size)
  BY DEF SmallSound
<1>2. PICK c \in chunks : b.block \in BlocksOf(c)
  BY DEF SmallSound
<1>3. c \in Nat /\ c % POOL = 0 /\ b.size \in 1 .. LIMIT /\ Mapping(c, POOL) \in maps
  BY DEF SmallSound, PoolMaps
<1>4. b.block \in Nat /\ b.block % BLOCK = 0 /\ c < b.block /\ b.block + BLOCK <= c + POOL
  BY <1>2, <1>3, BlockPlace
<1>5. /\ e[2].ptr \in Nat /\ b.block < e[2].ptr /\ e[2].ptr + b.size <= b.block + BLOCK
  BY <1>1, <1>3, <1>4, ObjectPlace
<1>6. Own(e) \subseteq Bytes(b.block, BLOCK) /\ Own(e) \subseteq Bytes(c, POOL)
  BY <1>1, <1>3, <1>4, <1>5, Positive DEF Own, Bytes
<1> QED BY <1>1, <1>3, <1>4, <1>6

\* Two small objects have no byte in common.
LEMMA SmallApart ==
  ASSUME NEW objs \in SUBSET Lives, NEW blocks, NEW inUse, NEW chunks, NEW heaps, NEW maps,
         SmallSound(objs, blocks, inUse, chunks, heaps, maps), NEW e \in objs, NEW f \in objs, e # f
  PROVE  Own(e) \cap Own(f) = {}
<1>1. PICK b \in blocks : /\ b.size = Words(e[2].size) /\ b.size \in 1 .. LIMIT
                          /\ b.block \in Nat /\ b.block % BLOCK = 0
                          /\ e[2].ptr \in ObjectsOf(b.block, b.size)
                          /\ Own(e) \subseteq Bytes(b.block, BLOCK)
  BY SmallPlace
<1>2. PICK d \in blocks : /\ d.size = Words(f[2].size) /\ d.size \in 1 .. LIMIT
                          /\ d.block \in Nat /\ d.block % BLOCK = 0
                          /\ f[2].ptr \in ObjectsOf(d.block, d.size)
                          /\ Own(f) \subseteq Bytes(d.block, BLOCK)
  BY SmallPlace
<1>3. e[2].ptr # f[2].ptr /\ e[2].ptr \in Nat /\ f[2].ptr \in Nat
  BY DEF SmallSound, Lives
<1>4. CASE b.block = d.block
  <2>1. b = d
    BY <1>4 DEF SmallSound
  <2>2. e[2].ptr + b.size <= f[2].ptr \/ f[2].ptr + b.size <= e[2].ptr
    BY <1>1, <1>2, <1>3, <2>1, ObjectPlace
  <2> QED BY <1>1, <1>2, <1>3, <2>1, <2>2 DEF Own, Bytes
<1>5. CASE b.block # d.block
  <2>1. b.block + BLOCK <= d.block \/ d.block + BLOCK <= b.block
    <3>1. b.block \in Int /\ d.block \in Int /\ (b.block < d.block \/ d.block < b.block)
      BY <1>1, <1>2, <1>5
    <3> QED BY <1>1, <1>2, <3>1, Positive, MultiplesApart, Zenon
  <2>2. Bytes(b.block, BLOCK) \cap Bytes(d.block, BLOCK) = {}
    BY <1>1, <1>2, <2>1, Positive DEF Bytes
  <2> QED BY <1>1, <1>2, <2>2
<1> QED BY <1>4, <1>5

\* A mapping of another kind has no byte of a chunk of ranges.
LEMMA KindsApart ==
  ASSUME NEW maps, MapsSound(maps), NEW chunks, NEW objs,
         NEW m \in maps, m \in PoolMaps(chunks) \cup PageMaps(objs)
  PROVE  Bytes(m.x, m.y) \cap BytesIn(RangeMaps(maps, chunks, objs)) = {}
<1>1. ASSUME NEW n \in RangeMaps(maps, chunks, objs) PROVE Bytes(m.x, m.y) \cap Bytes(n.x, n.y) = {}
  BY DEF RangeMaps, MapsSound
<1> QED BY <1>1 DEF BytesIn

\* No two objects have a byte in common, whoever serves them.
LEMMA ObjectsApart ==
  ASSUME NEW lives, NEW tree, NEW blocks, NEW inUse, NEW chunks, NEW heaps, NEW maps,
         Sound(lives, tree, blocks, inUse, chunks, heaps, maps),
         NEW e \in lives, NEW f \in lives, e # f
  PROVE  Own(e) \cap Own(f) = {}
<1> DEFINE ranges == RangeMaps(maps, chunks, PagedOf(lives))
<1>1. /\ MapsSound(maps) /\ PagesSound(PagedOf(lives), chunks, maps)
      /\ SmallSound(SmallOf(lives), blocks, inUse, chunks, heaps, maps)
      /\ RangesSound(tree, RangedOf(lives), ranges) /\ lives \in SUBSET Lives
      /\ SmallOf(lives) \in SUBSET Lives /\ PagedOf(lives) \subseteq Lives
  BY DEF Sound, SmallOf, PagedOf
\* What an object that is no range lies in.
<1> DEFINE Around(g, m) == /\ m \in maps /\ m \in PoolMaps(chunks) \cup PageMaps(PagedOf(lives))
                           /\ Own(g) \subseteq Bytes(m.x, m.y)
<1>2. ASSUME NEW g \in SmallOf(lives) PROVE \E m \in PoolMaps(chunks) : Around(g, m)
  <2>1. PICK c \in chunks : Mapping(c, POOL) \in maps /\ Own(g) \subseteq Bytes(c, POOL)
    BY <1>1, SmallPlace
  <2> QED BY <2>1 DEF PoolMaps, Mapping
<1>3. ASSUME NEW g \in PagedOf(lives) PROVE Around(g, PageMap(g)) /\ PageMap(g) \notin PoolMaps(chunks)
  <2>1. PageMap(g) \in PageMaps(PagedOf(lives))
    BY DEF PageMaps
  <2>2. /\ PageMap(g).x = g[2].ptr /\ PageMap(g).y \in Nat /\ PageMap(g).y >= Words(g[2].size)
        /\ g[2].ptr \in Nat /\ Words(g[2].size) \in Nat
    BY <1>1, PageMapIs, WordsIs
  <2>3. Own(g) \subseteq Bytes(PageMap(g).x, PageMap(g).y)
    BY <2>2 DEF Own, Bytes
  <2> QED BY <1>1, <2>1, <2>3 DEF PagesSound
<1>4. ASSUME NEW g \in RangedOf(lives) PROVE Own(g) \subseteq BytesIn(ranges)
  BY <1>1 DEF RangesSound, OwnIn
<1>5. \A g \in lives : g \in SmallOf(lives) \/ g \in RangedOf(lives) \/ g \in PagedOf(lives)
  <2>1. ASSUME NEW g \in lives PROVE Words(g[2].size) \in Nat /\ CHUNK \div 2 \in Int
    <3>1. g[2].size \in Nat /\ CHUNK \div 2 \in Int
      BY <1>1, Positive DEF Lives
    <3> QED BY <3>1, WordsIs
  <2> QED BY <2>1 DEF SmallOf, RangedOf, PagedOf, Ranged, Paged
<1> HIDE DEF ranges
<1>6. ASSUME NEW g, NEW h \in RangedOf(lives), NEW m, Around(g, m) PROVE Own(g) \cap Own(h) = {}
  BY <1>1, <1>4, <1>6, KindsApart DEF ranges
<1>7. ASSUME NEW g, NEW h, NEW m, NEW n, Around(g, m), Around(h, n), m # n PROVE Own(g) \cap Own(h) = {}
  BY <1>1, <1>7 DEF MapsSound
<1>8. ASSUME NEW g \in SmallOf(lives), NEW h \in PagedOf(lives) PROVE Own(g) \cap Own(h) = {}
  BY <1>2, <1>3, <1>7
<1>9. ASSUME e \in SmallOf(lives), f \in SmallOf(lives) PROVE Own(e) \cap Own(f) = {}
  BY <1>1, <1>9, SmallApart
<1>10. ASSUME e \in PagedOf(lives), f \in PagedOf(lives) PROVE Own(e) \cap Own(f) = {}
  <2>1. PageMap(e) # PageMap(f)
    BY <1>1, <1>10, PageMapIs DEF PagesSound
  <2> QED BY <1>3, <1>7, <1>10, <2>1
<1>11. ASSUME e \in RangedOf(lives), f \in RangedOf(lives) PROVE Own(e) \cap Own(f) = {}
  BY <1>1, <1>11 DEF RangesSound
<1> HIDE DEF Around
<1> QED BY <1>2, <1>3, <1>5, <1>6, <1>8, <1>9, <1>10, <1>11

\* Every object is at a word.
LEMMA ObjectsAtWords ==
  ASSUME NEW lives, NEW tree, NEW blocks, NEW inUse, NEW chunks, NEW heaps, NEW maps,
         Sound(lives, tree, blocks, inUse, chunks, heaps, maps), NEW e \in lives
  PROVE  e[2].ptr % WORD = 0
<1>1. /\ PagesSound(PagedOf(lives), chunks, maps)
      /\ SmallSound(SmallOf(lives), blocks, inUse, chunks, heaps, maps)
      /\ RangesSound(tree, RangedOf(lives), RangeMaps(maps, chunks, PagedOf(lives)))
      /\ SmallOf(lives) \in SUBSET Lives /\ e \in Lives
  BY DEF Sound, SmallOf
<1>2. e[2].size \in Nat /\ e[2].ptr \in Int /\ Words(e[2].size) \in Nat
      /\ Words(e[2].size) % WORD = 0 /\ CHUNK \div 2 \in Int
  <2>1. e[2].size \in Nat /\ e[2].ptr \in Int /\ CHUNK \div 2 \in Int
    BY <1>1, Positive DEF Lives
  <2> QED BY <2>1, WordsIs
<1>3. CASE e \in SmallOf(lives)
  <2>1. PICK b \in blocks : /\ b.size = Words(e[2].size) /\ b.size \in 1 .. LIMIT
                            /\ b.block \in Nat /\ b.block % BLOCK = 0
                            /\ e[2].ptr \in ObjectsOf(b.block, b.size)
    BY <1>1, <1>3, SmallPlace
  <2>2. b.block % WORD = 0
    <3>1. b.block \in Int
      BY <2>1
    <3> QED BY <2>1, <3>1, Positive, WholeWords, MultipleOfMultiple, Zenon
  <2> QED BY <1>2, <2>1, <2>2, ObjectsThere
<1>4. CASE e \in RangedOf(lives)
  BY <1>1, <1>4 DEF RangesSound
<1>5. CASE e \in PagedOf(lives)
  <2>1. e[2].ptr % PAGE = 0
    BY <1>1, <1>5 DEF PagesSound
  <2> QED BY <1>2, <2>1, Positive, WholeWords, MultipleOfMultiple, Zenon
<1>6. e \in SmallOf(lives) \/ e \in RangedOf(lives) \/ e \in PagedOf(lives)
  BY <1>2 DEF SmallOf, RangedOf, PagedOf, Ranged, Paged
<1> QED BY <1>3, <1>4, <1>5, <1>6
-----------------------------------------------------------------------------
(***************************************************************************)
(* The steps.                                                              *)
(***************************************************************************)
\* The heap is empty at the beginning.
LEMMA InitSound == Init => IInv
<1> SUFFICES ASSUME Init PROVE IInv
  OBVIOUS
<1>1. LiveObjects = {} /\ treeStart = {} /\ slabs = {} /\ taken = {} /\ pool = {} /\ pHeaps = {} /\ mapped = {}
  BY DEF Init, LiveObjects
<1>2. /\ SmallOf({}) = {} /\ RangedOf({}) = {} /\ PagedOf({}) = {} /\ BytesIn({}) = {} /\ OwnIn({}) = {}
      /\ PoolMaps({}) = {} /\ PageMaps({}) = {} /\ RangeMaps({}, {}, {}) = {}
  BY DEF SmallOf, RangedOf, PagedOf, BytesIn, OwnIn, PoolMaps, PageMaps, RangeMaps
<1>3. MapsSound({}) /\ PagesSound({}, {}, {}) /\ SmallSound({}, {}, {}, {}, {}, {})
  BY <1>2 DEF MapsSound, PagesSound, SmallSound
<1>4. RangesSound({}, {}, {})
  BY <1>2 DEF RangesSound, Alone
<1>5. Sound({}, {}, {}, {}, {}, {}, {})
  BY <1>2, <1>3, <1>4 DEF Sound
<1>6. CacheSound(sppCache, sppCacheIndex, {})
  BY Positive DEF Init, CacheSound, NoHeap
<1>7. machine # "kassert"
  BY DEF Init
<1> QED BY <1>1, <1>5, <1>6, <1>7 DEF IInv

\* Whoever serves a request, the object is a new one, and at an address.
LEMMA ObtainKeeps ==
  ASSUME IInv, NEW array \in BOOLEAN, NEW size \in Nat, NEW p \in Answers(array, size),
         Obtain(array, size, p)
  PROVE  LET e == <<array, Object(p, size)>>
         IN  /\ p = NULL => Sound(LiveObjects, treeStart', slabs', taken', pool', pHeaps', mapped')
             /\ p # NULL => /\ Sound(LiveObjects \cup {e}, treeStart', slabs', taken', pool', pHeaps', mapped')
                            /\ e \notin LiveObjects
             /\ CacheSound(sppCache', sppCacheIndex', pHeaps') /\ machine' = "running"
<1> DEFINE e == <<array, Object(p, size)>>
<1>1. /\ Sound(LiveObjects, treeStart, slabs, taken, pool, pHeaps, mapped)
      /\ CacheSound(sppCache, sppCacheIndex, pHeaps)
  BY DEF IInv
<1>2. ~(Ranged(array, size) /\ Paged(array, size))
  <2>1. Words(size) \in Nat /\ CHUNK \div 2 \in Int
    BY WordsIs, Positive
  <2> QED BY <2>1 DEF Ranged, Paged
<1>3. e \in Lives => p # NULL
  BY DEF Lives, Object, NULL
<1>4. CASE Small(array, size)
  <2>1. p \in NextObjects(Words(size)) /\ TakeSmall(Words(size), p)
    BY <1>4 DEF Answers, Obtain, Ranged, Paged
  <2> QED BY <1>1, <1>3, <1>4, <2>1, TakeSmallKeeps
<1>5. CASE Ranged(array, size)
  <2>1. p \in NextRanges(Words(size)) /\ TakeRange(Words(size), p)
    BY <1>2, <1>5 DEF Answers, Obtain, Ranged
  <2> QED BY <1>1, <1>3, <1>5, <2>1, TakeRangeKeeps
<1>6. CASE Paged(array, size)
  <2>1. p \in NextPages(Words(size)) /\ TakePages(Words(size), p)
    BY <1>2, <1>6 DEF Answers, Obtain, Paged
  <2> QED BY <1>1, <1>6, <2>1, TakePagesKeeps
<1> QED BY <1>4, <1>5, <1>6 DEF Obtain

\* Whoever takes it back, the others stay.
LEMMA ReleaseKeeps ==
  ASSUME IInv, NEW e \in LiveObjects, Release(e[1], e[2].size, e[2].ptr)
  PROVE  /\ Sound(LiveObjects \ {e}, treeStart', slabs', taken', pool', pHeaps', mapped')
         /\ CacheSound(sppCache', sppCacheIndex', pHeaps') /\ machine' = "running"
<1>1. /\ Sound(LiveObjects, treeStart, slabs, taken, pool, pHeaps, mapped)
      /\ CacheSound(sppCache, sppCacheIndex, pHeaps)
  BY DEF IInv
<1>2. CASE Small(e[1], e[2].size) /\ GiveSmall(Words(e[2].size), e[2].ptr)
  BY <1>1, <1>2, GiveSmallKeeps
<1>3. CASE Ranged(e[1], e[2].size) /\ GiveRange(Words(e[2].size), e[2].ptr)
  BY <1>1, <1>3, GiveRangeKeeps
<1>4. CASE Paged(e[1], e[2].size) /\ GivePages(Words(e[2].size), e[2].ptr)
  BY <1>1, <1>4, GivePagesKeeps
<1> QED BY <1>2, <1>3, <1>4 DEF Release

\* The live objects after a call of new, new[], delete or delete[].
LEMMA SingleAdded ==
  ASSUME NEW size \in Nat, NEW p,
         singleObjects' = singleObjects \cup {Object(p, size)}, arrayObjects' = arrayObjects
  PROVE  LiveObjects' = IF p = NULL THEN LiveObjects ELSE LiveObjects \cup {<<FALSE, Object(p, size)>>}
<1>1. Object(p, size).ptr = p
  BY DEF Object
<1> QED BY <1>1 DEF LiveObjects

\* The same for new[].
LEMMA ArrayAdded ==
  ASSUME NEW size \in Nat, NEW p,
         arrayObjects' = arrayObjects \cup {Object(p, size)}, singleObjects' = singleObjects
  PROVE  LiveObjects' = IF p = NULL THEN LiveObjects ELSE LiveObjects \cup {<<TRUE, Object(p, size)>>}
<1>1. Object(p, size).ptr = p
  BY DEF Object
<1> QED BY <1>1 DEF LiveObjects

\* What a step does to the live objects: one more, one less, or the same, and the heap
\* is sound for them.
LEMMA StepIs ==
  ASSUME IInv, Next
  PROVE  /\ Sound(LiveObjects', treeStart', slabs', taken', pool', pHeaps', mapped')
         /\ CacheSound(sppCache', sppCacheIndex', pHeaps') /\ machine' # "kassert"
         /\ \/ LiveObjects' = LiveObjects
            \/ \E e : e \notin LiveObjects /\ LiveObjects' = LiveObjects \cup {e}
            \/ \E e \in LiveObjects : LiveObjects' = LiveObjects \ {e}
<1>1. ASSUME NEW size \in Singles, AllocSingle(size)
      PROVE  /\ Sound(LiveObjects', treeStart', slabs', taken', pool', pHeaps', mapped')
             /\ CacheSound(sppCache', sppCacheIndex', pHeaps') /\ machine' # "kassert"
             /\ \/ LiveObjects' = LiveObjects
                \/ \E e : e \notin LiveObjects /\ LiveObjects' = LiveObjects \cup {e}
  <2>1. PICK p \in Answers(FALSE, size) :
          /\ Obtain(FALSE, size, p)
          /\ singleObjects' = singleObjects \cup {Object(p, size)} /\ arrayObjects' = arrayObjects
    BY <1>1 DEF AllocSingle
  <2>2. size \in Nat /\ FALSE \in BOOLEAN
    BY RequestsAssumption
  <2>3. LiveObjects' = IF p = NULL THEN LiveObjects ELSE LiveObjects \cup {<<FALSE, Object(p, size)>>}
    BY <2>1, <2>2, SingleAdded
  <2> QED BY <2>1, <2>2, <2>3, ObtainKeeps
<1>2. ASSUME NEW size \in Arrays, AllocArray(size)
      PROVE  /\ Sound(LiveObjects', treeStart', slabs', taken', pool', pHeaps', mapped')
             /\ CacheSound(sppCache', sppCacheIndex', pHeaps') /\ machine' # "kassert"
             /\ \/ LiveObjects' = LiveObjects
                \/ \E e : e \notin LiveObjects /\ LiveObjects' = LiveObjects \cup {e}
  <2>1. PICK p \in Answers(TRUE, size) :
          /\ Obtain(TRUE, size, p)
          /\ arrayObjects' = arrayObjects \cup {Object(p, size)} /\ singleObjects' = singleObjects
    BY <1>2 DEF AllocArray
  <2>2. size \in Nat /\ TRUE \in BOOLEAN
    BY RequestsAssumption
  <2>3. LiveObjects' = IF p = NULL THEN LiveObjects ELSE LiveObjects \cup {<<TRUE, Object(p, size)>>}
    BY <2>1, <2>2, ArrayAdded
  <2> QED BY <2>1, <2>2, <2>3, ObtainKeeps
<1>3. ASSUME NEW o \in singleObjects, o.ptr # NULL, FreeSingle(o)
      PROVE  /\ Sound(LiveObjects', treeStart', slabs', taken', pool', pHeaps', mapped')
             /\ CacheSound(sppCache', sppCacheIndex', pHeaps') /\ machine' # "kassert"
             /\ \E e \in LiveObjects : LiveObjects' = LiveObjects \ {e}
  <2> DEFINE e == <<FALSE, o>>
  <2>1. e \in LiveObjects /\ e[1] = FALSE /\ e[2] = o
    BY <1>3 DEF LiveObjects
  <2>2. LiveObjects' = LiveObjects \ {e}
    <3>1. singleObjects' = singleObjects \ {o} /\ arrayObjects' = arrayObjects
      BY <1>3 DEF FreeSingle
    <3>2. ASSUME NEW x PROVE x \in LiveObjects' <=> x \in LiveObjects /\ x # e
      <4>1. CASE x \in LiveObjects' /\ ~(x \in LiveObjects /\ x # e)
        <5>1. CASE \E q \in singleObjects' : q.ptr # NULL /\ x = <<FALSE, q>>
          BY <3>1, <4>1, <5>1 DEF LiveObjects
        <5>2. CASE \E q \in arrayObjects' : q.ptr # NULL /\ x = <<TRUE, q>>
          <6>1. x \in LiveObjects
            BY <3>1, <5>2 DEF LiveObjects
          <6>2. x[1] = TRUE /\ e[1] = FALSE
            BY <5>2
          <6> QED BY <4>1, <6>1, <6>2
        <5> QED BY <4>1, <5>1, <5>2 DEF LiveObjects
      <4>2. CASE x \in LiveObjects /\ x # e /\ x \notin LiveObjects'
        <5>1. CASE \E q \in singleObjects : q.ptr # NULL /\ x = <<FALSE, q>>
          BY <3>1, <4>2, <5>1 DEF LiveObjects
        <5>2. CASE \E q \in arrayObjects : q.ptr # NULL /\ x = <<TRUE, q>>
          BY <3>1, <4>2, <5>2 DEF LiveObjects
        <5> QED BY <4>2, <5>1, <5>2 DEF LiveObjects
      <4> QED BY <4>1, <4>2
    <3> QED BY <3>2
  <2>3. Release(e[1], e[2].size, e[2].ptr)
    BY <1>3, <2>1 DEF FreeSingle
  <2> HIDE DEF e
  <2> QED BY <2>1, <2>2, <2>3, ReleaseKeeps
<1>4. ASSUME NEW o \in arrayObjects, o.ptr # NULL, FreeArray(o)
      PROVE  /\ Sound(LiveObjects', treeStart', slabs', taken', pool', pHeaps', mapped')
             /\ CacheSound(sppCache', sppCacheIndex', pHeaps') /\ machine' # "kassert"
             /\ \E e \in LiveObjects : LiveObjects' = LiveObjects \ {e}
  <2> DEFINE e == <<TRUE, o>>
  <2>1. e \in LiveObjects /\ e[1] = TRUE /\ e[2] = o
    BY <1>4 DEF LiveObjects
  <2>2. LiveObjects' = LiveObjects \ {e}
    <3>1. arrayObjects' = arrayObjects \ {o} /\ singleObjects' = singleObjects
      BY <1>4 DEF FreeArray
    <3>2. ASSUME NEW x PROVE x \in LiveObjects' <=> x \in LiveObjects /\ x # e
      <4>1. CASE x \in LiveObjects' /\ ~(x \in LiveObjects /\ x # e)
        <5>1. CASE \E q \in arrayObjects' : q.ptr # NULL /\ x = <<TRUE, q>>
          BY <3>1, <4>1, <5>1 DEF LiveObjects
        <5>2. CASE \E q \in singleObjects' : q.ptr # NULL /\ x = <<FALSE, q>>
          <6>1. x \in LiveObjects
            BY <3>1, <5>2 DEF LiveObjects
          <6>2. x[1] = FALSE /\ e[1] = TRUE
            BY <5>2
          <6> QED BY <4>1, <6>1, <6>2
        <5> QED BY <4>1, <5>1, <5>2 DEF LiveObjects
      <4>2. CASE x \in LiveObjects /\ x # e /\ x \notin LiveObjects'
        <5>1. CASE \E q \in arrayObjects : q.ptr # NULL /\ x = <<TRUE, q>>
          BY <3>1, <4>2, <5>1 DEF LiveObjects
        <5>2. CASE \E q \in singleObjects : q.ptr # NULL /\ x = <<FALSE, q>>
          BY <3>1, <4>2, <5>2 DEF LiveObjects
        <5> QED BY <4>2, <5>1, <5>2 DEF LiveObjects
      <4> QED BY <4>1, <4>2
    <3> QED BY <3>2
  <2>3. Release(e[1], e[2].size, e[2].ptr)
    BY <1>4, <2>1 DEF FreeArray
  <2> HIDE DEF e
  <2> QED BY <2>1, <2>2, <2>3, ReleaseKeeps
<1>5. ASSUME OutOfMemory
      PROVE  /\ Sound(LiveObjects', treeStart', slabs', taken', pool', pHeaps', mapped')
             /\ CacheSound(sppCache', sppCacheIndex', pHeaps') /\ machine' # "kassert"
             /\ LiveObjects' = LiveObjects
  <2>1. LiveObjects' = LiveObjects
    BY <1>5 DEF OutOfMemory, LiveObjects
  <2>2. /\ treeStart' = treeStart /\ slabs' = slabs /\ taken' = taken /\ pool' = pool
        /\ pHeaps' = pHeaps /\ mapped' = mapped /\ sppCache' = sppCache
        /\ sppCacheIndex' = sppCacheIndex /\ machine' # "kassert"
    BY <1>5 DEF OutOfMemory, smallVars
  <2> QED BY <2>1, <2>2 DEF IInv
<1> QED BY <1>1, <1>2, <1>3, <1>4, <1>5 DEF Next

\* A step keeps the invariant.
LEMMA StepSound == IInv /\ [Next]_vars => IInv'
<1> SUFFICES ASSUME IInv, [Next]_vars PROVE IInv'
  OBVIOUS
<1>1. CASE Next
  BY <1>1, StepIs DEF IInv
<1>2. CASE UNCHANGED vars
  <2>1. LiveObjects' = LiveObjects
    BY <1>2 DEF vars, LiveObjects
  <2> QED BY <1>2, <2>1 DEF IInv, vars
<1> QED BY <1>1, <1>2

\* The heap is sound in every reachable state: the mappings are its chunks of blocks, its chunks
\* of ranges and the pages of its objects; the chunks of ranges are what is free in the
\* trees and what objects own; every object in use is in a block of its heap; the cache is right.
THEOREM HeapSound == Spec => []IInv
BY InitSound, StepSound, PTL DEF Spec

\* No kassert of the heap fails while callers delete what they got, once: getPH answers with the
\* heap of the size, and free() never meets a range that is free.
THEOREM NeverAsserts == Spec => []NoKassertFails
<1>1. IInv => NoKassertFails
  BY DEF IInv, NoKassertFails
<1> QED BY <1>1, HeapSound, PTL

\* Every byte that MemoryManager gave has exactly one use, and the objects in use in the
\* heaps are the live ones: no byte leaks, whatever is allocated and freed in which order.
THEOREM EveryByteUsedOnce == Spec => []MemoryAccounted
<1>1. IInv => MemoryAccounted
  <2> SUFFICES ASSUME IInv PROVE MemoryAccounted
    OBVIOUS
  <2> DEFINE pages == PagedOf(LiveObjects)
             ranged == RangedOf(LiveObjects)
             maps == RangeMaps(mapped, pool, pages)
             others == PoolMaps(pool) \cup PageMaps(pages)
  <2>1. /\ MapsSound(mapped) /\ RangesSound(treeStart, ranged, maps)
        /\ taken = {e[2].ptr : e \in SmallOf(LiveObjects)} /\ others \subseteq mapped
    BY DEF IInv, Sound, SmallSound, PagesSound
  <2>2. MappedBytes = BytesIn(maps) \cup BytesIn(others)
    <3>1. mapped = maps \cup others
      BY <2>1 DEF RangeMaps
    <3> QED BY <3>1 DEF MappedBytes, BytesIn
  <2> DEFINE Free(u) == \E r \in treeStart : u = Bytes(r.x, r.y)
             Owned(u) == \E e \in ranged : u = Own(e)
             Whole(u) == \E m \in others : u = Bytes(m.x, m.y)
  <2>3. \A u : u \in Uses <=> Free(u) \/ Owned(u) \/ Whole(u)
    <3> DEFINE A == {Bytes(r.x, r.y) : r \in treeStart}
               B == {Bytes(c, POOL) : c \in pool}
               C == {Bytes(e[2].ptr, Words(e[2].size)) : e \in {e \in LiveObjects : Ranged(e[1], e[2].size)}}
               D == {Bytes(e[2].ptr, RoundUp(Words(e[2].size), PAGE)) :
                       e \in {e \in LiveObjects : Paged(e[1], e[2].size)}}
    <3>1. Uses = A \cup B \cup C \cup D
      BY DEF Uses
    <3>2. \A u : u \in A <=> Free(u)
      OBVIOUS
    <3>3. \A u : u \in C <=> Owned(u)
      BY DEF RangedOf, Own
    <3>4. \A u : u \in B <=> \E m \in PoolMaps(pool) : u = Bytes(m.x, m.y)
      <4>1. \A c : Mapping(c, POOL).x = c /\ Mapping(c, POOL).y = POOL
        BY DEF Mapping
      <4>2. ASSUME NEW c \in pool
            PROVE  \E m \in PoolMaps(pool) : Bytes(c, POOL) = Bytes(m.x, m.y)
        <5>1. Mapping(c, POOL) \in PoolMaps(pool)
          BY DEF PoolMaps
        <5> QED BY <4>1, <5>1
      <4>3. ASSUME NEW m \in PoolMaps(pool) PROVE Bytes(m.x, m.y) \in B
        <5>1. PICK c \in pool : m = Mapping(c, POOL)
          BY DEF PoolMaps
        <5> QED BY <4>1, <5>1
      <4> QED BY <4>2, <4>3
    <3>5. \A u : u \in D <=> \E m \in PageMaps(pages) : u = Bytes(m.x, m.y)
      <4> DEFINE Used(e) == Bytes(e[2].ptr, RoundUp(Words(e[2].size), PAGE))
      <4>1. \A e : Bytes(PageMap(e).x, PageMap(e).y) = Used(e)
        BY DEF PageMap, Mapping
      <4>2. D = {Used(e) : e \in pages}
        BY DEF PagedOf
      <4> HIDE DEF D, Used, pages
      <4>3. ASSUME NEW e \in pages
            PROVE  \E m \in PageMaps(pages) : Used(e) = Bytes(m.x, m.y)
        <5>1. PageMap(e) \in PageMaps(pages)
          BY DEF PageMaps
        <5> QED BY <4>1, <5>1
      <4>4. ASSUME NEW m \in PageMaps(pages) PROVE Bytes(m.x, m.y) \in D
        <5>1. PICK e \in pages : m = PageMap(e)
          BY DEF PageMaps
        <5> QED BY <4>1, <4>2, <5>1
      <4> QED BY <4>2, <4>3, <4>4
    <3> HIDE DEF A, B, C, D, Free, Owned, pages
    <3> QED BY <3>1, <3>2, <3>3, <3>4, <3>5
  <2> HIDE DEF maps, others, ranged
  <2>4. UNION Uses = MappedBytes
    <3>1. ASSUME NEW a PROVE a \in UNION Uses <=> a \in BytesIn(treeStart) \/ a \in OwnIn(ranged) \/ a \in BytesIn(others)
      <4>1. a \in UNION Uses <=> \E u : (Free(u) \/ Owned(u) \/ Whole(u)) /\ a \in u
        BY <2>3
      <4>2. a \in BytesIn(treeStart) <=> \E u : Free(u) /\ a \in u
        BY DEF BytesIn
      <4>3. a \in OwnIn(ranged) <=> \E u : Owned(u) /\ a \in u
        BY DEF OwnIn
      <4>4. a \in BytesIn(others) <=> \E u : Whole(u) /\ a \in u
        BY DEF BytesIn
      <4> HIDE DEF Free, Owned, Whole
      <4> QED BY <4>1, <4>2, <4>3, <4>4
    <3>2. BytesIn(maps) = BytesIn(treeStart) \cup OwnIn(ranged)
      BY <2>1 DEF RangesSound
    <3> QED BY <2>2, <3>1, <3>2
  <2>5. ASSUME NEW u \in Uses, NEW v \in Uses, u # v PROVE u \cap v = {}
    <3>1. ASSUME NEW s, NEW t, Whole(s), Free(t) \/ Owned(t) PROVE s \cap t = {}
      <4>1. t \subseteq BytesIn(maps)
        <5>1. CASE Free(t)
          BY <2>1, <5>1 DEF RangesSound, BytesIn
        <5>2. CASE Owned(t)
          BY <2>1, <5>2 DEF RangesSound, OwnIn
        <5> QED BY <3>1, <5>1, <5>2
      <4>2. PICK m \in others : s = Bytes(m.x, m.y)
        BY <3>1
      <4>3. s \cap BytesIn(maps) = {}
        BY <2>1, <4>2, KindsApart DEF maps, others
      <4> QED BY <4>1, <4>3
    <3>2. ASSUME NEW s, NEW t, Free(s), Owned(t) PROVE s \cap t = {}
      BY <2>1, <3>2 DEF RangesSound, BytesIn, OwnIn
    <3>3. ASSUME Free(u), Free(v) PROVE u \cap v = {}
      <4>1. PICK r \in treeStart, s \in treeStart : u = Bytes(r.x, r.y) /\ v = Bytes(s.x, s.y)
        BY <3>3
      <4>2. /\ r \in RangePair /\ s \in RangePair /\ (r.x + r.y < s.x \/ s.x + s.y < r.x)
        BY <2>1, <2>5, <4>1 DEF RangesSound, Alone
      <4> QED BY <4>1, <4>2 DEF Bytes, RangePair
    <3>4. ASSUME Owned(u), Owned(v) PROVE u \cap v = {}
      BY <2>1, <2>5, <3>4 DEF RangesSound
    <3>5. ASSUME Whole(u), Whole(v) PROVE u \cap v = {}
      BY <2>1, <2>5, <3>5 DEF MapsSound
    <3>6. (Free(u) \/ Owned(u) \/ Whole(u)) /\ (Free(v) \/ Owned(v) \/ Whole(v))
      BY <2>3
    <3> HIDE DEF Free, Owned, Whole
    <3> QED BY <3>1, <3>2, <3>3, <3>4, <3>5, <3>6
  <2>6. taken = {e[2].ptr : e \in {e \in LiveObjects : Small(e[1], e[2].size)}}
    BY <2>1 DEF SmallOf
  <2> QED BY <2>4, <2>5, <2>6 DEF MemoryAccounted
<1> QED BY <1>1, HeapSound, PTL

\* The heap implements the pool of objects: what new and new[] answer with is at a word and
\* has bytes that no other live object has, and nobody but its delete takes it away.
THEOREM Refinement == Spec => ImplementsPool
<1> DEFINE live == {o \in singleObjects \cup arrayObjects : o.ptr # NULL}
<1>1. Init => Pool!Init
  BY DEF Init, Pool!Init
<1>2. live = {e[2] : e \in LiveObjects}
  <2>1. ASSUME NEW o \in live PROVE \E e \in LiveObjects : o = e[2]
    <3>1. <<FALSE, o>> \in LiveObjects \/ <<TRUE, o>> \in LiveObjects
      BY DEF LiveObjects
    <3>2. <<FALSE, o>>[2] = o /\ <<TRUE, o>>[2] = o
      OBVIOUS
    <3> QED BY <3>1, <3>2
  <2>2. ASSUME NEW e \in LiveObjects PROVE e[2] \in live
    <3>1. PICK b \in BOOLEAN, o \in singleObjects \cup arrayObjects : o.ptr # NULL /\ e = <<b, o>>
      BY DEF LiveObjects
    <3>2. e[2] = o
      BY <3>1
    <3> QED BY <3>1, <3>2
  <2> HIDE DEF live
  <2> QED BY <2>1, <2>2
<1>3. IInv /\ [Next]_vars => [Pool!Next]_live
  <2> SUFFICES ASSUME IInv, [Next]_vars PROVE [Pool!Next]_live
    OBVIOUS
  <2>0. live' = {e[2] : e \in LiveObjects'}
    <3>1. ASSUME NEW o \in live' PROVE \E e \in LiveObjects' : o = e[2]
      <4>1. <<FALSE, o>> \in LiveObjects' \/ <<TRUE, o>> \in LiveObjects'
        BY DEF LiveObjects
      <4>2. <<FALSE, o>>[2] = o /\ <<TRUE, o>>[2] = o
        OBVIOUS
      <4> QED BY <4>1, <4>2
    <3>2. ASSUME NEW e \in LiveObjects' PROVE e[2] \in live'
      <4>1. PICK b \in BOOLEAN, o \in singleObjects' \cup arrayObjects' : o.ptr # NULL /\ e = <<b, o>>
        BY DEF LiveObjects
      <4>2. e[2] = o
        BY <4>1
      <4> QED BY <4>1, <4>2
    <3> HIDE DEF live
    <3> QED BY <3>1, <3>2
  <2> HIDE DEF live
  <2>1. CASE UNCHANGED vars
    BY <2>1 DEF vars, live
  <2>2. CASE LiveObjects' = LiveObjects
    BY <1>2, <2>0, <2>2
  \* Two objects of a sound heap are apart.
  <2>3. ASSUME NEW S, NEW tree, NEW blocks, NEW inUse, NEW chunks, NEW heaps, NEW maps,
               Sound(S, tree, blocks, inUse, chunks, heaps, maps), NEW e \in S, NEW f \in S, e # f
        PROVE  Pool!Apart(e[2], f[2]) /\ e[2] # f[2]
    <3>1. Own(e) \cap Own(f) = {}
      BY <2>3, ObjectsApart
    <3>2. /\ e[2].ptr \in Nat /\ f[2].ptr \in Nat /\ e[2].size \in Nat /\ f[2].size \in Nat
      BY <2>3 DEF Sound, Lives
    <3>3. /\ Words(e[2].size) \in Nat \ {0} /\ Words(e[2].size) >= e[2].size
          /\ Words(f[2].size) \in Nat \ {0} /\ Words(f[2].size) >= f[2].size
      BY <3>2, WordsIs
    <3>4. e[2].ptr \notin Own(f) /\ f[2].ptr \notin Own(e)
      BY <3>1, <3>2, <3>3 DEF Own, Bytes
    <3>5. e[2].ptr + Words(e[2].size) <= f[2].ptr \/ f[2].ptr + Words(f[2].size) <= e[2].ptr
      BY <3>2, <3>3, <3>4 DEF Own, Bytes
    <3>6. Pool!Apart(e[2], f[2])
      BY <3>2, <3>3, <3>5 DEF Pool!Apart, Pool!End
    <3>7. e[2] # f[2]
      BY <3>2, <3>3, <3>5
    <3> QED BY <3>6, <3>7
  <2>4. ASSUME NEW e, e \notin LiveObjects, LiveObjects' = LiveObjects \cup {e},
               Sound(LiveObjects', treeStart', slabs', taken', pool', pHeaps', mapped')
        PROVE  Pool!Next
    <3>1. e[2].ptr % WORD = 0
      BY <2>4, ObjectsAtWords
    <3>2. \A f \in LiveObjects : Pool!Apart(e[2], f[2]) /\ e[2] # f[2]
      BY <2>3, <2>4
    <3>3. live' = live \cup {e[2]} /\ e[2] \in live' \ live
      BY <1>2, <2>0, <2>4, <3>2
    <3>4. Pool!New(e[2])
      BY <1>2, <3>1, <3>2, <3>3 DEF Pool!New, live
    <3> QED BY <3>3, <3>4 DEF Pool!Next, live
  <2>5. ASSUME NEW e \in LiveObjects, LiveObjects' = LiveObjects \ {e} PROVE Pool!Next
    <3>1. \A f \in LiveObjects \ {e} : e[2] # f[2]
      BY <2>3 DEF IInv
    <3>2. live' = live \ {e[2]} /\ e[2] \in live
      BY <1>2, <2>0, <2>5, <3>1
    <3> QED BY <3>2 DEF Pool!Next, Pool!Delete, live
  <2> QED BY <2>1, <2>2, <2>4, <2>5, StepIs
<1> QED BY <1>1, <1>3, HeapSound, PTL DEF Spec, ImplementsPool, Pool!Spec
=============================================================================
