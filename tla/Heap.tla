-------------------------------- MODULE Heap --------------------------------
(***************************************************************************)
(* memory/Heap: operator new, new[], delete and delete[].  Small objects   *)
(* come from a PrimitiveHeap for their size, whose blocks (2 KB) come from *)
(* ph2048, whose chunks come from MemoryManager.  Arrays, and objects that *)
(* are not small, come from free ranges in chunks of 512 KB, or straight   *)
(* from MemoryManager.  The PrimitiveHeaps are seen as PrimitiveHeap.tla   *)
(* shows them to be: objects in use and available, blocks given back above *)
(* a limit.  The trees are seen as sets; their nodes and the PrimitiveHeap *)
(* objects, which come from two more heaps over ph2048 (phUIPair, phPH),   *)
(* take no room here.                                                      *)
(***************************************************************************)
EXTENDS RangePair, FiniteSetsExt

CONSTANTS
  WORD,      \* 8: sizes are rounded up to it
  LIMIT,     \* 128: the largest small object
  BLOCK,     \* 2048
  HEADER,    \* what a block spends on its header and its bitmap (32 bytes)
  POOL,      \* 256 K: a chunk of ph2048; its first block holds its header
  MaxBlocks, \* 128: ph2048 gives chunks back above this many available blocks
  CHUNK,     \* 512 K
  PAGE,      \* 4096
  CACHE,     \* 5: entries of sppCache
  Linear,    \* the addresses MemoryManager can answer with
  Singles,   \* the sizes asked of new
  Arrays,    \* the sizes asked of new[]
  Live       \* bound: objects at a time

ASSUME SizesAssumption ==
  /\ {WORD, LIMIT, BLOCK, HEADER, POOL, CHUNK, PAGE, CACHE} \subseteq Nat \ {0}
  /\ LIMIT % WORD = 0 /\ BLOCK % WORD = 0 /\ HEADER % WORD = 0 /\ PAGE % WORD = 0
  /\ CHUNK % (2 * WORD) = 0 /\ POOL % BLOCK = 0
  /\ (BLOCK - HEADER) \div LIMIT >= 2 /\ POOL \div BLOCK >= 3
ASSUME LinearAssumption ==
  IsFiniteSet(Linear) /\ Linear \subseteq Nat /\ \A a \in Linear : a >= CHUNK
ASSUME RequestsAssumption == Singles \subseteq Nat /\ Arrays \subseteq Nat

VARIABLES
  singleObjects, \* the objects of new: [ptr, size]
  arrayObjects,  \* the objects of new[]
  treeStart,     \* the free ranges as <start, length>; treeLength mirrors them
  pHeaps,        \* the sizes that have a PrimitiveHeap
  sppCache,      \* [size, ph]: ph is named by the size of its objects
  sppCacheIndex,
  slabs,         \* the blocks the PrimitiveHeaps have: [block, size]
  taken,         \* the addresses of their objects in use
  pool,          \* the chunks ph2048 has
  mapped,        \* what MemoryManager has allocated: <start, length>
  machine        \* "running", or why it stopped: "kassert", "memory"

vars == <<singleObjects, arrayObjects, treeStart, pHeaps, sppCache, sppCacheIndex, slabs,
          taken, pool, mapped, machine>>

NULL == 0
NoHeap == 0
Object(ptr, size) == [ptr |-> ptr, size |-> size]

\* treeLength, and the bookkeeping of the two trees.
ByLength == {Flip(r) : r \in treeStart}
Space == INSTANCE AddressSpaceManager WITH
           Usable <- Linear, LockBound <- 0, treeLength <- ByLength, held <- {},
           lockCnt <- 0, halted <- FALSE,
           last <- [op |-> "none", start |-> 0, length |-> 0, slack |-> 0]

RoundUp(n, to) == IF n % to = 0 THEN n ELSE (n + to) - (n % to)

\* The sizes as the functions round them, and who serves them: a PrimitiveHeap
\* (the objects of new up to LIMIT, and arrays of no size), a range of a chunk, or
\* MemoryManager.
Words(size) == RoundUp(IF size = 0 THEN WORD ELSE size, WORD)
Small(array, size) == Words(size) <= LIMIT /\ (array => size = 0)
Ranged(array, size) == ~Small(array, size) /\ Words(size) <= CHUNK \div 2
Paged(array, size) == ~Small(array, size) /\ Words(size) > CHUNK \div 2

Lowest(S) == CHOOSE a \in S : \A b \in S : a <= b

\* The kasserts of a step: one that fails stops the machine.
Kassert(holds) == machine' = IF holds THEN "running" ELSE "kassert"
-----------------------------------------------------------------------------
(***************************************************************************)
(* MemoryManager::alloc answers with any free and aligned place; it may    *)
(* fail, as it does when physical memory is short.  MemoryManager::free    *)
(* takes back what one call of alloc gave.                                 *)
(***************************************************************************)
Mapping(start, length) == [x |-> start, y |-> length]
MappedBytes == UNION {Bytes(m.x, m.y) : m \in mapped}
Places(length, align) ==
  LET unmapped == Linear \ MappedBytes
  IN  {a \in Linear : a % align = 0 /\ Bytes(a, length) \subseteq unmapped}
-----------------------------------------------------------------------------
(***************************************************************************)
(* PrimitiveHeap: units come in groups (blocks in chunks of ph2048, objects*)
(* in blocks).                                                             *)
(***************************************************************************)
BlocksOf(chunk) == {chunk + BLOCK * i : i \in 1 .. POOL \div BLOCK - 1}
FreeBlocks(chunks, used) == (UNION {BlocksOf(c) : c \in chunks}) \ {b.block : b \in used}

Fit(size) == (BLOCK - HEADER) \div size
ObjectsOf(block, size) == {block + HEADER + size * i : i \in 0 .. Fit(size) - 1}
BlocksFor(size, used) == {b.block : b \in {b \in used : b.size = size}}
Available(size, used, inUse) == (UNION {ObjectsOf(b, size) : b \in BlocksFor(size, used)}) \ inUse

\* alloc: a group that has some of its units in use is preferred; its lowest
\* available unit is taken.  A group is the set of its units.
FirstUnits(available, groups) ==
  LET usable == {g \in groups : g \cap available # {}}
      partly == {g \in usable : ~(g \subseteq available)}
  IN  {Lowest(g \cap available) : g \in (IF partly # {} THEN partly ELSE usable)}

\* trim: while more than most units are available, one of the groups that have all
\* their units (each many) available is given back.  The sets it may give back.
Spares(empty, available, each, most) ==
  LET excess == IF available <= most THEN 0 ELSE (available - most + each - 1) \div each
  IN  kSubset(IF excess < Cardinality(empty) THEN excess ELSE Cardinality(empty), empty)

\* alloc2048, which is ph2048.alloc: the blocks it may answer with, and its effect.
NextBlocks ==
  IF FreeBlocks(pool, slabs) # {} THEN FirstUnits(FreeBlocks(pool, slabs), {BlocksOf(c) : c \in pool})
  ELSE {Lowest(BlocksOf(chunk)) : chunk \in Places(POOL, POOL)}

TakeBlock(block) ==
  LET chunk == block - (block % POOL)
  IN  /\ pool' = pool \cup {chunk}
      /\ mapped' = mapped \cup {Mapping(chunk, POOL)}

\* The same of alloc of the PrimitiveHeap for a size.
NextObjects(size) ==
  LET available == Available(size, slabs, taken)
  IN  IF available # {}
      THEN FirstUnits(available, {ObjectsOf(b, size) : b \in BlocksFor(size, slabs)})
      ELSE {Lowest(ObjectsOf(b, size)) : b \in NextBlocks}

TakeObject(size, p) ==
  LET block == p - (p % BLOCK)
  IN  /\ taken' = taken \cup {p}
      /\ slabs' = slabs \cup {[block |-> block, size |-> size]}
      /\ TakeBlock(block)

\* free2048 of the blocks given back: ph2048.free.
GiveBlocks ==
  LET free  == FreeBlocks(pool, slabs')
      empty == {c \in pool : BlocksOf(c) \subseteq free}
  IN  \E spare \in Spares(empty, Cardinality(free), POOL \div BLOCK - 1, MaxBlocks) :
        /\ pool' = pool \ spare
        /\ mapped' = mapped \ {Mapping(c, POOL) : c \in spare}

\* free of the PrimitiveHeap for a size; it was made to keep BLOCK \div size objects.
GiveObject(size, p) ==
  LET available == Available(size, slabs, taken \ {p})
      empty     == {b \in BlocksFor(size, slabs) : ObjectsOf(b, size) \subseteq available}
  IN  /\ taken' = taken \ {p}
      /\ \E spare \in Spares(empty, Cardinality(available), Fit(size), BLOCK \div size) :
           slabs' = slabs \ {[block |-> b, size |-> size] : b \in spare}
      /\ GiveBlocks
-----------------------------------------------------------------------------
(***************************************************************************)
(* getPH, and its cache.                                                   *)
(***************************************************************************)
Cached(size) == {i \in 1 .. CACHE : sppCache[i].size = size}

HeapFor(size) ==
  IF Cached(size) # {} THEN sppCache[Lowest(Cached(size))].ph
  ELSE IF size \in pHeaps THEN size ELSE NoHeap

\* Mutation of Entry: only the size of the entry is replaced.
EntryKeepsHeap(size) == [size |-> size, ph |-> sppCache[sppCacheIndex].ph]

Entry(size) == [size |-> size, ph |-> size]

Remember(size) ==
  IF Cached(size) # {} THEN UNCHANGED <<sppCache, sppCacheIndex>>
  ELSE /\ sppCache' = [sppCache EXCEPT ![sppCacheIndex] = Entry(size)]
       /\ sppCacheIndex' = (sppCacheIndex % CACHE) + 1
-----------------------------------------------------------------------------
(***************************************************************************)
(* The three ways to serve a request of size bytes, and to take back what  *)
(* was given.                                                              *)
(***************************************************************************)

\* A heap for that size is made if there is none.
TakeSmall(size, p) ==
  /\ Kassert(HeapFor(size) \in {size, NoHeap})
  /\ Remember(size)
  /\ pHeaps' = pHeaps \cup {size}
  /\ TakeObject(size, p)
  /\ UNCHANGED treeStart

GiveSmall(size, p) ==
  /\ Kassert(HeapFor(size) = size)
  /\ Remember(size)
  /\ GiveObject(size, p)
  /\ UNCHANGED <<treeStart, pHeaps>>

\* AddressSpaceManager::free, and what it leaves of the ranges before.
Unmerged(start, length) ==
  treeStart \ (Space!MergedBefore(start) \cup Space!MergedAfter(start, length))
Freed(start, length) == Unmerged(start, length) \cup {Space!MergedRange(start, length)}

smallVars == <<pHeaps, sppCache, sppCacheIndex, slabs, taken, pool>>

\* Best fit, from its low end; a new chunk if nothing fits.
BestRange(size) == LowerBound(ByLength, [x |-> size, y |-> 0])

NextRanges(size) ==
  IF BestRange(size) # {} THEN {s.y : s \in BestRange(size)} ELSE Places(CHUNK, CHUNK)

\* (The code passes what it takes as <start, length> where
\* allocSubrangeFromSuperRange expects <length, start>; all that function makes of
\* the two is their sum, and a test that is false either way.)
TakeRange(size, p) ==
  /\ UNCHANGED smallVars
  /\ IF BestRange(size) # {}
     THEN /\ treeStart' = {r \in treeStart : Flip(r) \notin BestRange(size)}
               \cup UNION {{Flip(rest) : rest \in Space!Leftovers([x |-> p, y |-> size], s)} :
                             s \in BestRange(size)}
          /\ Kassert(TRUE)
          /\ UNCHANGED mapped
     ELSE /\ mapped' = mapped \cup {Mapping(p, CHUNK)}
          /\ Kassert(~Space!AlreadyFree(p + size, CHUNK - size))
          /\ treeStart' = Freed(p + size, CHUNK - size)

ChunkOf(p) == p - (p % CHUNK)

\* Mutation of CoversChunk: the end of the chunk is not looked at.
CoversStart(range, chunk) == range.x <= chunk

CoversChunk(range, chunk) == range.x <= chunk /\ range.x + range.y >= chunk + CHUNK

\* Mutation of WithoutChunk: a chunk given back stays in the trees.
KeepsChunk(range, chunk) == {range}

\* AddressSpaceManager::alloc of the chunk, whose search finds the merged range.
WithoutChunk(range, chunk) ==
  {Flip(rest) : rest \in Space!Leftovers([x |-> CHUNK, y |-> chunk], Flip(range))}

\* The chunk that p lies in is given back if nothing in it is used any more.
GiveRange(size, p) ==
  LET range == Space!MergedRange(p, size)
      chunk == ChunkOf(p)
  IN  /\ UNCHANGED smallVars
      /\ Kassert(~Space!AlreadyFree(p, size))
      /\ IF CoversChunk(range, chunk)
         THEN /\ mapped' = mapped \ {Mapping(chunk, CHUNK)}
              /\ treeStart' = Unmerged(p, size) \cup WithoutChunk(range, chunk)
         ELSE /\ treeStart' = Freed(p, size)
              /\ UNCHANGED mapped

\* The NULL of a MemoryManager that has nothing to give is answered, and recorded,
\* like an object.
NextPages(size) == Places(RoundUp(size, PAGE), PAGE) \cup {NULL}

TakePages(size, p) ==
  /\ mapped' = IF p = NULL THEN mapped ELSE mapped \cup {Mapping(p, RoundUp(size, PAGE))}
  /\ Kassert(TRUE)
  /\ UNCHANGED <<smallVars, treeStart>>

GivePages(size, p) ==
  /\ mapped' = mapped \ {Mapping(p, RoundUp(size, PAGE))}
  /\ Kassert(TRUE)
  /\ UNCHANGED <<smallVars, treeStart>>

Answers(array, size) ==
  IF Small(array, size) THEN NextObjects(Words(size))
  ELSE IF Ranged(array, size) THEN NextRanges(Words(size)) ELSE NextPages(Words(size))

Obtain(array, size, p) ==
  \/ Small(array, size) /\ TakeSmall(Words(size), p)
  \/ Ranged(array, size) /\ TakeRange(Words(size), p)
  \/ Paged(array, size) /\ TakePages(Words(size), p)

Release(array, size, p) ==
  \/ Small(array, size) /\ GiveSmall(Words(size), p)
  \/ Ranged(array, size) /\ GiveRange(Words(size), p)
  \/ Paged(array, size) /\ GivePages(Words(size), p)
-----------------------------------------------------------------------------
(***************************************************************************)
(* new, new[], delete, delete[].  A caller deletes what it got, once.      *)
(***************************************************************************)
Init ==
  /\ singleObjects = {} /\ arrayObjects = {} /\ treeStart = {}
  /\ pHeaps = {}
  /\ sppCache = [i \in 1 .. CACHE |-> [size |-> 0, ph |-> NoHeap]] /\ sppCacheIndex = 1
  /\ slabs = {} /\ taken = {} /\ pool = {} /\ mapped = {}
  /\ machine = "running"

Room == machine = "running" /\ Cardinality(singleObjects) + Cardinality(arrayObjects) < Live

AllocSingle(size) ==
  /\ Room
  /\ \E p \in Answers(FALSE, size) :
       /\ Obtain(FALSE, size, p)
       /\ singleObjects' = singleObjects \cup {Object(p, size)}
       /\ UNCHANGED arrayObjects

AllocArray(size) ==
  /\ Room
  /\ \E p \in Answers(TRUE, size) :
       /\ Obtain(TRUE, size, p)
       /\ arrayObjects' = arrayObjects \cup {Object(p, size)}
       /\ UNCHANGED singleObjects

FreeSingle(o) ==
  /\ machine = "running"
  /\ singleObjects' = singleObjects \ {o}
  /\ Release(FALSE, o.size, o.ptr)
  /\ UNCHANGED arrayObjects

FreeArray(o) ==
  /\ machine = "running"
  /\ arrayObjects' = arrayObjects \ {o}
  /\ Release(TRUE, o.size, o.ptr)
  /\ UNCHANGED singleObjects

\* MemoryManager may have nothing to give when a new chunk is needed: a heap writes
\* the header of a chunk at address 0, a kassert refuses a chunk of ranges.
NeedsMemory(array, size) ==
  \/ /\ Small(array, size)
     /\ Available(Words(size), slabs, taken) = {} /\ FreeBlocks(pool, slabs) = {}
  \/ Ranged(array, size) /\ BestRange(Words(size)) = {}

OutOfMemory ==
  /\ Room
  /\ \/ \E size \in Singles : NeedsMemory(FALSE, size)
     \/ \E size \in Arrays : NeedsMemory(TRUE, size)
  /\ machine' = "memory"
  /\ UNCHANGED <<singleObjects, arrayObjects, smallVars, treeStart, mapped>>

Next ==
  \/ \E size \in Singles : AllocSingle(size)
  \/ \E size \in Arrays : AllocArray(size)
  \/ \E o \in singleObjects : o.ptr # NULL /\ FreeSingle(o)
  \/ \E o \in arrayObjects : o.ptr # NULL /\ FreeArray(o)
  \/ OutOfMemory

Spec == Init /\ [][Next]_vars
-----------------------------------------------------------------------------
(***************************************************************************)
(* Properties.                                                             *)
(***************************************************************************)

\* No kassert fails while callers delete what they got, once: the cache never
\* answers with the heap of another size, and no free range is freed again.
NoKassertFails == machine # "kassert"

\* The live objects, each with whether new[] gave it.
LiveObjects ==
  {<<FALSE, o>> : o \in {o \in singleObjects : o.ptr # NULL}}
  \cup {<<TRUE, o>> : o \in {o \in arrayObjects : o.ptr # NULL}}

\* What is used of the mappings, each use as a set of bytes.
Uses ==
  {Bytes(r.x, r.y) : r \in treeStart}
  \cup {Bytes(c, POOL) : c \in pool}
  \cup {Bytes(e[2].ptr, Words(e[2].size)) :
          e \in {e \in LiveObjects : Ranged(e[1], e[2].size)}}
  \cup {Bytes(e[2].ptr, RoundUp(Words(e[2].size), PAGE)) :
          e \in {e \in LiveObjects : Paged(e[1], e[2].size)}}

\* Every byte that MemoryManager gave is free in the trees, part of one live array
\* or object, or ph2048's, and only one of these; the objects in use in the small
\* heaps are the live ones: nothing leaks and nothing is given out twice.
MemoryAccounted ==
  /\ UNION Uses = MappedBytes
  /\ \A u, v \in Uses : u # v => u \cap v = {}
  /\ taken = {e[2].ptr : e \in {e \in LiveObjects : Small(e[1], e[2].size)}}

\* new and delete keep ObjectPool's promise: bytes of one's own, at a word, until
\* the delete.  (A request for pages that answers NULL gives nothing.)
Pool == INSTANCE ObjectPool WITH
          live <- {o \in singleObjects \cup arrayObjects : o.ptr # NULL}
ImplementsPool == Pool!Spec
=============================================================================
