--------------------------- MODULE PrimitiveHeap ---------------------------
(***************************************************************************)
(* memory/PrimitiveHeap: objects of one size, cut from chunks that an      *)
(* Allocator supplies and a Deallocator takes back.  Both are called in    *)
(* the middle of alloc(), free() and unlock(), and may call this very heap *)
(* again (the reserve's Allocator is MemoryManager::alloc, which needs     *)
(* page tables and tree nodes from the reserve).  The lock count keeps the *)
(* heap from renewing itself inside its own renewal.                       *)
(*                                                                         *)
(* A step runs from a call, or from the return of an Allocator or          *)
(* Deallocator, to the next such call or to the return to the caller; the  *)
(* stack holds the calls that wait for an Allocator or a Deallocator.      *)
(***************************************************************************)
EXTENDS Integers, Sequences, FiniteSets

CONSTANTS
  Chunks,     \* the addresses an Allocator may answer with
  NULL,       \* the null pointer
  ELength,    \* objects in a chunk
  MinUnits,   \* renew at or below this many available objects
  MaxUnits,   \* give chunks back above this many
  LockBound,  \* bound: locks callers hold at once
  Returned    \* bound: objects freed while one Allocator call runs

\* The kasserts of the constructor.
ASSUME ConstructorAssumption ==
  /\ ELength \in Nat /\ MinUnits \in Nat /\ MaxUnits \in Nat
  /\ ELength > 1
  /\ ELength > MinUnits
  /\ MaxUnits - MinUnits >= ELength
\* An Allocator call frees no more objects than fit below the limit (the reserve
\* has room for 500 - 8 - 254 of them).
ASSUME ReturnedAssumption == Returned \in 0 .. MaxUnits - MinUnits - ELength
ASSUME ChunksAssumption == NULL \notin Chunks /\ IsFiniteSet(Chunks)

VARIABLES
  heap,     \* the fields of the PrimitiveHeap and the headers of its chunks
  stack,    \* calls that wait for an Allocator or a Deallocator, newest first
  locks,    \* lock() calls of the callers without their unlock() yet
  machine   \* "running", or how it stopped: a failed "kassert", a page "fault"

vars == <<heap, stack, locks, machine>>

Indices == 0 .. ELength - 1
Pointers == Chunks \cup {NULL}
Lists == {"nonempty", "empty"}

Heaps == [root : [Lists -> Pointers],           \* nonempty_ll_root, empty_ll_root
          next : [Chunks -> Pointers],
          prev : [Chunks -> Pointers],
          bits : [Chunks -> SUBSET Indices],    \* the bitmap of available objects
          avail : [Chunks -> 0 .. ELength],     \* numavailableentry
          total : Nat,                          \* numAvailableUnits
          lockCnt : Nat,
          owned : SUBSET Chunks,                \* history: chunks not given back
          taken : SUBSET (Chunks \X Indices)]   \* history: objects callers hold

-----------------------------------------------------------------------------
(***************************************************************************)
(* The lists and the bitmaps.                                              *)
(***************************************************************************)

\* Mutation of RemoveChunkFromLL: the prev of the next chunk stays.
RemoveForgetsPrev(h, c, list) ==
  LET before == h.prev[c]
      after  == h.next[c]
  IN  [h EXCEPT !.root[list] = IF before = NULL THEN after ELSE @,
                !.next = IF before = NULL THEN @ ELSE [@ EXCEPT ![before] = after]]

\* removeChunkFromLL and addChunkToLL; their kasserts say that the chunk without
\* a predecessor is the root (ListsSound below).
RemoveChunkFromLL(h, c, list) ==
  LET before == h.prev[c]
      after  == h.next[c]
  IN  [h EXCEPT !.root[list] = IF before = NULL THEN after ELSE @,
                !.next = IF before = NULL THEN @ ELSE [@ EXCEPT ![before] = after],
                !.prev = IF after = NULL THEN @ ELSE [@ EXCEPT ![after] = before]]

AddChunkToLL(h, c, list) ==
  LET first == h.root[list]
  IN  [h EXCEPT !.root[list] = c,
                !.next[c] = first,
                !.prev = IF first = NULL THEN [@ EXCEPT ![c] = NULL]
                         ELSE [@ EXCEPT ![c] = NULL, ![first] = c]]

\* replenish(chunk): embraces a chunk, all of whose objects are available.
Embrace(h, c) ==
  AddChunkToLL([h EXCEPT !.bits[c] = Indices,
                         !.avail[c] = ELength,
                         !.total = @ + ELength,
                         !.owned = @ \cup {c}], c, "empty")

\* The second half of alloc(): an empty chunk moves to the nonempty list if that
\* has none; the first available object of its root is taken; a chunk without
\* available objects leaves the lists.
WithNonempty(h) ==
  IF h.root["nonempty"] # NULL THEN h
  ELSE LET c == h.root["empty"]
       IN  AddChunkToLL(RemoveChunkFromLL(h, c, "empty"), c, "nonempty")

FirstBit(bits) == CHOOSE i \in bits : \A j \in bits : i <= j

Chosen(h) ==
  LET c == WithNonempty(h).root["nonempty"] IN <<c, FirstBit(h.bits[c])>>

\* Mutation of TakeUnit: the bit of the object stays set.
TakeKeepsBit(h) ==
  [WithNonempty(h) EXCEPT !.taken = @ \cup {Chosen(h)}, !.total = @ - 1]

TakeUnit(h) ==
  LET c == Chosen(h)[1]
      i == Chosen(h)[2]
      g == [WithNonempty(h) EXCEPT !.bits[c] = @ \ {i},
                                   !.avail[c] = @ - 1,
                                   !.total = @ - 1,
                                   !.taken = @ \cup {<<c, i>>}]
  IN  IF g.avail[c] = 0 THEN RemoveChunkFromLL(g, c, "nonempty") ELSE g

\* The kasserts of that half: there is an object, and the lists are sound.
CanTake(h) ==
  /\ h.total > 0
  /\ h.root["nonempty"] = NULL => h.root["empty"] # NULL
  /\ h.bits[WithNonempty(h).root["nonempty"]] # {}

\* The first half of free(): the object is marked available; a chunk that had
\* none joins the nonempty list, and one that now has all moves to the empty one.
GiveUnit(h, u) ==
  LET c == u[1]
      g == [h EXCEPT !.bits[c] = @ \cup {u[2]},
                     !.avail[c] = @ + 1,
                     !.total = @ + 1,
                     !.taken = @ \ {u}]
      l == IF g.avail[c] = 1 THEN AddChunkToLL(g, c, "nonempty") ELSE g
  IN  IF l.avail[c] = ELength
      THEN AddChunkToLL(RemoveChunkFromLL(l, c, "nonempty"), c, "empty")
      ELSE l

\* The loop condition of trim(), and its body up to the call of the Deallocator.
MustTrim(h) == h.root["empty"] # NULL /\ h.total > MaxUnits

\* Mutation of Trimmed: numAvailableUnits keeps the objects of the chunk.
TrimForgetsTotal(h) ==
  LET c == h.root["empty"]
  IN  [RemoveChunkFromLL(h, c, "empty") EXCEPT !.owned = @ \ {c}, !.bits[c] = {},
                                               !.avail[c] = 0]

\* (The header of a chunk given back is no longer the heap's: it is cleared.)
Trimmed(h) ==
  LET c == h.root["empty"]
  IN  [RemoveChunkFromLL(h, c, "empty") EXCEPT !.total = @ - ELength,
                                               !.owned = @ \ {c},
                                               !.bits[c] = {},
                                               !.avail[c] = 0,
                                               !.next[c] = NULL,
                                               !.prev[c] = NULL]
-----------------------------------------------------------------------------
(***************************************************************************)
(* The rest of a call, from heap h on.  rest is the stack below it.        *)
(***************************************************************************)

\* The call waits for an Allocator or a Deallocator.
Wait(h, rest, call, at) ==
  /\ heap' = h
  /\ stack' = <<[call |-> call, at |-> at, level |-> locks', freed |-> 0]>> \o rest
  /\ UNCHANGED machine

\* The call returns; an alloc() takes its object first.
Return(h, rest, call) ==
  /\ stack' = rest
  /\ \/ /\ call # "alloc"
        /\ heap' = h
        /\ UNCHANGED machine
     \/ /\ call = "alloc" /\ CanTake(h)
        /\ heap' = TakeUnit(h)
        /\ UNCHANGED machine
     \/ /\ call = "alloc" /\ ~CanTake(h)
        /\ heap' = h
        /\ machine' = "kassert"

\* unlock(): the last one renews or trims the heap, still locked.
Unlocked(h) == [h EXCEPT !.lockCnt = @ - 1]

Unlocks(h, rest, call) ==
  \/ h.lockCnt > 1 /\ Return(Unlocked(h), rest, call)
  \/ h.lockCnt = 1 /\ h.total <= MinUnits /\ Wait(h, rest, call, "replenish")
  \/ h.lockCnt = 1 /\ h.total > MinUnits /\ MustTrim(h)
     /\ Wait(Trimmed(h), rest, call, "trimInUnlock")
  \/ h.lockCnt = 1 /\ h.total > MinUnits /\ ~MustTrim(h)
     /\ Return(Unlocked(h), rest, call)

\* trim() and then unlock(), as free() does.
TrimsAndUnlocks(h, rest, call) ==
  \/ MustTrim(h) /\ Wait(Trimmed(h), rest, call, "trim")
  \/ ~MustTrim(h) /\ Unlocks(h, rest, call)
-----------------------------------------------------------------------------
EmptyHeap ==
  [root |-> [l \in Lists |-> NULL],
   next |-> [c \in Chunks |-> NULL],
   prev |-> [c \in Chunks |-> NULL],
   bits |-> [c \in Chunks |-> {}],
   avail |-> [c \in Chunks |-> 0],
   total |-> 0, lockCnt |-> 0, owned |-> {}, taken |-> {}]

\* The constructor, without an initial chunk or with one (the initial reserve).
Init ==
  /\ \/ heap = EmptyHeap
     \/ \E c \in Chunks : heap = Embrace(EmptyHeap, c)
  /\ stack = <<>>
  /\ locks = 0
  /\ machine = "running"

\* The locks that belong to the caller at the top: those taken inside a
\* callback must be released before it returns.
Level == IF stack = <<>> THEN 0 ELSE Head(stack).level

\* Mutation of Alloc: renews without lock().
AllocUnlocked ==
  /\ machine = "running"
  /\ UNCHANGED locks
  /\ \/ heap.total <= MinUnits /\ Wait(heap, stack, "alloc", "renew")
     \/ heap.total > MinUnits /\ Return(heap, stack, "alloc")

\* Mutation of Alloc: does not renew the heap.
AllocNeverRenews ==
  /\ machine = "running"
  /\ UNCHANGED locks
  /\ Return(heap, stack, "alloc")

\* alloc().  While the heap is locked the caller must know that it has enough
\* objects left (PrimitiveHeap.h:62).
Alloc ==
  /\ machine = "running"
  /\ UNCHANGED locks
  /\ \/ /\ heap.total <= MinUnits /\ heap.lockCnt = 0
        /\ Wait([heap EXCEPT !.lockCnt = @ + 1], stack, "alloc", "renew")
     \/ /\ heap.lockCnt = 0 => heap.total > MinUnits
        /\ heap.lockCnt > 0 => heap.total > 0
        /\ Return(heap, stack, "alloc")

Renewing == stack # <<>> /\ Head(stack).at \in {"renew", "replenish"}
Trimming == stack # <<>> /\ Head(stack).at \in {"trim", "trimInUnlock"}

\* free().  One Allocator call frees at most Returned objects of this heap.
Free(u) ==
  /\ machine = "running"
  /\ u \in heap.taken
  /\ UNCHANGED locks
  /\ \/ /\ heap.lockCnt = 0
        /\ TrimsAndUnlocks([GiveUnit(heap, u) EXCEPT !.lockCnt = @ + 1], stack, "free")
     \/ /\ heap.lockCnt > 0
        /\ Renewing => Head(stack).freed < Returned
        /\ stack' = IF Renewing THEN [stack EXCEPT ![1].freed = @ + 1] ELSE stack
        /\ heap' = GiveUnit(heap, u)
        /\ UNCHANGED machine

\* lock() and unlock(), as the callers pair them.
Lock ==
  /\ machine = "running"
  /\ locks < LockBound
  /\ locks' = locks + 1
  /\ heap' = [heap EXCEPT !.lockCnt = @ + 1]
  /\ UNCHANGED <<stack, machine>>

Unlock ==
  /\ machine = "running"
  /\ locks > Level
  /\ locks' = locks - 1
  /\ Unlocks(heap, stack, "unlock")

\* The Allocator answers with a chunk.
AllocatorAnswers(c) ==
  /\ machine = "running"
  /\ Renewing
  /\ locks = Level
  /\ c \notin heap.owned
  /\ UNCHANGED locks
  /\ LET h     == Embrace(heap, c)
         frame == Head(stack)
     IN  \/ frame.at = "renew" /\ Unlocks(h, Tail(stack), frame.call)
         \/ frame.at = "replenish" /\ Return(Unlocked(h), Tail(stack), frame.call)

\* The Allocator answers NULL; replenish() embraces it all the same, and writes
\* a chunk header to page 0, which is paged out.
AllocatorFails ==
  /\ machine = "running"
  /\ Renewing
  /\ locks = Level
  /\ machine' = "fault"
  /\ UNCHANGED <<heap, stack, locks>>

\* Mutation of DeallocatorReturns: returns without unlock().
DeallocatorForgetsLock ==
  /\ machine = "running"
  /\ Trimming
  /\ locks = Level
  /\ UNCHANGED locks
  /\ Return(heap, Tail(stack), Head(stack).call)

\* The Deallocator returns, and trim() looks for more to give back.
DeallocatorReturns ==
  /\ machine = "running"
  /\ Trimming
  /\ locks = Level
  /\ UNCHANGED locks
  /\ LET frame == Head(stack)
     IN  \/ frame.at = "trim" /\ TrimsAndUnlocks(heap, Tail(stack), frame.call)
         \/ /\ frame.at = "trimInUnlock" /\ MustTrim(heap)
            /\ Wait(Trimmed(heap), Tail(stack), frame.call, "trimInUnlock")
         \/ /\ frame.at = "trimInUnlock" /\ ~MustTrim(heap)
            /\ Return(Unlocked(heap), Tail(stack), frame.call)

Next ==
  \/ Alloc
  \/ \E u \in Chunks \X Indices : Free(u)
  \/ Lock
  \/ Unlock
  \/ \E c \in Chunks : AllocatorAnswers(c)
  \/ AllocatorFails
  \/ DeallocatorReturns

Spec == Init /\ [][Next]_vars
-----------------------------------------------------------------------------
\* Every object of every chunk is either available or in one caller's hands,
\* and callers hold no object of a chunk that was given back: no alloc() answers
\* with an object somebody has, no trim() takes a chunk away from under one.
Conserves(h) ==
  \A c \in Chunks, i \in Indices :
    IF c \in h.owned THEN (i \in h.bits[c]) # (<<c, i>> \in h.taken)
    ELSE i \notin h.bits[c] /\ <<c, i>> \notin h.taken
UnitsConserved == Conserves(heap)

\* The two counters that decide about renewing, trimming and moving chunks
\* between the lists agree with the bitmaps.
Available(h) == {u \in Chunks \X Indices : u[2] \in h.bits[u[1]]}
Counts(h) ==
  /\ \A c \in Chunks : h.avail[c] = Cardinality(h.bits[c])
  /\ h.total = Cardinality(Available(h))
CountsAgree == Counts(heap)

\* The chunks that belong on a list: those with some, but not all, objects available,
\* and those with all.
Members(h, list) ==
  {c \in h.owned : IF list = "empty" THEN h.avail[c] = ELength
                   ELSE h.avail[c] \in 1 .. ELength - 1}

\* A doubly linked list of exactly the chunks S, from root on.
Linked(root, next, prev, S) ==
  /\ root \in S \cup {NULL}
  /\ root = NULL => S = {}
  /\ \A c \in S :
       /\ next[c] \in S \cup {NULL}
       /\ next[c] # NULL => prev[next[c]] = c
       /\ prev[c] = NULL <=> c = root
       /\ prev[c] # NULL => prev[c] \in S /\ next[prev[c]] = c

\* No ring of chunks apart from the root: the list ends.
Ends(next, S) ==
  \A ring \in SUBSET S : ring # {} => \E c \in ring : next[c] \notin ring

IsList(root, next, prev, S) == Linked(root, next, prev, S) /\ Ends(next, S)

\* Each list is one of exactly the chunks that belong on it.
Sorted(h) == \A list \in Lists : IsList(h.root[list], h.next, h.prev, Members(h, list))
ListsSound == heap \in Heaps /\ Sorted(heap)

\* The lock count keeps renewal and trimming from starting inside one another,
\* whatever the Allocator and the Deallocator call; and the unlock() at the end of a
\* renewing alloc() calls no trim(), as PrimitiveHeap.cpp:143 says.
OneRenewal ==
  /\ Len(stack) <= 1
  /\ \A k \in 1 .. Len(stack) : stack[k].call = "alloc" => stack[k].at # "trimInUnlock"

\* Every lock is paired: the count is what callers hold and one for each renewal
\* or trimming under way.
LocksBalance == heap.lockCnt = locks + Len(stack)

\* No kassert of the heap fails: an unlocked alloc() finds an object whatever
\* its Allocator took from the heap meanwhile, and the lists are never broken.
NoKassertFails == machine # "kassert"
=============================================================================
