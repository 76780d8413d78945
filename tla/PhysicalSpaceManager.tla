----------------------- MODULE PhysicalSpaceManager -----------------------
(***************************************************************************)
(* memory/PhysicalSpaceManager: contiguous physical memory, best fit.      *)
(* Each call runs under MemoryReserveManager::lock; the reserve is renewed *)
(* in the unlock that ends it, when the trees are stable, so a renewal's   *)
(* own calls are further whole calls here.                                 *)
(***************************************************************************)
EXTENDS AddressSpaceManager

CONSTANT Lengths  \* the lengths callers ask for
ASSUME LengthsAssumption == Lengths \subseteq Nat \ {0}

VARIABLE availableMemory
vars == <<treeStart, treeLength, held, lockCnt, halted, last, availableMemory>>

\* Mutation of BestFit: a range of just that length is passed over.
FitsStrictly(length) == LowerBound(treeLength, [x |-> length + 1, y |-> 0])

\* The shortest free range that is long enough, the lowest of those.
BestFit(length) == LowerBound(treeLength, [x |-> length, y |-> 0])

Init ==
  /\ SpaceInit
  /\ availableMemory = 0

\* Mutation of Alloc: availableMemory is not reduced.
AllocUncounted(length) ==
  /\ length % PAGE = 0
  /\ \E super \in BestFit(length) : AllocFrom(super, super.y, length, 0)
  /\ UNCHANGED availableMemory

Alloc(length) ==
  /\ length % PAGE = 0
  /\ \E super \in BestFit(length) :
       /\ AllocFrom(super, super.y, length, 0)
       /\ availableMemory' = availableMemory - length

\* Mutation of AllocNone: availableMemory is reduced before the search.
AllocNoneCounted(length) ==
  /\ length % PAGE = 0
  /\ BestFit(length) = {}
  /\ AllocFails(length, 0)
  /\ availableMemory' = availableMemory - length

AllocNone(length) ==
  /\ length % PAGE = 0
  /\ BestFit(length) = {}
  /\ AllocFails(length, 0)
  /\ UNCHANGED availableMemory

Free(start, length) ==
  /\ FreeSpace(start, length)
  /\ availableMemory' = availableMemory + length

FreeTwice(start, length) ==
  /\ FreeRefused(start, length)
  /\ UNCHANGED availableMemory

Next ==
  \/ \E length \in Lengths : Alloc(length)
  \/ \E length \in Lengths : AllocNone(length)
  \/ \E start \in Usable, length \in Lengths :
       /\ Bytes(start, length) \subseteq Usable
       /\ Free(start, length) \/ FreeTwice(start, length)

Spec == Init /\ [][Next]_vars
-----------------------------------------------------------------------------
TypeOK ==
  /\ SpaceTypeOK
  /\ availableMemory \in Nat

\* The callers' view: the addresses the trees call free behave as a pool, and
\* the search for a best fit misses no run of free memory that is long enough.
Pool == INSTANCE PagePool WITH free <- FreeBytes, Slacks <- {0}
ImplementsPool == Pool!Spec

\* The counter that tests and the boot log read agrees with the trees.
Accounted == availableMemory = Cardinality(FreeBytes)
=============================================================================
