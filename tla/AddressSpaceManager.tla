------------------------ MODULE AddressSpaceManager ------------------------
(***************************************************************************)
(* memory/AddressSpaceManager: the bookkeeping of free ranges that the     *)
(* physical and the linear space managers share.  A manager owns two trees *)
(* over the same free ranges, one by start and one by length, and calls    *)
(* the helpers below on them.  A failed kassert prints and halts the CPU;  *)
(* what the trees hold at that moment can never be observed again, so a    *)
(* failing call leaves them alone and sets halted.                         *)
(***************************************************************************)
EXTENDS RangePair, FiniteSets

CONSTANTS
  PAGE,       \* bytes in a page (4096 in the code)
  Usable,     \* the addresses given to the manager at boot
  LockBound   \* bound: a run stops allocating with this many unmatched locks

ASSUME PageAssumption == PAGE \in Nat \ {0}
\* 0 is the answer of a failed call; the first megabyte is never usable.
ASSUME UsableAssumption == Usable \subseteq Nat \ {0} /\ IsFiniteSet(Usable)
ASSUME LockBoundAssumption == LockBound \in Nat

VARIABLES
  treeStart,  \* the free ranges as <start, length>
  treeLength, \* the same ranges as <length, start>
  held,       \* the addresses the callers hold
  lockCnt,    \* calls of MemoryReserveManager::lock not yet unlocked
  halted,     \* a kassert has failed
  last        \* the last call and what it returned

spaceVars == <<treeStart, treeLength, held, lockCnt, halted, last>>

Call == [op : {"none", "alloc", "free"}, start : Nat, length : Nat, slack : Nat]

\* The addresses the trees say are free.
FreeBytes == UNION {Bytes(p.x, p.y) : p \in treeStart}

(***************************************************************************)
(* allocSubrangeFromSuperRange: sub and super are <length, start>.  Takes  *)
(* super out of both trees and puts back what sub leaves of it.            *)
(***************************************************************************)

\* Mutation of Leftovers: what lies right of sub is forgotten.
LeftoversOnlyLeft(sub, super) ==
  IF super.y < sub.y THEN {[x |-> sub.y - super.y, y |-> super.y]} ELSE {}

Leftovers(sub, super) ==
  LET subEnd   == sub.y + sub.x
      superEnd == super.y + super.x
  IN  (IF super.y < sub.y THEN {[x |-> sub.y - super.y, y |-> super.y]} ELSE {})
      \cup (IF superEnd > subEnd THEN {[x |-> superEnd - subEnd, y |-> subEnd]} ELSE {})

AllocSubrange(sub, super) ==
  /\ treeLength' = (treeLength \ {super}) \cup Leftovers(sub, super)
  /\ treeStart'  = (treeStart \ {Flip(super)}) \cup {Flip(p) : p \in Leftovers(sub, super)}

(***************************************************************************)
(* free: merges the range with the free range that ends where it begins    *)
(* and with the one that begins where it ends.  The two kasserts refuse a  *)
(* range that reaches into one that is already free.                       *)
(***************************************************************************)
Before(start) == UpperBound(treeStart, [x |-> start, y |-> 0])
MergedBefore(start) == {p \in Before(start) : p.x + p.y = start}

After(start) == LowerBound(treeStart \ MergedBefore(start), [x |-> start, y |-> 0])

\* Mutation of MergedAfter: the range behind is not merged.
MergesNothingAfter(start, length) == {}

MergedAfter(start, length) == {p \in After(start) : p.x = start + length}

AlreadyFree(start, length) ==
  \/ \E p \in Before(start) : p.x + p.y > start
  \/ \E p \in After(start) : p.x < start + length

MergedRange(start, length) ==
  LET mergedStart == IF MergedBefore(start) = {} THEN start
                     ELSE (CHOOSE p \in MergedBefore(start) : TRUE).x
      mergedEnd   == IF MergedAfter(start, length) = {} THEN start + length
                     ELSE LET p == CHOOSE p \in MergedAfter(start, length) : TRUE
                          IN  p.x + p.y
  IN  [x |-> mergedStart, y |-> mergedEnd - mergedStart]

\* Mutation of FreeRange: merged ranges stay in the tree by length.
FreeForgetsLength(start, length) ==
  LET merged == MergedBefore(start) \cup MergedAfter(start, length)
      range  == MergedRange(start, length)
  IN  /\ treeStart'  = (treeStart \ merged) \cup {range}
      /\ treeLength' = treeLength \cup {Flip(range)}

FreeRange(start, length) ==
  LET merged == MergedBefore(start) \cup MergedAfter(start, length)
      range  == MergedRange(start, length)
  IN  /\ treeStart'  = (treeStart \ merged) \cup {range}
      /\ treeLength' = (treeLength \ {Flip(p) : p \in merged}) \cup {Flip(range)}
-----------------------------------------------------------------------------
(***************************************************************************)
(* Both managers' free(start, length): kasserts on the alignment, lock,    *)
(* AddressSpaceManager::free, unlock.  A caller frees what it holds, or by *)
(* mistake something that is (partly) free already.                        *)
(***************************************************************************)
Refused(start, length) ==
  \/ start % PAGE # 0
  \/ length % PAGE # 0
  \/ AlreadyFree(start, length)

\* At boot both trees are empty and the initializer frees the usable ranges.
SpaceInit ==
  /\ treeStart = {}
  /\ treeLength = {}
  /\ held = Usable
  /\ lockCnt = 0
  /\ halted = FALSE
  /\ last = [op |-> "none", start |-> 0, length |-> 0, slack |-> 0]

FreeSpace(start, length) ==
  /\ ~halted
  /\ ~Refused(start, length)
  /\ FreeRange(start, length)
  /\ held' = held \ Bytes(start, length)
  /\ last' = [op |-> "free", start |-> start, length |-> length, slack |-> 0]
  /\ UNCHANGED <<lockCnt, halted>>

FreeRefused(start, length) ==
  /\ ~halted
  /\ Refused(start, length)
  /\ halted' = TRUE
  /\ last' = [op |-> "free", start |-> start, length |-> length, slack |-> 0]
  /\ UNCHANGED <<treeStart, treeLength, held, lockCnt>>

\* The search found no range: 0 is returned before the unlock of the lock taken.
AllocFails(length, slack) ==
  /\ ~halted
  /\ lockCnt < LockBound
  /\ lockCnt' = lockCnt + 1
  /\ last' = [op |-> "alloc", start |-> 0, length |-> length, slack |-> slack]
  /\ UNCHANGED <<treeStart, treeLength, held, halted>>

(***************************************************************************)
(* Both managers' alloc, once they chose a free range (super, as the tree  *)
(* by length holds it) and an address in it: a kassert that what they take *)
(* lies in that range, the trees, unlock, and the address is returned.     *)
(***************************************************************************)
Fits(start, length, super) ==
  start >= super.y /\ start + length <= super.y + super.x

AllocFrom(super, start, length, slack) ==
  /\ ~halted
  /\ halted' = ~Fits(start, length, super)
  /\ last' = [op |-> "alloc", start |-> start, length |-> length, slack |-> slack]
  /\ UNCHANGED lockCnt
  /\ IF halted' THEN UNCHANGED <<treeStart, treeLength, held>>
     ELSE /\ AllocSubrange([x |-> length, y |-> start], super)
          /\ held' = held \cup Bytes(start, length)
-----------------------------------------------------------------------------
(***************************************************************************)
(* What keeps the bookkeeping sound.                                       *)
(***************************************************************************)

\* Every variable of the bookkeeping has its type.
SpaceTypeOK ==
  /\ treeStart \subseteq RangePair
  /\ treeLength \subseteq RangePair
  /\ held \subseteq Usable
  /\ lockCnt \in 0 .. LockBound
  /\ halted \in BOOLEAN
  /\ last \in Call

\* The two trees describe the same ranges: a range deleted from or added to
\* one of them and not the other would be handed out twice or never again.
Mirror == treeLength = {Flip(p) : p \in treeStart}

\* Free ranges are not empty, do not overlap and do not even touch: free()
\* merged every two neighbours, so the largest run of free memory is one range.
Apart ==
  /\ \A p \in treeStart : p.y > 0
  /\ \A p, q \in treeStart : p # q => p.x + p.y < q.x \/ q.x + q.y < p.x

\* No address is lost, and none is both free and in a caller's hands.
Conserved ==
  /\ FreeBytes \cup held = Usable
  /\ FreeBytes \cap held = {}

SpaceInv == Mirror /\ Apart /\ Conserved

\* The interface of MemoryReserveManager: lock() is taken while an address space is
\* in the middle of an operation, so between two calls of either manager no lock is
\* left (MemoryReserveManager.h:21, PrimitiveHeap.h:63).
LockReleased == lockCnt = 0
=============================================================================
