------------------------ MODULE PhysicalSpaceProofs ------------------------
(***************************************************************************)
(* The physical space manager, for any set of usable pages, any lengths    *)
(* and any history of calls: its trees stay mirrored and apart, no page is *)
(* lost or owned twice, the counter is right, and it implements PagePool.  *)
(***************************************************************************)
EXTENDS PhysicalSpaceManager, AddressSpaceProofs

\* The conjunction that every call preserves.
IInv == TypeOK /\ SpaceInv /\ Accounted

\* A best fit is a free range that is long enough, and the search fails only if
\* there is none.
LEMMA BestFitIs ==
  ASSUME IInv, NEW length \in Lengths, NEW super \in BestFit(length)
  PROVE  super \in treeLength /\ super \in RangePair /\ super.x >= length
<1>1. length \in Nat
  BY LengthsAssumption
<1>2. treeLength \subseteq RangePair
  BY DEF IInv, TypeOK, SpaceTypeOK
<1> QED BY <1>1, <1>2 DEF BestFit, LowerBound, LessEq, RangePair

\* What a successful alloc(length) does, in the terms of the invariant.
LEMMA AllocKeeps ==
  ASSUME IInv, NEW length \in Lengths, Alloc(length)
  PROVE  /\ IInv'
         /\ \E start \in Usable : Pool!Alloc(start, length, 0)
<1>0. length \in Nat \ {0}
  BY LengthsAssumption
<1>1. PICK super \in BestFit(length) :
        /\ AllocFrom(super, super.y, length, 0)
        /\ availableMemory' = availableMemory - length
  BY DEF Alloc
<1>2. super \in treeLength /\ super \in RangePair /\ super.x >= length
  BY BestFitIs
<1>3. super.y \in Nat /\ Fits(super.y, length, super)
  BY <1>0, <1>2 DEF Fits, RangePair
<1>4. /\ ~halted /\ halted = FALSE /\ halted' = FALSE /\ lockCnt' = lockCnt
      /\ last' = [op |-> "alloc", start |-> super.y, length |-> length, slack |-> 0]
      /\ AllocSubrange([x |-> length, y |-> super.y], super)
      /\ held' = held \cup Bytes(super.y, length)
  BY <1>1, <1>3 DEF AllocFrom, IInv, TypeOK, SpaceTypeOK
<1>5. /\ treeStart' \subseteq RangePair /\ Mirror' /\ Apart'
      /\ FreeBytes' = FreeBytes \ Bytes(super.y, length)
      /\ Bytes(super.y, length) \subseteq FreeBytes
  BY <1>0, <1>2, <1>3, <1>4, AllocSubrangeKeeps
     DEF IInv, TypeOK, SpaceTypeOK, SpaceInv
<1>6. Conserved' /\ held' \subseteq Usable
  BY <1>4, <1>5 DEF IInv, SpaceInv, Conserved
<1>7. treeLength' \subseteq RangePair
  BY <1>5 DEF Mirror, Flip, RangePair
<1>8. super.y \in Usable
  BY <1>0, <1>3, <1>5 DEF IInv, SpaceInv, Conserved, Bytes
<1>9. Accounted' /\ availableMemory' \in Nat
  <2>1. IsFiniteSet(FreeBytes)
    BY FS_Subset, UsableAssumption DEF IInv, SpaceInv, Conserved
  <2>2. /\ IsFiniteSet(FreeBytes')
        /\ Cardinality(FreeBytes') = Cardinality(FreeBytes)
             - Cardinality(FreeBytes \cap Bytes(super.y, length))
    BY <2>1, <1>5, FS_Difference
  <2>3. FreeBytes \cap Bytes(super.y, length) = Bytes(super.y, length)
    BY <1>5
  <2>4. Cardinality(Bytes(super.y, length)) = length
    BY <1>0, <1>3, FS_Interval DEF Bytes
  <2>5. Cardinality(FreeBytes') \in Nat
    BY <2>2, FS_CardinalityType
  <2> QED BY <2>2, <2>3, <2>4, <2>5, <1>1 DEF IInv, Accounted
<1>10. last' \in Call
  BY <1>0, <1>3, <1>4 DEF Call
<1>11. IInv'
  BY <1>4, <1>5, <1>6, <1>7, <1>9, <1>10 DEF IInv, TypeOK, SpaceTypeOK, SpaceInv
<1>12. Pool!Alloc(super.y, length, 0)
  BY <1>4, <1>5 DEF Pool!Alloc, Pool!Bytes, Bytes
<1> QED BY <1>8, <1>11, <1>12

\* What a failing alloc(length) does: best fit fails only if no run is long enough.
LEMMA AllocNoneKeeps ==
  ASSUME IInv, NEW length \in Lengths, AllocNone(length)
  PROVE  IInv' /\ Pool!AllocFails(length, 0)
<1>0. length \in Nat \ {0}
  BY LengthsAssumption
<1>1. /\ BestFit(length) = {}
      /\ AllocFails(length, 0)
      /\ availableMemory' = availableMemory
  BY DEF AllocNone
<1>2. /\ ~halted /\ halted' = halted /\ lockCnt' \in 0 .. LockBound
      /\ UNCHANGED <<treeStart, treeLength, held>>
      /\ last' = [op |-> "alloc", start |-> 0, length |-> length, slack |-> 0]
  BY <1>1, LockBoundAssumption DEF AllocFails, IInv, TypeOK, SpaceTypeOK
<1>3. FreeBytes' = FreeBytes
  BY <1>2 DEF FreeBytes
<1>4. last' \in Call
  BY <1>0, <1>2 DEF Call
<1>5. IInv'
  BY <1>1, <1>2, <1>3, <1>4
     DEF IInv, TypeOK, SpaceTypeOK, SpaceInv, Mirror, Apart, Conserved, Accounted
<1>6. ASSUME NEW start \in FreeBytes, Bytes(start, length) \subseteq FreeBytes
      PROVE  FALSE
  <2>1. treeStart \subseteq RangePair /\ Apart /\ Mirror /\ treeLength \subseteq RangePair
    BY DEF IInv, TypeOK, SpaceTypeOK, SpaceInv
  <2>2. start \in Nat
    BY <2>1 DEF FreeBytes, Bytes, RangePair
  <2>3. PICK p \in treeStart : p.x <= start /\ start + length <= p.x + p.y
    BY <1>0, <1>6, <2>1, <2>2, RunInOneRange
  <2>4. Flip(p) \in treeLength
    BY <2>1 DEF Mirror
  <2>5. LessEq([x |-> length, y |-> 0], Flip(p))
    BY <1>0, <2>1, <2>2, <2>3 DEF LessEq, Flip, RangePair
  <2>6. [x |-> length, y |-> 0] \in RangePair
    BY <1>0 DEF RangePair
  <2> QED BY <1>1, <2>1, <2>4, <2>5, <2>6, LowerBoundFound DEF BestFit
<1>7. Pool!AllocFails(length, 0)
  <2>1. \A start \in FreeBytes : ~(Pool!Bytes(start, length + 0) \subseteq FreeBytes)
    BY <1>0, <1>6 DEF Pool!Bytes, Bytes
  <2> QED BY <1>2, <1>3, <2>1 DEF Pool!AllocFails
<1> QED BY <1>5, <1>7

\* What a legal free(start, length) does.
LEMMA FreeKeeps ==
  ASSUME IInv, NEW start \in Usable, NEW length \in Lengths,
         Bytes(start, length) \subseteq Usable, Free(start, length)
  PROVE  IInv' /\ Pool!Free(start, length)
<1>0. length \in Nat \ {0} /\ start \in Nat
  BY LengthsAssumption, UsableAssumption
<1>1. /\ FreeSpace(start, length)
      /\ availableMemory' = availableMemory + length
  BY DEF Free
<1>2. /\ ~halted /\ halted' = halted /\ lockCnt' = lockCnt
      /\ ~AlreadyFree(start, length) /\ FreeRange(start, length)
      /\ held' = held \ Bytes(start, length)
      /\ last' = [op |-> "free", start |-> start, length |-> length, slack |-> 0]
  BY <1>1 DEF FreeSpace, Refused
<1>3. /\ treeStart' \subseteq RangePair /\ Mirror' /\ Apart'
      /\ FreeBytes' = FreeBytes \cup Bytes(start, length)
      /\ FreeBytes \cap Bytes(start, length) = {}
  BY <1>0, <1>2, FreeRangeKeeps DEF IInv, TypeOK, SpaceTypeOK, SpaceInv
<1>4. Conserved' /\ held' \subseteq Usable
  BY <1>2, <1>3 DEF IInv, SpaceInv, Conserved
<1>5. treeLength' \subseteq RangePair
  BY <1>3 DEF Mirror, Flip, RangePair
<1>6. Accounted' /\ availableMemory' \in Nat
  <2>1. IsFiniteSet(FreeBytes) /\ IsFiniteSet(Bytes(start, length))
    BY FS_Subset, UsableAssumption DEF IInv, SpaceInv, Conserved
  <2>2. Cardinality(FreeBytes') = Cardinality(FreeBytes) + Cardinality(Bytes(start, length))
                                  - Cardinality(FreeBytes \cap Bytes(start, length))
    BY <2>1, <1>3, FS_Union
  <2>3. Cardinality(FreeBytes \cap Bytes(start, length)) = 0
    BY <1>3, FS_EmptySet
  <2>4. Cardinality(Bytes(start, length)) = length
    BY <1>0, FS_Interval DEF Bytes
  <2>5. Cardinality(FreeBytes) \in Nat
    BY <2>1, FS_CardinalityType
  <2> QED BY <2>2, <2>3, <2>4, <2>5, <1>0, <1>1 DEF IInv, Accounted
<1>7. last' \in Call
  BY <1>0, <1>2 DEF Call
<1>8. IInv'
  BY <1>2, <1>3, <1>4, <1>5, <1>6, <1>7 DEF IInv, TypeOK, SpaceTypeOK, SpaceInv
<1>9. Pool!Free(start, length)
  BY <1>2, <1>3 DEF Pool!Free, Pool!Bytes, Bytes
<1> QED BY <1>8, <1>9

\* What a free(start, length) that a kassert refuses does.
LEMMA FreeTwiceKeeps ==
  ASSUME IInv, NEW start \in Usable, NEW length \in Lengths, FreeTwice(start, length)
  PROVE  IInv' /\ Pool!Misuse(start, length)
<1>0. length \in Nat \ {0} /\ start \in Nat
  BY LengthsAssumption, UsableAssumption
<1>1. /\ ~halted /\ halted' = TRUE /\ Refused(start, length)
      /\ UNCHANGED <<treeStart, treeLength, held, lockCnt, availableMemory>>
      /\ last' = [op |-> "free", start |-> start, length |-> length, slack |-> 0]
  BY DEF FreeTwice, FreeRefused
<1>2. FreeBytes' = FreeBytes
  BY <1>1 DEF FreeBytes
<1>3. last' \in Call
  BY <1>0, <1>1 DEF Call
<1>4. IInv'
  BY <1>1, <1>2, <1>3
     DEF IInv, TypeOK, SpaceTypeOK, SpaceInv, Mirror, Apart, Conserved, Accounted
<1>5. \/ Bytes(start, length) \cap FreeBytes # {}
      \/ start % PAGE # 0
      \/ length % PAGE # 0
  BY <1>0, <1>1, AlreadyFreeIsFree DEF Refused, IInv, TypeOK, SpaceTypeOK, SpaceInv
<1>6. Pool!Misuse(start, length)
  BY <1>1, <1>2, <1>5 DEF Pool!Misuse, Pool!Bytes, Bytes
<1> QED BY <1>4, <1>6
-----------------------------------------------------------------------------
\* The trees are empty at boot, when the callers hold every usable page.
LEMMA InitIInv == Init => IInv
<1> SUFFICES ASSUME Init PROVE IInv
  OBVIOUS
<1>1. /\ treeStart = {} /\ treeLength = {} /\ held = Usable /\ lockCnt = 0
      /\ halted = FALSE /\ availableMemory = 0
      /\ last = [op |-> "none", start |-> 0, length |-> 0, slack |-> 0]
  BY DEF Init, SpaceInit
<1>2. FreeBytes = {}
  BY <1>1 DEF FreeBytes
<1>3. last \in Call
  BY <1>1 DEF Call
<1>4. TypeOK
  <2>1. lockCnt \in 0 .. LockBound /\ availableMemory \in Nat
    BY <1>1, LockBoundAssumption
  <2>2. treeStart \subseteq RangePair /\ treeLength \subseteq RangePair
    BY <1>1
  <2>3. held \subseteq Usable /\ halted \in BOOLEAN
    BY <1>1
  <2> QED BY <2>1, <2>2, <2>3, <1>3 DEF TypeOK, SpaceTypeOK
<1>5. Mirror /\ Apart /\ Conserved
  BY <1>1, <1>2 DEF Mirror, Apart, Conserved
<1>6. Accounted
  BY <1>1, <1>2, FS_EmptySet DEF Accounted
<1> QED BY <1>4, <1>5, <1>6 DEF IInv, SpaceInv

\* Every step keeps the invariant and is a step, or a stutter, of PagePool.
LEMMA NextIInv ==
  ASSUME IInv, [Next]_vars
  PROVE  IInv' /\ [Pool!Next]_Pool!vars
<1>1. ASSUME NEW length \in Lengths, Alloc(length)
      PROVE  IInv' /\ Pool!Next
  BY <1>1, AllocKeeps DEF Pool!Next
<1>2. ASSUME NEW length \in Lengths, AllocNone(length)
      PROVE  IInv' /\ Pool!Next
  BY <1>2, AllocNoneKeeps DEF Pool!Next
<1>3. ASSUME NEW start \in Usable, NEW length \in Lengths,
             Bytes(start, length) \subseteq Usable, Free(start, length)
      PROVE  IInv' /\ Pool!Next
  BY <1>3, FreeKeeps DEF Pool!Next
<1>4. ASSUME NEW start \in Usable, NEW length \in Lengths, FreeTwice(start, length)
      PROVE  IInv' /\ Pool!Next
  BY <1>4, FreeTwiceKeeps DEF Pool!Next
<1>5. CASE UNCHANGED vars
  <2>1. FreeBytes' = FreeBytes
    BY <1>5 DEF vars, FreeBytes
  <2> QED BY <1>5, <2>1
          DEF vars, Pool!vars, IInv, TypeOK, SpaceTypeOK, SpaceInv, Mirror, Apart,
              Conserved, Accounted
<1>6. CASE Next
  BY <1>1, <1>2, <1>3, <1>4, <1>6 DEF Next
<1> QED BY <1>5, <1>6

\* The invariant holds in every reachable state.
THEOREM Invariant == Spec => []IInv
<1>1. IInv /\ [Next]_vars => IInv'
  BY NextIInv
<1> QED BY InitIInv, <1>1, PTL DEF Spec

\* Every variable of the physical space manager keeps its type.
THEOREM TypeCorrect == Spec => []TypeOK
<1>1. IInv => TypeOK
  BY DEF IInv
<1> QED BY Invariant, <1>1, PTL

\* The two trees never disagree about which ranges are free.
THEOREM TreesMirror == Spec => []Mirror
<1>1. IInv => Mirror
  BY DEF IInv, SpaceInv
<1> QED BY Invariant, <1>1, PTL

\* Free ranges are never empty, never overlap and never touch.
THEOREM RangesApart == Spec => []Apart
<1>1. IInv => Apart
  BY DEF IInv, SpaceInv
<1> QED BY Invariant, <1>1, PTL

\* No page is ever lost, nor free while a caller holds it.
THEOREM NothingLost == Spec => []Conserved
<1>1. IInv => Conserved
  BY DEF IInv, SpaceInv
<1> QED BY Invariant, <1>1, PTL

\* availableMemory is always the number of free pages.
THEOREM CounterRight == Spec => []Accounted
<1>1. IInv => Accounted
  BY DEF IInv
<1> QED BY Invariant, <1>1, PTL

\* Seen through FreeBytes, every behaviour of the manager is one of PagePool:
\* it hands out only free pages, fails only when no run is long enough, and
\* halts only at a call that frees what is free or misaligned.
THEOREM Refinement == Spec => ImplementsPool
<1>1. Init => Pool!Init
  BY DEF Init, SpaceInit, Pool!Init, FreeBytes
<1>2. IInv /\ [Next]_vars => [Pool!Next]_Pool!vars
  BY NextIInv
<1> QED BY Invariant, <1>1, <1>2, PTL DEF Spec, ImplementsPool, Pool!Spec
=============================================================================
