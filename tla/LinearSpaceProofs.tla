------------------------- MODULE LinearSpaceProofs -------------------------
(***************************************************************************)
(* The linear space manager, for any usable addresses, lengths and         *)
(* alignments, and every random choice of the search.                      *)
(***************************************************************************)
EXTENDS LinearSpaceManager, AddressSpaceProofs

\* Moving an address up to a multiple of align moves it by less than align.
LEMMA AlignUpBounds ==
  ASSUME NEW first \in Nat, NEW align \in Nat \ {0}
  PROVE  /\ AlignUp(first, align) \in Nat
         /\ first <= AlignUp(first, align)
         /\ AlignUp(first, align) <= first + align - 1
<1>1. first % align \in Nat /\ first % align < align
  OBVIOUS
<1> QED BY <1>1 DEF AlignUp

\* Moved up to a multiple of align, an address is one.
LEMMA AlignUpAligned ==
  ASSUME NEW first \in Nat, NEW align \in Nat \ {0}
  PROVE  AlignUp(first, align) % align = 0
<1>1. first % align \in Nat /\ first % align < align
  OBVIOUS
<1>2. PICK q \in Nat : first = (q * align) + (first % align)
  <2>1. first = ((first \div align) * align) + (first % align)
    OBVIOUS
  <2>2. first \div align \in Nat
    OBVIOUS
  <2> QED BY <2>1, <2>2
<1>3. \A r \in Nat : (r * align) % align = 0
  OBVIOUS
<1>4. CASE first % align = 0
  BY <1>4 DEF AlignUp
<1>5. CASE first % align # 0
  <2>1. AlignUp(first, align) = (q + 1) * align
    <3>1. AlignUp(first, align) = first + (align - (first % align))
      BY <1>5 DEF AlignUp
    <3>2. (q + 1) * align = (q * align) + align
      OBVIOUS
    <3>3. q * align \in Nat
      OBVIOUS
    <3> DEFINE whole == q * align
               rest  == first % align
    <3>4. /\ whole \in Nat /\ rest \in Nat /\ first = whole + rest
          /\ AlignUp(first, align) = first + (align - rest)
          /\ (q + 1) * align = whole + align
      BY <1>1, <1>2, <3>1, <3>2, <3>3
    <3> HIDE DEF whole, rest
    <3>5. first + (align - rest) = whole + align
      BY <3>4
    <3> QED BY <3>4, <3>5
  <2> QED BY <2>1, <1>3
<1> QED BY <1>4, <1>5
-----------------------------------------------------------------------------
\* The conjunction that every call preserves.
IInv == TypeOK /\ SpaceInv /\ AnswersAligned

\* The kasserts of allocAslr hold for whatever the random search answers, so the
\* call takes a run that was free and never halts.
LEMMA AslrKeeps ==
  ASSUME IInv, NEW length \in Lengths, NEW align \in Aligns, AllocAslr(length, align)
  PROVE  /\ IInv'
         /\ \E start \in Usable : Pool!Alloc(start, length, align - 1)
<1>0. length \in Nat \ {0} /\ align \in Nat \ {0} /\ align - 1 \in Nat
  BY LengthsAssumption, AlignsAssumption
<1>s. PICK super \in LongEnough(Search(length, align)) :
        \E first \in Firsts(super, Search(length, align)) :
          AllocFrom(super, AlignUp(first, align), length, align - 1)
  BY DEF AllocAslr
<1>1. PICK first \in Firsts(super, Search(length, align)) :
        AllocFrom(super, AlignUp(first, align), length, align - 1)
  BY <1>s
<1> DEFINE start == AlignUp(first, align)
<1>2. super \in treeLength /\ super \in RangePair
  BY DEF LongEnough, IInv, TypeOK, SpaceTypeOK
<1>3. /\ first \in Nat /\ super.y <= first
      /\ first + (length + align - 1) <= super.y + super.x
  BY <1>0, <1>2 DEF Firsts, LongEnough, Search, RangePair
<1>4. /\ start \in Nat /\ first <= start /\ start <= first + align - 1
      /\ start % align = 0
  BY <1>0, <1>3, AlignUpBounds, AlignUpAligned
<1> HIDE DEF start
<1>5. Fits(start, length, super)
  BY <1>0, <1>2, <1>3, <1>4 DEF Fits, RangePair
<1>6. /\ ~halted /\ halted = FALSE /\ halted' = FALSE /\ lockCnt' = lockCnt
      /\ last' = [op |-> "alloc", start |-> start, length |-> length, slack |-> align - 1]
      /\ AllocSubrange([x |-> length, y |-> start], super)
      /\ held' = held \cup Bytes(start, length)
  BY <1>1, <1>5 DEF start, AllocFrom, IInv, TypeOK, SpaceTypeOK
<1>7. /\ treeStart' \subseteq RangePair /\ Mirror' /\ Apart'
      /\ FreeBytes' = FreeBytes \ Bytes(start, length)
      /\ Bytes(start, length) \subseteq FreeBytes
  BY <1>0, <1>2, <1>4, <1>5, <1>6, AllocSubrangeKeeps
     DEF IInv, TypeOK, SpaceTypeOK, SpaceInv
<1>8. Conserved' /\ held' \subseteq Usable
  BY <1>6, <1>7 DEF IInv, SpaceInv, Conserved
<1>9. treeLength' \subseteq RangePair
  BY <1>7 DEF Mirror, Flip, RangePair
<1>10. start \in Usable
  BY <1>0, <1>4, <1>7 DEF IInv, SpaceInv, Conserved, Bytes
<1>11. last' \in Call
  BY <1>0, <1>4, <1>6 DEF Call
<1>12. AnswersAligned'
  <2>1. last'.start = start /\ last'.slack = align - 1
    BY <1>6
  <2>2. last'.slack + 1 = align
    BY <2>1, <1>0
  <2> QED BY <2>1, <2>2, <1>4 DEF AnswersAligned
<1>13. IInv'
  BY <1>6, <1>7, <1>8, <1>9, <1>11, <1>12 DEF IInv, TypeOK, SpaceTypeOK, SpaceInv
<1>14. Pool!Alloc(start, length, align - 1)
  BY <1>6, <1>7 DEF Pool!Alloc, Pool!Bytes, Bytes
<1> QED BY <1>10, <1>13, <1>14

\* A failing call: no run of free bytes has room for the bytes and the slack.
LEMMA AslrNoneKeeps ==
  ASSUME IInv, NEW length \in Lengths, NEW align \in Aligns,
         AllocAslrNone(length, align)
  PROVE  IInv' /\ Pool!AllocFails(length, align - 1)
<1>0. length \in Nat \ {0} /\ align \in Nat \ {0} /\ align - 1 \in Nat
  BY LengthsAssumption, AlignsAssumption
<1> DEFINE size == length + (align - 1)
<1>a. size \in Nat \ {0} /\ Search(length, align) = size
  BY <1>0 DEF Search
<1> HIDE DEF size
<1>1. LongEnough(size) = {} /\ AllocFails(length, align - 1)
  BY <1>a DEF AllocAslrNone
<1>2. /\ ~halted /\ halted' = halted /\ lockCnt' \in 0 .. LockBound
      /\ UNCHANGED <<treeStart, treeLength, held>>
      /\ last' = [op |-> "alloc", start |-> 0, length |-> length, slack |-> align - 1]
  BY <1>1, LockBoundAssumption DEF AllocFails, IInv, TypeOK, SpaceTypeOK
<1>3. FreeBytes' = FreeBytes
  BY <1>2 DEF FreeBytes
<1>4. last' \in Call
  BY <1>0, <1>2 DEF Call
<1>5. AnswersAligned'
  <2>1. last'.start = 0 /\ last'.slack + 1 = align
    BY <1>0, <1>2
  <2>2. 0 % align = 0
    BY <1>0
  <2> QED BY <2>1, <2>2 DEF AnswersAligned
<1>6. IInv'
  BY <1>2, <1>3, <1>4, <1>5
     DEF IInv, TypeOK, SpaceTypeOK, SpaceInv, Mirror, Apart, Conserved
<1>7. ASSUME NEW start \in FreeBytes, Bytes(start, size) \subseteq FreeBytes
      PROVE  FALSE
  <2>1. treeStart \subseteq RangePair /\ Apart /\ Mirror
    BY DEF IInv, TypeOK, SpaceTypeOK, SpaceInv
  <2>2. start \in Nat
    BY <2>1 DEF FreeBytes, Bytes, RangePair
  <2>3. PICK p \in treeStart : p.x <= start /\ start + size <= p.x + p.y
    BY <1>a, <1>7, <2>1, <2>2, RunInOneRange
  <2>4. Flip(p) \in treeLength /\ Flip(p).x >= size
    BY <1>a, <2>1, <2>2, <2>3 DEF Mirror, Flip, RangePair
  <2> QED BY <1>1, <2>4 DEF LongEnough
<1>8. Pool!AllocFails(length, align - 1)
  <2>1. \A start \in FreeBytes : ~(Pool!Bytes(start, length + (align - 1)) \subseteq FreeBytes)
    BY <1>7 DEF size, Pool!Bytes, Bytes
  <2> QED BY <1>2, <1>3, <2>1 DEF Pool!AllocFails
<1> QED BY <1>6, <1>8

\* A legal free(start, length).
LEMMA LinearFreeKeeps ==
  ASSUME IInv, NEW start \in Usable, NEW length \in Lengths,
         Bytes(start, length) \subseteq Usable, FreeSpace(start, length)
  PROVE  IInv' /\ Pool!Free(start, length)
<1>0. length \in Nat \ {0} /\ start \in Nat
  BY LengthsAssumption, UsableAssumption
<1>1. /\ ~halted /\ halted' = halted /\ lockCnt' = lockCnt
      /\ ~AlreadyFree(start, length) /\ FreeRange(start, length)
      /\ held' = held \ Bytes(start, length)
      /\ last' = [op |-> "free", start |-> start, length |-> length, slack |-> 0]
  BY DEF FreeSpace, Refused
<1>2. /\ treeStart' \subseteq RangePair /\ Mirror' /\ Apart'
      /\ FreeBytes' = FreeBytes \cup Bytes(start, length)
      /\ FreeBytes \cap Bytes(start, length) = {}
  BY <1>0, <1>1, FreeRangeKeeps DEF IInv, TypeOK, SpaceTypeOK, SpaceInv
<1>3. Conserved' /\ held' \subseteq Usable
  BY <1>1, <1>2 DEF IInv, SpaceInv, Conserved
<1>4. treeLength' \subseteq RangePair
  BY <1>2 DEF Mirror, Flip, RangePair
<1>5. last' \in Call /\ AnswersAligned'
  BY <1>0, <1>1 DEF Call, AnswersAligned
<1>6. IInv'
  BY <1>1, <1>2, <1>3, <1>4, <1>5 DEF IInv, TypeOK, SpaceTypeOK, SpaceInv
<1>7. Pool!Free(start, length)
  BY <1>1, <1>2 DEF Pool!Free, Pool!Bytes, Bytes
<1> QED BY <1>6, <1>7

\* A free(start, length) that a kassert refuses.
LEMMA LinearRefusedKeeps ==
  ASSUME IInv, NEW start \in Usable, NEW length \in Lengths, FreeRefused(start, length)
  PROVE  IInv' /\ Pool!Misuse(start, length)
<1>0. length \in Nat \ {0} /\ start \in Nat
  BY LengthsAssumption, UsableAssumption
<1>1. /\ ~halted /\ halted' = TRUE /\ Refused(start, length)
      /\ UNCHANGED <<treeStart, treeLength, held, lockCnt>>
      /\ last' = [op |-> "free", start |-> start, length |-> length, slack |-> 0]
  BY DEF FreeRefused
<1>2. FreeBytes' = FreeBytes
  BY <1>1 DEF FreeBytes
<1>3. last' \in Call /\ AnswersAligned'
  BY <1>0, <1>1 DEF Call, AnswersAligned
<1>4. IInv'
  BY <1>1, <1>2, <1>3
     DEF IInv, TypeOK, SpaceTypeOK, SpaceInv, Mirror, Apart, Conserved
<1>5. \/ Bytes(start, length) \cap FreeBytes # {}
      \/ start % PAGE # 0
      \/ length % PAGE # 0
  BY <1>0, <1>1, AlreadyFreeIsFree DEF Refused, IInv, TypeOK, SpaceTypeOK, SpaceInv
<1>6. Pool!Misuse(start, length)
  BY <1>1, <1>2, <1>5 DEF Pool!Misuse, Pool!Bytes, Bytes
<1> QED BY <1>4, <1>6
-----------------------------------------------------------------------------
\* The trees are empty at boot, when every usable address is in callers' hands.
LEMMA LinearInit == Init => IInv
<1> SUFFICES ASSUME Init PROVE IInv
  OBVIOUS
<1>1. /\ treeStart = {} /\ treeLength = {} /\ held = Usable /\ lockCnt = 0
      /\ halted = FALSE
      /\ last = [op |-> "none", start |-> 0, length |-> 0, slack |-> 0]
  BY DEF Init, SpaceInit
<1>2. FreeBytes = {}
  BY <1>1 DEF FreeBytes
<1>3. last \in Call /\ AnswersAligned
  BY <1>1 DEF Call, AnswersAligned
<1>4. lockCnt \in 0 .. LockBound
  BY <1>1, LockBoundAssumption
<1>5. treeStart \subseteq RangePair /\ treeLength \subseteq RangePair
  BY <1>1
<1>6. held \subseteq Usable /\ halted \in BOOLEAN
  BY <1>1
<1>7. TypeOK
  BY <1>3, <1>4, <1>5, <1>6 DEF TypeOK, SpaceTypeOK
<1>8. Mirror /\ Apart /\ Conserved
  BY <1>1, <1>2 DEF Mirror, Apart, Conserved
<1> QED BY <1>3, <1>7, <1>8 DEF IInv, SpaceInv

\* Every step keeps the invariant and is a step, or a stutter, of PagePool.
LEMMA LinearNext ==
  ASSUME IInv, [Next]_spaceVars
  PROVE  IInv' /\ [Pool!Next]_Pool!vars
<1>1. ASSUME NEW length \in Lengths, NEW align \in Aligns, AllocAslr(length, align)
      PROVE  IInv' /\ Pool!Next
  BY <1>1, AslrKeeps DEF Pool!Next
<1>2. ASSUME NEW length \in Lengths, NEW align \in Aligns, AllocAslrNone(length, align)
      PROVE  IInv' /\ Pool!Next
  BY <1>2, AslrNoneKeeps DEF Pool!Next
<1>3. ASSUME NEW start \in Usable, NEW length \in Lengths,
             Bytes(start, length) \subseteq Usable, FreeSpace(start, length)
      PROVE  IInv' /\ Pool!Next
  BY <1>3, LinearFreeKeeps DEF Pool!Next
<1>4. ASSUME NEW start \in Usable, NEW length \in Lengths, FreeRefused(start, length)
      PROVE  IInv' /\ Pool!Next
  BY <1>4, LinearRefusedKeeps DEF Pool!Next
<1>5. CASE UNCHANGED spaceVars
  <2>1. FreeBytes' = FreeBytes
    BY <1>5 DEF spaceVars, FreeBytes
  <2> QED BY <1>5, <2>1
          DEF spaceVars, Pool!vars, IInv, TypeOK, SpaceTypeOK, SpaceInv, Mirror, Apart,
              Conserved, AnswersAligned
<1>6. CASE Next
  BY <1>1, <1>2, <1>3, <1>4, <1>6 DEF Next
<1> QED BY <1>5, <1>6

\* The invariant holds in every reachable state.
THEOREM Invariant == Spec => []IInv
<1>1. IInv /\ [Next]_spaceVars => IInv'
  BY LinearNext
<1> QED BY LinearInit, <1>1, PTL DEF Spec

\* The two trees of linear memory never disagree.
THEOREM TreesMirror == Spec => []Mirror
<1>1. IInv => Mirror
  BY DEF IInv, SpaceInv
<1> QED BY Invariant, <1>1, PTL

\* No linear address is ever lost, nor free while a caller holds it.
THEOREM NothingLost == Spec => []Conserved
<1>1. IInv => Conserved
  BY DEF IInv, SpaceInv
<1> QED BY Invariant, <1>1, PTL

\* Every address handed out has the alignment asked for.
THEOREM Aligned == Spec => []AnswersAligned
<1>1. IInv => AnswersAligned
  BY DEF IInv
<1> QED BY Invariant, <1>1, PTL

\* Seen through FreeBytes, every behaviour of the manager, whatever the random
\* choices, is one of PagePool.
THEOREM Refinement == Spec => ImplementsPool
<1>1. Init => Pool!Init
  BY DEF Init, SpaceInit, Pool!Init, FreeBytes
<1>2. IInv /\ [Next]_spaceVars => [Pool!Next]_Pool!vars
  BY LinearNext
<1> QED BY Invariant, <1>1, <1>2, PTL DEF Spec, ImplementsPool, Pool!Spec
=============================================================================
