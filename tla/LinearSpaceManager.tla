------------------------ MODULE LinearSpaceManager ------------------------
(***************************************************************************)
(* memory/LinearSpaceManager: linear addresses at random places (ASLR).    *)
(* The tree by length is an AslrTree, whose findRandomRange answers with   *)
(* any byte of any free range from which the bytes asked for still fit.    *)
(***************************************************************************)
EXTENDS AddressSpaceManager

CONSTANTS
  Lengths,  \* the lengths callers ask for
  Aligns    \* the alignments callers ask for
ASSUME LengthsAssumption == Lengths \subseteq Nat \ {0}
ASSUME AlignsAssumption == Aligns \subseteq Nat \ {0}

\* The free ranges findRandomRange(size) chooses from, and the bytes of one of
\* them it may answer with.
LongEnough(size) == {p \in treeLength : p.x >= size}
Firsts(super, size) == super.y .. (super.y + super.x - size)

\* Mutation of Search: no room is left to align in.
SearchWithoutSlack(length, align) == length

\* The search asks for align-1 bytes more, for the start to move up in.
Search(length, align) == length + align - 1

\* Mutation of AlignUp: the remainder is added.
AlignAway(start, align) == start + (start % align)

AlignUp(start, align) ==
  IF start % align # 0 THEN start + (align - (start % align)) ELSE start

Init == SpaceInit

AllocAslr(length, align) ==
  /\ length % PAGE = 0
  /\ align % PAGE = 0
  /\ \E super \in LongEnough(Search(length, align)) :
       \E first \in Firsts(super, Search(length, align)) :
         AllocFrom(super, AlignUp(first, align), length, align - 1)

AllocAslrNone(length, align) ==
  /\ length % PAGE = 0
  /\ align % PAGE = 0
  /\ LongEnough(Search(length, align)) = {}
  /\ AllocFails(length, align - 1)

Next ==
  \/ \E length \in Lengths, align \in Aligns :
       \/ AllocAslr(length, align)
       \/ AllocAslrNone(length, align)
  \/ \E start \in Usable, length \in Lengths :
       /\ Bytes(start, length) \subseteq Usable
       /\ FreeSpace(start, length) \/ FreeRefused(start, length)

Spec == Init /\ [][Next]_spaceVars
-----------------------------------------------------------------------------
TypeOK == SpaceTypeOK

\* The callers' view: a pool of addresses whose allocation fails only when no
\* run of free addresses holds the bytes asked for and the room to align them.
Pool == INSTANCE PagePool WITH free <- FreeBytes,
                               Slacks <- {align - 1 : align \in Aligns}
ImplementsPool == Pool!Spec

\* MemoryManager::alloc (MemoryManager.cpp:16) halts on an address that is not
\* aligned as asked; no random choice may lead there.
AnswersAligned ==
  last.op = "alloc" => last.start % (last.slack + 1) = 0
=============================================================================
