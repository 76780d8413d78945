------------------------------ MODULE AslrTree ------------------------------
(***************************************************************************)
(* memory/AslrTree: the tree of <length, start> pairs of the linear space  *)
(* manager, which finds a random place of a given size.  rdrand() % tot is *)
(* any number below tot.  A result is a set of answers, each with the      *)
(* range it lies in and the number of places it was chosen among.          *)
(***************************************************************************)
EXTENDS AvlTree

CONSTANT Sizes  \* the sizes asked for
ASSUME SizesAssumption == Sizes \subseteq Nat \ {0}

\* The places of that size in a tree all of whose ranges are long enough.
Suitable(n, size) == XTotal(n) - NumChildren(n) * (size - 1)

Place(super, start, among) == [super |-> super, start |-> start, among |-> among]

\* What findNThSuitableByteInSubtree's kasserts refuse.
Failed == Place([x |-> 0, y |-> 0], 0, 0)

\* Mutation of NthSuitable: the places of the left subtree are not taken off.
RECURSIVE NthSuitableForgetsLeft(_, _, _)
NthSuitableForgetsLeft(n, k, size) ==
  IF n = NULL \/ k < 0 THEN {Failed}
  ELSE IF k >= n.xTotal \/ n.t.x < size \/ Suitable(n.e[0], size) < 0 THEN {Failed}
  ELSE LET here == n.t.x - size + 1
       IN  IF k < here THEN {Place(n.t, n.t.y + k, 0)}
           ELSE IF k < here + Suitable(n.e[0], size)
                THEN NthSuitableForgetsLeft(n.e[0], k - here, size)
                ELSE NthSuitableForgetsLeft(n.e[1], k - here, size)

\* findNThSuitableByteInSubtree: the k-th place, counting the entry's own first,
\* then those of its left subtree, then those of its right one.
RECURSIVE NthSuitable(_, _, _)
NthSuitable(n, k, size) ==
  IF n = NULL \/ k < 0 THEN {Failed}
  ELSE IF k >= n.xTotal \/ n.t.x < size \/ Suitable(n.e[0], size) < 0 THEN {Failed}
  ELSE LET here == n.t.x - size + 1
       IN  IF k < here THEN {Place(n.t, n.t.y + k, 0)}
           ELSE IF k < here + Suitable(n.e[0], size) THEN NthSuitable(n.e[0], k - here, size)
           ELSE NthSuitable(n.e[1], k - here - Suitable(n.e[0], size), size)

\* Mutation of RandomRange: an entry that is too short ends the search.
RECURSIVE RandomRangeStops(_, _)
RandomRangeStops(n, size) ==
  IF n = NULL THEN {}
  ELSE IF n.t.x < size THEN {}
  ELSE RandomRangeStops(n.e[0], size)
       \cup {Place(n.t, n.t.y + i, Suitable(n, size)) : i \in 0 .. n.t.x - size}

\* The choice with the answer found on the left, if there is one.
Choices(n, size, left) ==
  LET leftAmong == IF left = {} THEN 0 ELSE (CHOOSE p \in left : TRUE).among
      thisAmong == n.t.x - size + 1
      tot       == leftAmong + thisAmong + Suitable(n.e[1], size)
      Choice(rnd) ==
        IF rnd < leftAmong THEN left
        ELSE IF rnd < leftAmong + thisAmong THEN {Place(n.t, n.t.y + rnd - leftAmong, tot)}
        ELSE NthSuitable(n.e[1], rnd - leftAmong - thisAmong, size)
  IN  {IF p = Failed THEN p ELSE [p EXCEPT !.among = tot] :
         p \in UNION {Choice(rnd) : rnd \in 0 .. tot - 1}}

\* findRandomRange: where the entry is long enough, so is all that lies right of
\* it; left of it the search goes on, with a random choice of its own.
RECURSIVE RandomRange(_, _)
RandomRange(n, size) ==
  IF n = NULL THEN {}
  ELSE IF n.t.x < size THEN RandomRange(n.e[1], size)
  ELSE LET lefts == RandomRange(n.e[0], size)
       IN  IF lefts = {} THEN Choices(n, size, {})
           ELSE UNION {Choices(n, size, {left}) : left \in lefts}
-----------------------------------------------------------------------------
\* findRandomRange may answer with every byte from which a range of that size is
\* free, and with no other, and no kassert fails: the sums that entries cache are
\* those of their subtrees after any rotation.  LinearSpaceManager rests on this.
Fitting(size) ==
  UNION {{<<p, start>> : start \in p.y .. p.y + p.x - size} :
           p \in {p \in Elements(root) : p.x >= size}}

EveryPlaceFound ==
  \A size \in Sizes :
    {<<a.super, a.start>> : a \in RandomRange(root, size)} = Fitting(size)

\* The answer was chosen among as many places as there are, so that a choice
\* between it and others, made in proportion, is an even one (AslrEntry.h:30).
ChosenEvenly ==
  \A size \in Sizes : \A a \in RandomRange(root, size) :
    a.among = Cardinality(Fitting(size))
=============================================================================
