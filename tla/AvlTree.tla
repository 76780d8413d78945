------------------------------- MODULE AvlTree -------------------------------
(***************************************************************************)
(* memory/AvlTree: a balanced search tree of pairs.  A tree is NULL or the *)
(* AvlEntry at its root.  Rotations move keys between entries and entries  *)
(* between parents, and only call invcache where heights change, so what   *)
(* each entry caches is part of the model.  The caches that AslrEntry adds *)
(* (xTotal, numChildren) are kept by the same virtual invcache().          *)
(***************************************************************************)
EXTENDS RangePair, FiniteSets, TLC

CONSTANTS
  Keys,  \* the pairs added and deleted
  NULL   \* the null pointer

ASSUME KeysAssumption == Keys \subseteq RangePair /\ IsFiniteSet(Keys)

VARIABLES
  root,     \* the tree
  entries,  \* entries allocated from the tree's PrimitiveHeap
  answer    \* what the last del() answered

vars == <<root, entries, answer>>

Height(n) == IF n = NULL THEN 0 ELSE n.height
XTotal(n) == IF n = NULL THEN 0 ELSE n.xTotal
NumChildren(n) == IF n = NULL THEN 0 ELSE n.numChildren

\* An entry; sound says that no kassert failed in it or under it.
Entry(k) ==
  [t |-> k, e |-> [i \in 0 .. 1 |-> NULL], height |-> 1, xTotal |-> k.x,
   numChildren |-> 1, sound |-> TRUE]

\* Mutation of Invcache: the height of the left child.
InvcacheLeft(n) ==
  [n EXCEPT !.height = 1 + Height(n.e[0]),
            !.xTotal = n.t.x + XTotal(n.e[0]) + XTotal(n.e[1]),
            !.numChildren = 1 + NumChildren(n.e[0]) + NumChildren(n.e[1])]

Invcache(n) ==
  [n EXCEPT !.height = 1 + (IF Height(n.e[0]) >= Height(n.e[1]) THEN Height(n.e[0])
                            ELSE Height(n.e[1])),
            !.xTotal = n.t.x + XTotal(n.e[0]) + XTotal(n.e[1]),
            !.numChildren = 1 + NumChildren(n.e[0]) + NumChildren(n.e[1])]

(***************************************************************************)
(* rebalance(): the entry stays, its key and children change.              *)
(***************************************************************************)
Lean(n) == Height(n.e[0]) - Height(n.e[1])
Even(n) == Lean(n) \in -1 .. 1

\* The higher child becomes the other child, with this entry's key.
Single(n, left) ==
  LET right  == 1 - left
      child  == n.e[left]
      lowered == Invcache([child EXCEPT !.t = n.t,
                                        !.e = (left :> child.e[right] @@ right :> n.e[right])])
  IN  [n EXCEPT !.t = child.t,
                !.e = (left :> child.e[left] @@ right :> lowered)]

\* The inner grandchild does, with this entry's key.
Double(n, left) ==
  LET right   == 1 - left
      child   == n.e[left]
      grand   == child.e[right]
      kept    == Invcache([child EXCEPT !.e[right] = grand.e[left]])
      lowered == Invcache([grand EXCEPT !.t = n.t,
                                        !.e = (left :> grand.e[right] @@ right :> n.e[right])])
  IN  [n EXCEPT !.t = grand.t,
                !.e = (left :> kept @@ right :> lowered)]

Rotated(n) ==
  LET left  == IF Lean(n) > 0 THEN 0 ELSE 1
      child == n.e[left]
  IN  IF Lean(n) \notin {-2, 2} THEN n
      ELSE IF Height(child.e[left]) >= Height(child.e[1 - left]) THEN Single(n, left)
      ELSE Double(n, left)

Rebalance(n) ==
  LET r == Invcache(Rotated(n))
  IN  [r EXCEPT !.sound = /\ Lean(n) \in -2 .. 2 /\ Even(r)
                          /\ \A i \in 0 .. 1 : r.e[i] # NULL => r.e[i].sound]
-----------------------------------------------------------------------------
\* add(): no caller adds a pair that is in the tree.
Side(n, k) == IF LessEq(n.t, k) THEN 1 ELSE 0

RECURSIVE Added(_, _)
Added(n, k) ==
  IF n = NULL THEN Entry(k)
  ELSE Rebalance([n EXCEPT !.e[Side(n, k)] = Added(@, k)])

(***************************************************************************)
(* del() and replacePtrWithGreatestOrSmallest() answer whether the entry   *)
(* has to disappear (gone); the caller then destructs it with everything   *)
(* under it.  freed counts the entries destructed, key is the pair that    *)
(* takes the place of the deleted one.                                     *)
(***************************************************************************)
RECURSIVE Size(_)
Size(n) == IF n = NULL THEN 0 ELSE 1 + Size(n.e[0]) + Size(n.e[1])

Result(node, key, found, gone, freed) ==
  [node |-> node, key |-> key, found |-> found, gone |-> gone, freed |-> freed]

Stays(r) == IF r.gone THEN NULL ELSE r.node
Freed(r) == r.freed + (IF r.gone THEN Size(r.node) ELSE 0)

\* Mutation of Promoted: a child that takes the entry's place is not looked for.
RECURSIVE PromotedDropsChild(_, _)
PromotedDropsChild(n, smallest) ==
  LET left  == IF smallest THEN 0 ELSE 1
      below == PromotedDropsChild(n.e[left], smallest)
  IN  IF n.e[left] # NULL
      THEN Result(Rebalance([n EXCEPT !.e[left] = Stays(below)]), below.key, TRUE, FALSE, Freed(below))
      ELSE Result(Rebalance(n), n.t, TRUE, TRUE, 0)

\* replacePtrWithGreatestOrSmallest: takes the smallest (or the greatest) pair
\* out of the tree under n.
RECURSIVE Promoted(_, _)
Promoted(n, smallest) ==
  LET left  == IF smallest THEN 0 ELSE 1
      outer == Promoted(n.e[left], smallest)
      inner == Promoted(n.e[1 - left], smallest)
  IN  IF n.e[left] # NULL
      THEN Result(Rebalance([n EXCEPT !.e[left] = Stays(outer)]), outer.key, TRUE, FALSE, Freed(outer))
      ELSE IF n.e[1 - left] = NULL THEN Result(Rebalance(n), n.t, TRUE, TRUE, 0)
      ELSE Result(Rebalance([n EXCEPT !.t = inner.key, !.e[1 - left] = Stays(inner)]),
                  n.t, TRUE, FALSE, Freed(inner))

RECURSIVE Deleted(_, _)
Deleted(n, k) ==
  LET left  == IF n.e[0] # NULL THEN 0 ELSE 1
      heir  == Promoted(n.e[left], left = 1)
      below == Deleted(n.e[Side(n, k)], k)
  IN  CASE n.t = k /\ n.e[0] = NULL /\ n.e[1] = NULL -> Result(Rebalance(n), k, TRUE, TRUE, 0)
        [] n.t = k /\ ~(n.e[0] = NULL /\ n.e[1] = NULL) ->
             Result(Rebalance([n EXCEPT !.t = heir.key, !.e[left] = Stays(heir)]),
                    k, TRUE, FALSE, Freed(heir))
        [] n.t # k /\ n.e[Side(n, k)] = NULL -> Result(Rebalance(n), k, FALSE, FALSE, 0)
        [] n.t # k /\ n.e[Side(n, k)] # NULL ->
             Result(Rebalance([n EXCEPT !.e[Side(n, k)] = Stays(below)]),
                    k, below.found, FALSE, Freed(below))

(***************************************************************************)
(* findBound(): the answer is a set that holds the pair found, or is empty.*)
(***************************************************************************)
RECURSIVE FindBound(_, _, _)
FindBound(n, k, upper) ==
  LET toward == IF upper THEN 1 ELSE 0
      closer == FindBound(n.e[toward], k, upper)
  IN  IF n = NULL THEN {}
      ELSE IF n.t = k THEN {k}
      ELSE IF LessEq(n.t, k) # upper THEN FindBound(n.e[1 - toward], k, upper)
      ELSE IF closer # {} THEN closer ELSE {n.t}
-----------------------------------------------------------------------------
RECURSIVE Elements(_)
Elements(n) == IF n = NULL THEN {} ELSE {n.t} \cup Elements(n.e[0]) \cup Elements(n.e[1])

Init ==
  /\ root = NULL
  /\ entries = 0
  /\ answer = FALSE

Add(k) ==
  /\ k \notin Elements(root)
  /\ root' = Added(root, k)
  /\ entries' = entries + 1
  /\ UNCHANGED answer

DelNothing(k) ==
  /\ root = NULL
  /\ answer' = FALSE
  /\ UNCHANGED <<root, entries>>

\* Mutation of Del: the root is not destructed.
DelKeepsRoot(k) ==
  /\ root # NULL
  /\ LET r == Deleted(root, k)
     IN  /\ root' = Stays(r)
         /\ entries' = entries - r.freed
         /\ answer' = r.found

Del(k) ==
  /\ root # NULL
  /\ LET r == Deleted(root, k)
     IN  /\ root' = Stays(r)
         /\ entries' = entries - Freed(r)
         /\ answer' = r.found

Next == \E k \in Keys : Add(k) \/ Del(k) \/ DelNothing(k)

Spec == Init /\ [][Next]_vars
-----------------------------------------------------------------------------
\* What the space managers rely on to be found in a set of pairs: the greatest at
\* or below the key, or the smallest at or above it.
\* findBound on the tree finds what the space managers rely on, in a set of
\* pairs: the greatest at or below the key, or the smallest at or above it.
SearchExact ==
  \A k \in Keys :
    /\ FindBound(root, k, TRUE) = UpperBound(Elements(root), k)
    /\ FindBound(root, k, FALSE) = LowerBound(Elements(root), k)

\* Whatever was added and deleted, in any order, the tree is the set its callers
\* take it for: no rotation loses or doubles a pair (OrderedSet), and what
\* findBound finds in the tree is what is to be found in the set.
AsSet == INSTANCE OrderedSet WITH content <- Elements(root)
ImplementsSet == AsSet!Spec /\ []SearchExact

\* The heights entries cache, which rebalance() decides by, are the heights of
\* the trees under them, no two siblings differ by more than one, and no kassert
\* on the balance failed on the way.
RECURSIVE Subtrees(_)
Subtrees(n) == IF n = NULL THEN {} ELSE {n} \cup Subtrees(n.e[0]) \cup Subtrees(n.e[1])
RECURSIVE Depth(_)
Depth(n) ==
  IF n = NULL THEN 0
  ELSE LET d == {Depth(n.e[0]), Depth(n.e[1])} IN 1 + CHOOSE x \in d : \A y \in d : y <= x
Balanced == \A n \in Subtrees(root) : n.height = Depth(n) /\ Even(n) /\ n.sound

\* As many entries are allocated as the tree holds: every deletion frees one, and
\* destructs no entry that is still needed.
NoEntryLost == entries = Size(root) /\ Size(root) = Cardinality(Elements(root))
=============================================================================
