----------------------------- MODULE RangePair -----------------------------
(***************************************************************************)
(* common/RangePair.{h,cpp}: a pair of 64-bit numbers in lexicographic     *)
(* order, and the AVL tree of such pairs (memory/AvlTree) seen through its *)
(* interface: the set of its elements and the search findBound.  The tree  *)
(* that keeps ranges by address holds <start, length> as <x, y>; the tree  *)
(* that keeps them by size holds <length, start>.                          *)
(***************************************************************************)
EXTENDS Integers

RangePair == [x : Nat, y : Nat]

\* RangePair::operator<=
LessEq(p, q) == p.x < q.x \/ (p.x = q.x /\ p.y <= q.y)

\* A range as the other tree stores it.
Flip(p) == [x |-> p.y, y |-> p.x]

(***************************************************************************)
(* AvlTree::findBound(key, upper).  The C++ function answers whether there *)
(* is such an element and overwrites the key with it; here the answer is a *)
(* set that holds the element, or is empty.                                *)
(***************************************************************************)
UpperBound(tree, key) ==
  {p \in tree : LessEq(p, key) /\ \A q \in tree : LessEq(q, key) => LessEq(q, p)}

LowerBound(tree, key) ==
  {p \in tree : LessEq(key, p) /\ \A q \in tree : LessEq(key, q) => LessEq(p, q)}

\* The addresses of a range that begins at start.
Bytes(start, length) == start .. (start + length - 1)
=============================================================================
