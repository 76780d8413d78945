------------------------- MODULE PrimitiveHeapProofs -------------------------
(***************************************************************************)
(* The PrimitiveHeap, for chunks of any number of objects, any number of   *)
(* them, any limits its constructor admits, and whatever its Allocator and *)
(* Deallocator call.  First the doubly linked lists, as functions; then    *)
(* what each operation makes of a sound heap; then the steps.              *)
(***************************************************************************)
EXTENDS PrimitiveHeap, FiniteSetTheorems, WellFoundedInduction, TLAPS

\* Writing to the headers of chunks outside of a list leaves the list alone.
LEMMA ListFrame ==
  ASSUME NEW S \in SUBSET Chunks, NEW root,
         NEW n1, NEW p1, NEW n2, NEW p2, IsList(root, n1, p1, S),
         \A c \in S : n1[c] = n2[c] /\ p1[c] = p2[c]
  PROVE  IsList(root, n2, p2, S)
BY ChunksAssumption DEF IsList, Linked, Ends

\* addChunkToLL: the chunk becomes the root.
LEMMA ListAdd ==
  ASSUME NEW S \in SUBSET Chunks, NEW root, NEW c \in Chunks \ S,
         NEW n \in [Chunks -> Pointers], NEW p \in [Chunks -> Pointers],
         IsList(root, n, p, S)
  PROVE  IsList(c, [n EXCEPT ![c] = root],
                IF root = NULL THEN [p EXCEPT ![c] = NULL] ELSE [p EXCEPT ![c] = NULL, ![root] = c],
                S \cup {c})
<1> DEFINE n2 == [n EXCEPT ![c] = root]
           p2 == IF root = NULL THEN [p EXCEPT ![c] = NULL] ELSE [p EXCEPT ![c] = NULL, ![root] = c]
<1>1. /\ root \in S \cup {NULL} /\ (root = NULL => S = {}) /\ NULL \notin Chunks
      /\ n2[c] = root /\ p2[c] = NULL
      /\ \A d \in S : n2[d] = n[d] /\ p2[d] = (IF d = root THEN c ELSE p[d])
  BY ChunksAssumption DEF IsList, Linked
<1> HIDE DEF n2, p2
<1>2. Linked(c, n2, p2, S \cup {c})
  BY <1>1 DEF IsList, Linked
<1>3. ASSUME NEW ring \in SUBSET (S \cup {c}), ring # {}
      PROVE  \E d \in ring : n2[d] \notin ring
  <2>1. CASE ring \subseteq {c}
    BY <1>1, <1>3, <2>1
  <2>2. CASE ~(ring \subseteq {c})
    <3>1. PICK d \in ring \ {c} : n[d] \notin ring \ {c}
      BY <2>2 DEF IsList, Ends
    <3> QED BY <1>1, <3>1 DEF IsList, Linked
  <2> QED BY <2>1, <2>2
<1> QED BY <1>2, <1>3 DEF IsList, Ends, n2, p2

\* removeChunkFromLL: the neighbours become one another's, or the next chunk the root.
LEMMA ListRemove ==
  ASSUME NEW S \in SUBSET Chunks, NEW root, NEW c \in S,
         NEW n \in [Chunks -> Pointers], NEW p \in [Chunks -> Pointers],
         IsList(root, n, p, S)
  PROVE  IsList(IF p[c] = NULL THEN n[c] ELSE root,
                IF p[c] = NULL THEN n ELSE [n EXCEPT ![p[c]] = n[c]],
                IF n[c] = NULL THEN p ELSE [p EXCEPT ![n[c]] = p[c]],
                S \ {c})
<1> DEFINE r2 == IF p[c] = NULL THEN n[c] ELSE root
           n2 == IF p[c] = NULL THEN n ELSE [n EXCEPT ![p[c]] = n[c]]
           p2 == IF n[c] = NULL THEN p ELSE [p EXCEPT ![n[c]] = p[c]]
<1>1. /\ NULL \notin Chunks
      /\ n[c] \in S \cup {NULL} /\ p[c] \in S \cup {NULL}
      /\ \A d \in S : /\ n2[d] = (IF d = p[c] THEN n[c] ELSE n[d])
                      /\ p2[d] = (IF d = n[c] THEN p[c] ELSE p[d])
  BY ChunksAssumption DEF IsList, Linked
<1>2. n[c] # c /\ p[c] # c
  <2>1. \E d \in {c} : n[d] \notin {c}
    BY DEF IsList, Ends
  <2> QED BY <2>1, <1>1 DEF IsList, Linked
<1> HIDE DEF n2, p2
<1>3. Linked(r2, n2, p2, S \ {c})
  <2>1. r2 \in (S \ {c}) \cup {NULL} /\ (r2 = NULL => S \ {c} = {})
    <3>1. CASE p[c] = NULL
      <4>1. c = root
        BY <3>1 DEF IsList, Linked
      <4>2. ASSUME n[c] = NULL, NEW d \in S \ {c} PROVE FALSE
        <5> DEFINE T == S \ {c}
                   f == [e \in T |-> p[e]]
        <5>1. \A e \in T : p[e] \in T /\ n[p[e]] = e
          BY <1>1, <4>1, <4>2 DEF IsList, Linked
        <5>2. f \in Injection(T, T)
          BY <5>1 DEF Injection, IsInjective
        <5>3. IsFiniteSet(T)
          BY ChunksAssumption, FS_Subset
        <5>4. f \in Surjection(T, T)
          BY <5>2, <5>3, FS_Injection
        <5>5. \A e \in T : \E g \in T : p[g] = e
          BY <5>4 DEF Surjection
        <5>6. \E e \in T : n[e] \notin T
          BY <4>2 DEF IsList, Ends
        <5> QED BY <5>1, <5>5, <5>6
      <4> QED BY <1>1, <1>2, <3>1, <4>2
    <3>2. CASE p[c] # NULL
      BY <1>1, <3>2 DEF IsList, Linked
    <3> QED BY <3>1, <3>2
  <2>2. ASSUME NEW d \in S \ {c}
        PROVE  /\ n2[d] \in (S \ {c}) \cup {NULL}
               /\ n2[d] # NULL => p2[n2[d]] = d
               /\ p2[d] = NULL <=> d = r2
               /\ p2[d] # NULL => p2[d] \in S \ {c} /\ n2[p2[d]] = d
    <3>1. /\ n[d] \in S \cup {NULL} /\ p[d] \in S \cup {NULL}
          /\ n[d] # NULL => p[n[d]] = d
          /\ p[d] # NULL => n[p[d]] = d
          /\ n[c] # NULL => p[n[c]] = c
          /\ p[c] # NULL => n[p[c]] = c
          /\ (p[d] = NULL <=> d = root) /\ (p[c] = NULL <=> c = root)
      BY <1>1 DEF IsList, Linked
    <3>2. (n[d] = c <=> d = p[c]) /\ (p[d] = c <=> d = n[c])
      BY <1>1, <3>1
    <3>3. n2[d] \in (S \ {c}) \cup {NULL} /\ (p2[d] # NULL => p2[d] \in S \ {c})
      BY <1>1, <1>2, <3>1, <3>2
    <3>4. n2[d] # NULL => p2[n2[d]] = d
      BY <1>1, <1>2, <3>1, <3>2, <3>3
    <3>5. p2[d] # NULL => n2[p2[d]] = d
      BY <1>1, <1>2, <3>1, <3>2, <3>3
    <3>6. p2[d] = NULL <=> d = r2
      BY <1>1, <1>2, <3>1, <3>2
    <3> QED BY <3>3, <3>4, <3>5, <3>6
  <2> QED BY <2>1, <2>2 DEF Linked
<1>4. ASSUME NEW ring \in SUBSET (S \ {c}), ring # {}
      PROVE  \E d \in ring : n2[d] \notin ring
  <2>1. CASE p[c] \in ring
    <3>1. PICK d \in ring \cup {c} : n[d] \notin ring \cup {c}
      BY <1>4 DEF IsList, Ends
    <3> QED BY <1>1, <2>1, <3>1 DEF IsList, Linked
  <2>2. CASE p[c] \notin ring
    <3>1. PICK d \in ring : n[d] \notin ring
      BY <1>4 DEF IsList, Ends
    <3> QED BY <1>1, <2>2, <3>1
  <2> QED BY <2>1, <2>2
<1> QED BY <1>3, <1>4 DEF IsList, Ends, n2, p2
-----------------------------------------------------------------------------
(***************************************************************************)
(* The two lists of a heap, in the middle of an operation too, when a      *)
(* chunk is on none or not yet on the one it belongs to: M is what they    *)
(* hold.                                                                   *)
(***************************************************************************)
Holds(h, M) ==
  /\ M["empty"] \in SUBSET Chunks /\ M["nonempty"] \in SUBSET Chunks
  /\ M["empty"] \cap M["nonempty"] = {}
  /\ \A list \in Lists : IsList(h.root[list], h.next, h.prev, M[list])

\* The list operations write to roots and links only, and only pointers.
LEMMA AddKeeps ==
  ASSUME NEW h \in Heaps, NEW c \in Chunks, NEW list \in Lists
  PROVE  LET g == AddChunkToLL(h, c, list)
         IN  /\ g \in Heaps
             /\ g.bits = h.bits /\ g.avail = h.avail /\ g.total = h.total
             /\ g.lockCnt = h.lockCnt /\ g.owned = h.owned /\ g.taken = h.taken
BY DEF AddChunkToLL, Heaps, Pointers, Lists

\* The same of removeChunkFromLL.
LEMMA RemoveKeeps ==
  ASSUME NEW h \in Heaps, NEW c \in Chunks, NEW list \in Lists
  PROVE  LET g == RemoveChunkFromLL(h, c, list)
         IN  /\ g \in Heaps
             /\ g.bits = h.bits /\ g.avail = h.avail /\ g.total = h.total
             /\ g.lockCnt = h.lockCnt /\ g.owned = h.owned /\ g.taken = h.taken
BY DEF RemoveChunkFromLL, Heaps, Pointers, Lists

\* addChunkToLL puts a chunk that is on neither list on one of them.
LEMMA AddHolds ==
  ASSUME NEW h \in Heaps, NEW M \in [Lists -> SUBSET Chunks], Holds(h, M),
         NEW list \in Lists, NEW c \in Chunks, c \notin M["empty"] \cup M["nonempty"]
  PROVE  Holds(AddChunkToLL(h, c, list), [M EXCEPT ![list] = @ \cup {c}])
<1> DEFINE g == AddChunkToLL(h, c, list)
           first == h.root[list]
<1>1. /\ g.root = [h.root EXCEPT ![list] = c]
      /\ g.next = [h.next EXCEPT ![c] = first]
      /\ g.prev = (IF first = NULL THEN [h.prev EXCEPT ![c] = NULL]
                   ELSE [h.prev EXCEPT ![c] = NULL, ![first] = c])
  BY DEF AddChunkToLL, Heaps, Pointers, Lists
<1>2. h.next \in [Chunks -> Pointers] /\ h.prev \in [Chunks -> Pointers] /\ h.root \in [Lists -> Pointers]
  BY DEF Heaps
<1> HIDE DEF g
<1>3. IsList(c, g.next, g.prev, M[list] \cup {c})
  <2>1. M[list] \in SUBSET Chunks /\ c \in Chunks \ M[list]
    BY DEF Lists
  <2>2. IsList(first, h.next, h.prev, M[list])
    BY DEF Holds
  <2>3. IsList(c, [h.next EXCEPT ![c] = first],
               IF first = NULL THEN [h.prev EXCEPT ![c] = NULL]
               ELSE [h.prev EXCEPT ![c] = NULL, ![first] = c], M[list] \cup {c})
    BY <1>2, <2>1, <2>2, ListAdd, Zenon
  <2> QED BY <1>1, <2>3, Zenon
<1>4. ASSUME NEW l \in Lists, l # list PROVE IsList(g.root[l], g.next, g.prev, M[l])
  <2>1. first \in M[list] \cup {NULL} /\ M[list] \cap M[l] = {}
    BY <1>4 DEF Holds, IsList, Linked, Lists
  <2>2. \A d \in M[l] : h.next[d] = g.next[d] /\ h.prev[d] = g.prev[d]
    BY <1>1, <1>2, <1>4, <2>1 DEF Lists
  <2>3. IsList(h.root[l], h.next, h.prev, M[l]) /\ g.root[l] = h.root[l]
    BY <1>1, <1>2, <1>4 DEF Holds
  <2> QED BY <2>2, <2>3, ListFrame
<1>5. g.root[list] = c
  BY <1>1, <1>2
<1>6. \A l \in Lists : IsList(g.root[l], g.next, g.prev, [M EXCEPT ![list] = @ \cup {c}][l])
  BY <1>3, <1>4, <1>5
<1> QED BY <1>6 DEF Holds, g, Lists

\* removeChunkFromLL takes a chunk from the list it is on.
LEMMA RemoveHolds ==
  ASSUME NEW h \in Heaps, NEW M \in [Lists -> SUBSET Chunks], Holds(h, M),
         NEW list \in Lists, NEW c \in M[list]
  PROVE  Holds(RemoveChunkFromLL(h, c, list), [M EXCEPT ![list] = @ \ {c}])
<1> DEFINE g == RemoveChunkFromLL(h, c, list)
           before == h.prev[c]
           after == h.next[c]
<1>1. /\ g.root = [h.root EXCEPT ![list] = IF before = NULL THEN after ELSE @]
      /\ g.next = (IF before = NULL THEN h.next ELSE [h.next EXCEPT ![before] = after])
      /\ g.prev = (IF after = NULL THEN h.prev ELSE [h.prev EXCEPT ![after] = before])
  BY DEF RemoveChunkFromLL, Heaps, Pointers, Lists
<1>2. h.next \in [Chunks -> Pointers] /\ h.prev \in [Chunks -> Pointers] /\ h.root \in [Lists -> Pointers]
  BY DEF Heaps
<1> HIDE DEF g
<1>3. IsList(g.root[list], g.next, g.prev, M[list] \ {c})
  <2>1. g.root[list] = IF before = NULL THEN after ELSE h.root[list]
    BY <1>1, <1>2
  <2>2. IsList(h.root[list], h.next, h.prev, M[list]) /\ M[list] \in SUBSET Chunks
    BY DEF Holds
  <2>3. IsList(IF before = NULL THEN after ELSE h.root[list],
               IF before = NULL THEN h.next ELSE [h.next EXCEPT ![before] = after],
               IF after = NULL THEN h.prev ELSE [h.prev EXCEPT ![after] = before], M[list] \ {c})
    BY <1>2, <2>2, ListRemove, Zenon
  <2> QED BY <1>1, <2>1, <2>3, Zenon
<1>4. ASSUME NEW l \in Lists, l # list PROVE IsList(g.root[l], g.next, g.prev, M[l])
  <2>1. before \in M[list] \cup {NULL} /\ after \in M[list] \cup {NULL} /\ M[list] \cap M[l] = {}
    BY <1>4 DEF Holds, IsList, Linked, Lists
  <2>2. \A d \in M[l] : h.next[d] = g.next[d] /\ h.prev[d] = g.prev[d]
    BY <1>1, <1>2, <1>4, <2>1
  <2>3. IsList(h.root[l], h.next, h.prev, M[l]) /\ g.root[l] = h.root[l]
    BY <1>1, <1>2, <1>4 DEF Holds
  <2> QED BY <2>2, <2>3, ListFrame
<1>5. \A l \in Lists : IsList(g.root[l], g.next, g.prev, [M EXCEPT ![list] = @ \ {c}][l])
  BY <1>3, <1>4
<1> QED BY <1>5 DEF Holds, g, Lists
-----------------------------------------------------------------------------
(***************************************************************************)
(* What a heap is between the operations, and what each makes of it.       *)
(***************************************************************************)
HeapSound(h) == h \in Heaps /\ Conserves(h) /\ Counts(h) /\ Sorted(h)

Belongs(h) == [list \in Lists |-> Members(h, list)]

\* In those terms: a sorted heap holds what belongs on its lists.
LEMMA SortedHolds ==
  ASSUME NEW h \in Heaps
  PROVE  Belongs(h) \in [Lists -> SUBSET Chunks] /\ (Sorted(h) <=> Holds(h, Belongs(h)))
<1>1. Members(h, "empty") \in SUBSET Chunks /\ Members(h, "nonempty") \in SUBSET Chunks
  BY DEF Members, Heaps
<1>2. Members(h, "empty") \cap Members(h, "nonempty") = {}
  BY ConstructorAssumption DEF Members
<1> QED BY <1>1, <1>2 DEF Belongs, Holds, Sorted, Lists

\* A chunk has ELength objects, and there are finitely many chunks.
LEMMA UnitsFinite ==
  /\ IsFiniteSet(Indices) /\ Cardinality(Indices) = ELength
  /\ \A h \in Heaps : IsFiniteSet(Available(h))
  /\ \A c \in Chunks : /\ IsFiniteSet({c} \X Indices)
                       /\ Cardinality({c} \X Indices) = ELength
<1>1. IsFiniteSet(Indices) /\ Cardinality(Indices) = ELength
  BY FS_Interval, ConstructorAssumption DEF Indices
<1>2. IsFiniteSet(Chunks \X Indices)
  BY <1>1, FS_Product, ChunksAssumption
<1>3. \A h \in Heaps : IsFiniteSet(Available(h))
  BY <1>2, FS_Subset DEF Available
<1>4. ASSUME NEW c \in Chunks
      PROVE  IsFiniteSet({c} \X Indices) /\ Cardinality({c} \X Indices) = ELength
  <2>1. IsFiniteSet({c}) /\ Cardinality({c}) = 1
    BY FS_Singleton
  <2> QED BY <1>1, <2>1, FS_Product, ConstructorAssumption
<1> QED BY <1>1, <1>3, <1>4

\* A chunk that joins the heap brings ELength objects, none of them taken.
LEMMA EmbraceKeeps ==
  ASSUME NEW h, HeapSound(h), NEW c \in Chunks \ h.owned
  PROVE  LET g == Embrace(h, c)
         IN  HeapSound(g) /\ g.total = h.total + ELength /\ g.lockCnt = h.lockCnt
<1> DEFINE h1 == [h EXCEPT !.bits[c] = Indices, !.avail[c] = ELength,
                           !.total = @ + ELength, !.owned = @ \cup {c}]
           g == Embrace(h, c)
<1>1. h \in Heaps /\ ELength \in Nat /\ ELength > 1
  BY ConstructorAssumption DEF HeapSound
<1>2. /\ h1 \in Heaps
      /\ h1.root = h.root /\ h1.next = h.next /\ h1.prev = h.prev
      /\ h1.bits = [h.bits EXCEPT ![c] = Indices] /\ h1.avail = [h.avail EXCEPT ![c] = ELength]
      /\ h1.total = h.total + ELength /\ h1.lockCnt = h.lockCnt
      /\ h1.owned = h.owned \cup {c} /\ h1.taken = h.taken
  <2>1. /\ h.bits \in [Chunks -> SUBSET Indices] /\ h.avail \in [Chunks -> 0 .. ELength]
        /\ h.total \in Nat /\ h.owned \in SUBSET Chunks
    BY <1>1 DEF Heaps
  <2>2. /\ [h.bits EXCEPT ![c] = Indices] \in [Chunks -> SUBSET Indices]
        /\ [h.avail EXCEPT ![c] = ELength] \in [Chunks -> 0 .. ELength]
        /\ h.total + ELength \in Nat /\ h.owned \cup {c} \in SUBSET Chunks
    BY <1>1, <2>1
  <2> QED BY <1>1, <2>2 DEF Heaps
<1> HIDE DEF h1
<1>3. g = AddChunkToLL(h1, c, "empty")
  BY DEF Embrace, h1
<1> HIDE DEF g
<1>4. /\ g \in Heaps /\ g.bits = h1.bits /\ g.avail = h1.avail /\ g.total = h1.total
      /\ g.lockCnt = h1.lockCnt /\ g.owned = h1.owned /\ g.taken = h1.taken
  BY <1>2, <1>3, AddKeeps DEF Lists
<1>5. Sorted(g)
  <2>1. Holds(h1, Belongs(h)) /\ Belongs(h) \in [Lists -> SUBSET Chunks]
    BY <1>1, <1>2, SortedHolds DEF HeapSound, Holds
  <2>2. c \notin Belongs(h)["empty"] \cup Belongs(h)["nonempty"]
    BY DEF Belongs, Members, Lists
  <2>3. Holds(g, [Belongs(h) EXCEPT !["empty"] = @ \cup {c}])
    BY <1>2, <1>3, <2>1, <2>2, AddHolds DEF Lists
  <2>4. Belongs(g) = [Belongs(h) EXCEPT !["empty"] = @ \cup {c}]
    <3>1. Members(g, "empty") = Members(h, "empty") \cup {c}
      BY <1>1, <1>2, <1>4 DEF Members, Heaps
    <3>2. Members(g, "nonempty") = Members(h, "nonempty")
      BY <1>1, <1>2, <1>4 DEF Members, Heaps
    <3> QED BY <3>1, <3>2 DEF Belongs, Lists
  <2> QED BY <1>4, <2>3, <2>4, SortedHolds
<1>6. Counts(g)
  <2>1. /\ Counts(h) /\ \A i \in Indices : i \notin h.bits[c]
        /\ g.bits = [h.bits EXCEPT ![c] = Indices] /\ h.bits \in [Chunks -> SUBSET Indices]
    BY <1>1, <1>2, <1>4 DEF HeapSound, Conserves, Heaps
  <2>2. Available(g) = Available(h) \cup ({c} \X Indices) /\ Available(h) \cap ({c} \X Indices) = {}
    BY <2>1 DEF Available
  <2>3. Cardinality(Available(g)) = Cardinality(Available(h)) + ELength
    <3>1. IsFiniteSet(Available(h)) /\ IsFiniteSet({c} \X Indices) /\ Cardinality({c} \X Indices) = ELength
      BY <1>1, UnitsFinite
    <3>2. Cardinality(Available(h)) \in Nat
      BY <3>1, FS_CardinalityType
    <3>3. Cardinality(Available(h) \cup ({c} \X Indices))
             = Cardinality(Available(h)) + Cardinality({c} \X Indices)
               - Cardinality(Available(h) \cap ({c} \X Indices))
      BY <3>1, FS_Union
    <3>4. Cardinality(Available(h) \cap ({c} \X Indices)) = 0
      BY <2>2, FS_EmptySet
    <3> QED BY <1>1, <2>2, <3>1, <3>2, <3>3, <3>4
  <2>4. \A d \in Chunks : g.avail[d] = Cardinality(g.bits[d])
    BY <1>1, <1>2, <1>4, <2>1, UnitsFinite DEF Counts, Heaps
  <2> QED BY <1>2, <1>4, <2>1, <2>3, <2>4 DEF Counts
<1>7. Conserves(g)
  <2>1. Conserves(h) /\ h.bits \in [Chunks -> SUBSET Indices]
    BY <1>1 DEF HeapSound, Heaps
  <2>2. ASSUME NEW d \in Chunks, NEW i \in Indices, d # c
        PROVE  g.bits[d] = h.bits[d] /\ (d \in g.owned <=> d \in h.owned)
    BY <1>2, <1>4, <2>1, <2>2
  <2>3. g.bits[c] = Indices /\ c \in g.owned /\ g.taken = h.taken
    BY <1>2, <1>4, <2>1
  <2>4. \A i \in Indices : <<c, i>> \notin h.taken
    BY <2>1 DEF Conserves
  <2>5. ASSUME NEW d \in Chunks, NEW i \in Indices
        PROVE  IF d \in g.owned THEN (i \in g.bits[d]) # (<<d, i>> \in g.taken)
               ELSE i \notin g.bits[d] /\ <<d, i>> \notin g.taken
    <3>1. CASE d = c
      BY <2>3, <2>4, <3>1
    <3>2. CASE d # c
      BY <2>1, <2>2, <2>3, <3>2 DEF Conserves
    <3> QED BY <3>1, <3>2
  <2> QED BY <2>5 DEF Conserves
<1> QED BY <1>2, <1>4, <1>5, <1>6, <1>7 DEF HeapSound, g

\* An object that changes hands: from the bitmap to a caller...
LEMMA TakeCounts ==
  ASSUME NEW h \in Heaps, NEW g \in Heaps, Conserves(h), Counts(h),
         NEW c \in h.owned, NEW i \in h.bits[c],
         g.bits = [h.bits EXCEPT ![c] = @ \ {i}], g.avail = [h.avail EXCEPT ![c] = @ - 1],
         g.total = h.total - 1, g.owned = h.owned, g.taken = h.taken \cup {<<c, i>>}
  PROVE  Conserves(g) /\ Counts(g)
<1>1. /\ c \in Chunks /\ h.bits \in [Chunks -> SUBSET Indices] /\ i \in Indices
      /\ h.avail \in [Chunks -> 0 .. ELength] /\ IsFiniteSet(h.bits[c])
  <2>1. c \in Chunks /\ h.bits \in [Chunks -> SUBSET Indices] /\ h.avail \in [Chunks -> 0 .. ELength]
    BY DEF Heaps
  <2> QED BY <2>1, UnitsFinite, FS_Subset
<1>2. ASSUME NEW d \in Chunks, NEW k \in Indices
      PROVE  IF d \in g.owned THEN (k \in g.bits[d]) # (<<d, k>> \in g.taken)
             ELSE k \notin g.bits[d] /\ <<d, k>> \notin g.taken
  <2>1. IF d \in h.owned THEN (k \in h.bits[d]) # (<<d, k>> \in h.taken)
        ELSE k \notin h.bits[d] /\ <<d, k>> \notin h.taken
    BY DEF Conserves
  <2>2. CASE d = c /\ k = i
    BY <1>1, <2>1, <2>2
  <2>3. CASE d # c \/ k # i
    <3>1. (k \in g.bits[d] <=> k \in h.bits[d]) /\ (<<d, k>> \in g.taken <=> <<d, k>> \in h.taken)
      BY <1>1, <2>3
    <3> QED BY <2>1, <3>1
  <2> QED BY <2>2, <2>3
<1>3. Cardinality(h.bits[c] \ {i}) = Cardinality(h.bits[c]) - 1
  BY <1>1, FS_RemoveElement
<1>4. \A d \in Chunks : g.avail[d] = Cardinality(g.bits[d])
  BY <1>1, <1>3 DEF Counts
<1>5. Available(g) = Available(h) \ {<<c, i>>} /\ <<c, i>> \in Available(h)
  BY <1>1 DEF Available
<1>6. Cardinality(Available(g)) = Cardinality(Available(h)) - 1
  BY <1>5, UnitsFinite, FS_RemoveElement
<1> QED BY <1>2, <1>4, <1>6 DEF Counts, Conserves

\* ... and back.
LEMMA GiveCounts ==
  ASSUME NEW h \in Heaps, NEW g \in Heaps, Conserves(h), Counts(h),
         NEW c, NEW i, <<c, i>> \in h.taken,
         g.bits = [h.bits EXCEPT ![c] = @ \cup {i}], g.avail = [h.avail EXCEPT ![c] = @ + 1],
         g.total = h.total + 1, g.owned = h.owned, g.taken = h.taken \ {<<c, i>>}
  PROVE  Conserves(g) /\ Counts(g)
<1>1. /\ c \in Chunks /\ h.bits \in [Chunks -> SUBSET Indices] /\ i \in Indices
      /\ h.avail \in [Chunks -> 0 .. ELength] /\ IsFiniteSet(h.bits[c])
      /\ c \in h.owned /\ i \notin h.bits[c]
  <2>1. /\ h.taken \in SUBSET (Chunks \X Indices) /\ h.bits \in [Chunks -> SUBSET Indices]
        /\ h.avail \in [Chunks -> 0 .. ELength]
    BY DEF Heaps
  <2>2. c \in Chunks /\ i \in Indices
    BY <2>1
  <2> QED BY <2>1, <2>2, UnitsFinite, FS_Subset DEF Conserves
<1>2. ASSUME NEW d \in Chunks, NEW k \in Indices
      PROVE  IF d \in g.owned THEN (k \in g.bits[d]) # (<<d, k>> \in g.taken)
             ELSE k \notin g.bits[d] /\ <<d, k>> \notin g.taken
  <2>1. IF d \in h.owned THEN (k \in h.bits[d]) # (<<d, k>> \in h.taken)
        ELSE k \notin h.bits[d] /\ <<d, k>> \notin h.taken
    BY DEF Conserves
  <2>2. CASE d = c /\ k = i
    BY <1>1, <2>1, <2>2
  <2>3. CASE d # c \/ k # i
    <3>1. (k \in g.bits[d] <=> k \in h.bits[d]) /\ (<<d, k>> \in g.taken <=> <<d, k>> \in h.taken)
      BY <1>1, <2>3
    <3> QED BY <2>1, <3>1
  <2> QED BY <2>2, <2>3
<1>3. Cardinality(h.bits[c] \cup {i}) = Cardinality(h.bits[c]) + 1
  BY <1>1, FS_AddElement
<1>4. \A d \in Chunks : g.avail[d] = Cardinality(g.bits[d])
  BY <1>1, <1>3 DEF Counts
<1>5. Available(g) = Available(h) \cup {<<c, i>>} /\ <<c, i>> \notin Available(h)
  BY <1>1 DEF Available
<1>6. Cardinality(Available(g)) = Cardinality(Available(h)) + 1
  BY <1>5, UnitsFinite, FS_AddElement, ZenonT(40)
<1> QED BY <1>2, <1>4, <1>6 DEF Counts, Conserves

\* The first available object is one of the available objects.
LEMMA FirstBitIn ==
  ASSUME NEW bits \in SUBSET Indices, bits # {}
  PROVE  FirstBit(bits) \in bits
<1>1. bits \in SUBSET Nat
  BY ConstructorAssumption DEF Indices
<1> DEFINE Below == {0 .. i : i \in bits}
           R == {xy \in (SUBSET Indices) \X (SUBSET Indices) : xy[1] \subseteq xy[2] /\ xy[1] # xy[2]}
<1>2. IsWellFoundedOn(R, SUBSET Indices)
  <2>1. FiniteSubsetsOf(Indices) = SUBSET Indices
    BY UnitsFinite, FS_FiniteSubsetsOfFinite
  <2>2. StrictSubsetOrdering(Indices) = R
    BY DEF StrictSubsetOrdering
  <2> QED BY <2>1, <2>2, FS_StrictSubsetOrderingWellFounded
<1>3. Below \subseteq SUBSET Indices /\ Below # {}
  <2>1. \A i \in bits : 0 .. i \in SUBSET Indices
    BY <1>1, ConstructorAssumption DEF Indices
  <2> QED BY <2>1
<1> HIDE DEF R, Below
<1>4. \E x \in Below : \A y \in Below : ~ (<<y, x>> \in R)
  BY <1>2, <1>3, WFMin
<1>5. \E i \in bits : \A j \in bits : i <= j
  <2>1. PICK i \in bits : \A j \in bits : ~ (<<0 .. j, 0 .. i>> \in R)
    BY <1>4 DEF Below
  <2>2. ASSUME NEW j \in bits, ~(i <= j) PROVE FALSE
    <3>1. 0 .. j \subseteq 0 .. i /\ i \in 0 .. i /\ i \notin 0 .. j
      BY <1>1, <2>2
    <3>2. 0 .. i \in SUBSET Indices /\ 0 .. j \in SUBSET Indices
      BY ConstructorAssumption DEF Indices
    <3> QED BY <2>1, <3>1, <3>2 DEF R
  <2> QED BY <2>2
<1> QED BY <1>5 DEF FirstBit

\* A sound heap with available objects has a chunk on one of its lists; alloc()
\* finds one on the nonempty list, moved there if need be.
LEMMA WithNonemptyHolds ==
  ASSUME NEW h, HeapSound(h), h.total > 0
  PROVE  LET g == WithNonempty(h)
             c == g.root["nonempty"]
         IN  /\ h.root["nonempty"] = NULL => h.root["empty"] # NULL
             /\ g \in Heaps
             /\ g.bits = h.bits /\ g.avail = h.avail /\ g.total = h.total
             /\ g.lockCnt = h.lockCnt /\ g.owned = h.owned /\ g.taken = h.taken
             /\ c \in h.owned /\ h.avail[c] >= 1
             /\ Holds(g, [list \in Lists |-> IF list = "empty" THEN Members(h, list) \ {c}
                                             ELSE Members(h, list) \cup {c}])
<1> DEFINE g == WithNonempty(h)
           c == g.root["nonempty"]
           M == Belongs(h)
<1>1. /\ h \in Heaps /\ Holds(h, M) /\ M \in [Lists -> SUBSET Chunks]
      /\ h.root \in [Lists -> Pointers] /\ h.bits \in [Chunks -> SUBSET Indices]
      /\ h.avail \in [Chunks -> 0 .. ELength] /\ NULL \notin Chunks /\ ELength > 1
  BY SortedHolds, ChunksAssumption, ConstructorAssumption DEF HeapSound, Heaps
<1>2. \A list \in Lists : /\ h.root[list] \in M[list] \cup {NULL}
                          /\ h.root[list] = NULL => M[list] = {}
  BY <1>1 DEF Holds, IsList, Linked
<1>3. h.root["nonempty"] = NULL => h.root["empty"] # NULL
  <2>1. h.total = Cardinality(Available(h))
    BY DEF HeapSound, Counts
  <2>10. Available(h) # {}
    BY <2>1, FS_EmptySet
  <2>2. PICK d \in Chunks : h.bits[d] # {}
    BY <2>10 DEF Available
  <2>3. IsFiniteSet(h.bits[d])
    BY <1>1, UnitsFinite, FS_Subset
  <2>4. h.avail[d] # 0
    BY <1>1, <2>2, <2>3, FS_EmptySet DEF HeapSound, Counts
  <2>5. d \in h.owned
    BY <1>1, <2>2 DEF HeapSound, Conserves
  <2>6. d \in Members(h, "empty") \/ d \in Members(h, "nonempty")
    BY <1>1, <2>4, <2>5, ConstructorAssumption DEF Members
  <2> QED BY <1>2, <2>6 DEF Belongs, Lists
<1>4. CASE h.root["nonempty"] # NULL
  <2>1. g = h /\ c \in Members(h, "nonempty")
    BY <1>1, <1>2, <1>4 DEF WithNonempty, Belongs, Lists
  <2>2. c \in h.owned /\ h.avail[c] >= 1 /\ c \notin Members(h, "empty")
    BY <1>1, <2>1, ConstructorAssumption DEF Members
  <2>3. M = [list \in Lists |-> IF list = "empty" THEN Members(h, list) \ {c}
                                ELSE Members(h, list) \cup {c}]
    BY <2>1, <2>2 DEF Belongs, Lists
  <2> QED BY <1>1, <1>3, <2>1, <2>2, <2>3
<1>5. CASE h.root["nonempty"] = NULL
  <2> DEFINE e == h.root["empty"]
             h1 == RemoveChunkFromLL(h, e, "empty")
             M1 == [M EXCEPT !["empty"] = @ \ {e}]
             M2 == [M1 EXCEPT !["nonempty"] = @ \cup {e}]
  <2>1. e \in M["empty"] /\ e \in Chunks /\ e \in Members(h, "empty")
    BY <1>1, <1>2, <1>3, <1>5 DEF Lists, Belongs
  <2>2. h1 \in Heaps /\ h1.bits = h.bits /\ h1.avail = h.avail /\ h1.total = h.total
        /\ h1.lockCnt = h.lockCnt /\ h1.owned = h.owned /\ h1.taken = h.taken
    BY <1>1, <2>1, RemoveKeeps DEF Lists
  <2>3. Holds(h1, M1) /\ M1 \in [Lists -> SUBSET Chunks]
    BY <1>1, <2>1, RemoveHolds DEF Lists
  <2> HIDE DEF h1
  <2>4. g = AddChunkToLL(h1, e, "nonempty")
    BY <1>5 DEF WithNonempty, h1
  <2>5. e \notin M1["empty"] \cup M1["nonempty"]
    BY <1>1, <2>1 DEF Holds, Lists
  <2>6. Holds(g, M2)
    <3>1. "nonempty" \in Lists
      BY DEF Lists
    <3> HIDE DEF M1, M, e, g
    <3> QED BY <2>1, <2>2, <2>3, <2>4, <2>5, <3>1, AddHolds
  <2>7. g \in Heaps /\ g.bits = h.bits /\ g.avail = h.avail /\ g.total = h.total
        /\ g.lockCnt = h.lockCnt /\ g.owned = h.owned /\ g.taken = h.taken
    BY <2>1, <2>2, <2>4, AddKeeps DEF Lists
  <2>8. c = e
    BY <2>2, <2>4 DEF AddChunkToLL, Heaps, Lists
  <2>9. e \in h.owned /\ h.avail[e] >= 1
    BY <1>1, <2>1 DEF Members
  <2>10. M2 = [list \in Lists |-> IF list = "empty" THEN Members(h, list) \ {e}
                                  ELSE Members(h, list) \cup {e}]
    BY <1>1 DEF Belongs, Lists
  <2> QED BY <1>3, <2>6, <2>7, <2>8, <2>9, <2>10
<1> QED BY <1>4, <1>5

\* Heaps that differ in their links only have the same objects.
LEMMA SameUnits ==
  ASSUME NEW h, NEW g, Conserves(h), Counts(h),
         g.bits = h.bits, g.avail = h.avail, g.total = h.total, g.owned = h.owned, g.taken = h.taken
  PROVE  Conserves(g) /\ Counts(g)
BY DEF Conserves, Counts, Available

\* alloc() of a heap with available objects fails no kassert and takes one of them,
\* and leaves a heap as sound as it was.
LEMMA TakeKeeps ==
  ASSUME NEW h, HeapSound(h), h.total > 0
  PROVE  LET g == TakeUnit(h)
         IN  CanTake(h) /\ HeapSound(g) /\ g.total = h.total - 1 /\ g.lockCnt = h.lockCnt
<1> DEFINE g0 == WithNonempty(h)
           c == g0.root["nonempty"]
           i == FirstBit(h.bits[c])
           g1 == [g0 EXCEPT !.bits[c] = @ \ {i}, !.avail[c] = @ - 1,
                            !.total = @ - 1, !.taken = @ \cup {<<c, i>>}]
           g == TakeUnit(h)
           N == [list \in Lists |-> IF list = "empty" THEN Members(h, list) \ {c}
                                    ELSE Members(h, list) \cup {c}]
<1>1. /\ h.root["nonempty"] = NULL => h.root["empty"] # NULL
      /\ g0 \in Heaps
      /\ g0.bits = h.bits /\ g0.avail = h.avail /\ g0.total = h.total
      /\ g0.lockCnt = h.lockCnt /\ g0.owned = h.owned /\ g0.taken = h.taken
      /\ c \in h.owned /\ h.avail[c] >= 1
      /\ Holds(g0, N)
  BY WithNonemptyHolds
<1>2. /\ h \in Heaps /\ c \in Chunks
      /\ h.bits \in [Chunks -> SUBSET Indices] /\ h.avail \in [Chunks -> 0 .. ELength]
      /\ h.total \in Nat /\ h.owned \in SUBSET Chunks /\ h.taken \in SUBSET (Chunks \X Indices)
      /\ ELength \in Nat /\ ELength > 1
  BY <1>1, ConstructorAssumption DEF HeapSound, Heaps
<1>3. h.bits[c] # {}
  <2>1. h.avail[c] = Cardinality(h.bits[c])
    BY <1>2 DEF HeapSound, Counts
  <2>2. h.avail[c] # 0
    BY <1>1
  <2> HIDE DEF c
  <2> QED BY <2>1, <2>2, FS_EmptySet
<1>4. i \in h.bits[c] /\ i \in Indices
  BY <1>2, <1>3, FirstBitIn
<1>5. CanTake(h)
  BY <1>1, <1>3 DEF CanTake
<1>6. Chosen(h) = <<c, i>>
  BY <1>1 DEF Chosen
<1>7. g = IF g1.avail[c] = 0 THEN RemoveChunkFromLL(g1, c, "nonempty") ELSE g1
  BY <1>6 DEF TakeUnit
<1> HIDE DEF g0, c, i, g, N
<1>8. /\ g1 \in Heaps
      /\ g1.root = g0.root /\ g1.next = g0.next /\ g1.prev = g0.prev
      /\ g1.bits = [h.bits EXCEPT ![c] = @ \ {i}] /\ g1.avail = [h.avail EXCEPT ![c] = @ - 1]
      /\ g1.total = h.total - 1 /\ g1.lockCnt = h.lockCnt /\ g1.owned = h.owned
      /\ g1.taken = h.taken \cup {<<c, i>>}
  <2>1. /\ [h.bits EXCEPT ![c] = @ \ {i}] \in [Chunks -> SUBSET Indices]
        /\ [h.avail EXCEPT ![c] = @ - 1] \in [Chunks -> 0 .. ELength]
        /\ h.total - 1 \in Nat /\ h.taken \cup {<<c, i>>} \in SUBSET (Chunks \X Indices)
    BY <1>1, <1>2, <1>4
  <2> QED BY <1>1, <1>2, <2>1 DEF Heaps
<1> HIDE DEF g1
<1>9. Conserves(g1) /\ Counts(g1)
  BY <1>1, <1>2, <1>4, <1>8, TakeCounts DEF HeapSound
<1>10. Holds(g1, N) /\ N \in [Lists -> SUBSET Chunks]
  <2>1. N \in [Lists -> SUBSET Chunks]
    BY <1>2 DEF N, Members
  <2> QED BY <1>1, <1>8, <2>1 DEF Holds
<1>11. g1.avail[c] = h.avail[c] - 1 /\ \A d \in Chunks \ {c} : g1.avail[d] = h.avail[d]
  BY <1>2, <1>8
<1>12. CASE g1.avail[c] = 0
  <2>1. g = RemoveChunkFromLL(g1, c, "nonempty")
    BY <1>7, <1>12
  <2>2. g \in Heaps /\ g.bits = g1.bits /\ g.avail = g1.avail /\ g.total = g1.total
        /\ g.lockCnt = g1.lockCnt /\ g.owned = g1.owned /\ g.taken = g1.taken
    BY <1>2, <1>8, <2>1, RemoveKeeps DEF Lists
  <2>3. Holds(g, [N EXCEPT !["nonempty"] = @ \ {c}])
    <3>1. "nonempty" \in Lists /\ c \in N["nonempty"]
      BY DEF N, Lists
    <3> QED BY <1>8, <1>10, <2>1, <3>1, RemoveHolds
  <2>4. Belongs(g) = [N EXCEPT !["nonempty"] = @ \ {c}]
    <3>1. Members(g, "empty") = Members(h, "empty") \ {c}
      BY <1>2, <1>8, <1>11, <1>12, <2>2 DEF Members
    <3>2. Members(g, "nonempty") = (Members(h, "nonempty") \cup {c}) \ {c}
      BY <1>2, <1>8, <1>11, <1>12, <2>2 DEF Members
    <3> QED BY <3>1, <3>2 DEF Belongs, N, Lists
  <2>5. Sorted(g)
    BY <2>2, <2>3, <2>4, SortedHolds
  <2> QED BY <1>5, <1>8, <1>9, <2>2, <2>5, SameUnits DEF HeapSound, g
<1>13. CASE g1.avail[c] # 0
  <2>1. g = g1
    BY <1>7, <1>13
  <2>2. Belongs(g) = N
    <3>1. Members(g, "empty") = Members(h, "empty") \ {c}
      BY <1>2, <1>8, <1>11, <2>1 DEF Members
    <3>2. Members(g, "nonempty") = Members(h, "nonempty") \cup {c}
      BY <1>1, <1>2, <1>8, <1>11, <1>13, <2>1 DEF Members
    <3> QED BY <3>1, <3>2 DEF Belongs, N, Lists
  <2>3. Sorted(g)
    BY <1>8, <1>10, <2>1, <2>2, SortedHolds
  <2> QED BY <1>5, <1>8, <1>9, <2>1, <2>3 DEF HeapSound, g
<1> QED BY <1>12, <1>13

\* free() gives an object back, with its chunk on the list it belongs to.
LEMMA GiveKeeps ==
  ASSUME NEW h, HeapSound(h), NEW u \in h.taken
  PROVE  LET g == GiveUnit(h, u)
         IN  HeapSound(g) /\ g.total = h.total + 1 /\ g.lockCnt = h.lockCnt
<1> DEFINE c == u[1]
           i == u[2]
           g1 == [h EXCEPT !.bits[c] = @ \cup {i}, !.avail[c] = @ + 1,
                           !.total = @ + 1, !.taken = @ \ {u}]
           l == IF g1.avail[c] = 1 THEN AddChunkToLL(g1, c, "nonempty") ELSE g1
           g == GiveUnit(h, u)
           M == Belongs(h)
           N == [M EXCEPT !["nonempty"] = @ \cup {c}]
<1>1. /\ h \in Heaps
      /\ h.bits \in [Chunks -> SUBSET Indices] /\ h.avail \in [Chunks -> 0 .. ELength]
      /\ h.total \in Nat /\ h.owned \in SUBSET Chunks /\ h.taken \in SUBSET (Chunks \X Indices)
      /\ ELength \in Nat /\ ELength > 1
  BY ConstructorAssumption DEF HeapSound, Heaps
<1>2. c \in Chunks /\ i \in Indices /\ u = <<c, i>>
  BY <1>1
<1>3. c \in h.owned /\ i \notin h.bits[c]
  BY <1>1, <1>2 DEF HeapSound, Conserves
<1>4. h.avail[c] \in 0 .. ELength - 1
  <2>1. h.bits[c] \in SUBSET Indices /\ h.avail[c] = Cardinality(h.bits[c]) /\ h.avail[c] \in Nat
    BY <1>1, <1>2 DEF HeapSound, Counts
  <2>2. IsFiniteSet(h.bits[c])
    BY <2>1, UnitsFinite, FS_Subset
  <2>3. h.bits[c] # Indices
    BY <1>2, <1>3
  <2>4. Cardinality(h.bits[c]) <= ELength /\ Cardinality(h.bits[c]) # ELength
    BY <2>1, <2>3, UnitsFinite, FS_Subset
  <2> QED BY <1>1, <2>1, <2>4
<1>5. g = IF l.avail[c] = ELength
          THEN AddChunkToLL(RemoveChunkFromLL(l, c, "nonempty"), c, "empty")
          ELSE l
  BY DEF GiveUnit
<1> HIDE DEF c, i, g, l
<1>6. /\ g1 \in Heaps
      /\ g1.root = h.root /\ g1.next = h.next /\ g1.prev = h.prev
      /\ g1.bits = [h.bits EXCEPT ![c] = @ \cup {i}] /\ g1.avail = [h.avail EXCEPT ![c] = @ + 1]
      /\ g1.total = h.total + 1 /\ g1.lockCnt = h.lockCnt /\ g1.owned = h.owned
      /\ g1.taken = h.taken \ {<<c, i>>}
  <2>1. /\ [h.bits EXCEPT ![c] = @ \cup {i}] \in [Chunks -> SUBSET Indices]
        /\ [h.avail EXCEPT ![c] = @ + 1] \in [Chunks -> 0 .. ELength]
        /\ h.total + 1 \in Nat /\ h.taken \ {<<c, i>>} \in SUBSET (Chunks \X Indices)
    BY <1>1, <1>2, <1>4
  <2> QED BY <1>1, <1>2, <2>1 DEF Heaps
<1>7. l = IF g1.avail[c] = 1 THEN AddChunkToLL(g1, c, "nonempty") ELSE g1
  BY DEF l
<1> HIDE DEF g1
<1>8. Conserves(g1) /\ Counts(g1)
  BY <1>1, <1>2, <1>6, GiveCounts DEF HeapSound
<1>9. g1.avail[c] = h.avail[c] + 1 /\ \A d \in Chunks \ {c} : g1.avail[d] = h.avail[d]
  BY <1>1, <1>2, <1>6
<1>10. Holds(g1, M) /\ M \in [Lists -> SUBSET Chunks] /\ N \in [Lists -> SUBSET Chunks]
  BY <1>1, <1>2, <1>6, SortedHolds DEF HeapSound, Holds
<1>11. /\ Holds(l, N) /\ l \in Heaps
       /\ l.bits = g1.bits /\ l.avail = g1.avail /\ l.total = g1.total
       /\ l.lockCnt = g1.lockCnt /\ l.owned = g1.owned /\ l.taken = g1.taken
  <2>1. CASE g1.avail[c] = 1
    <3>1. "nonempty" \in Lists /\ c \notin M["empty"] \cup M["nonempty"]
      BY <1>1, <1>4, <1>9, <2>1 DEF Belongs, Members, Lists
    <3>2. l = AddChunkToLL(g1, c, "nonempty")
      BY <1>7, <2>1
    <3> HIDE DEF M
    <3>3. Holds(l, N)
      BY <1>2, <1>6, <1>10, <3>1, <3>2, AddHolds
    <3> QED BY <1>2, <1>6, <3>1, <3>2, <3>3, AddKeeps
  <2>2. CASE g1.avail[c] # 1
    <3>1. c \in M["nonempty"]
      BY <1>1, <1>3, <1>4, <1>9, <2>2 DEF Belongs, Members, Lists
    <3>2. N = M
      BY <1>10, <3>1
    <3> QED BY <1>6, <1>7, <1>10, <2>2, <3>2
  <2> QED BY <2>1, <2>2
<1>12. CASE l.avail[c] = ELength
  <2> DEFINE l1 == RemoveChunkFromLL(l, c, "nonempty")
             N1 == [N EXCEPT !["nonempty"] = @ \ {c}]
             N2 == [N1 EXCEPT !["empty"] = @ \cup {c}]
  <2>1. "nonempty" \in Lists /\ "empty" \in Lists /\ c \in N["nonempty"]
    BY <1>10 DEF Lists
  <2>2. /\ l1 \in Heaps /\ l1.bits = l.bits /\ l1.avail = l.avail /\ l1.total = l.total
        /\ l1.lockCnt = l.lockCnt /\ l1.owned = l.owned /\ l1.taken = l.taken
    BY <1>2, <1>11, <2>1, RemoveKeeps
  <2>3. Holds(l1, N1) /\ N1 \in [Lists -> SUBSET Chunks]
    <3> HIDE DEF N
    <3> QED BY <1>10, <1>11, <2>1, RemoveHolds
  <2>4. c \notin N1["empty"] \cup N1["nonempty"]
    <3>1. c \notin M["empty"]
      BY <1>1, <1>4 DEF Belongs, Members, Lists
    <3> QED BY <1>10, <2>1, <3>1
  <2>5. g = AddChunkToLL(l1, c, "empty")
    BY <1>5, <1>12
  <2> HIDE DEF l1, N1
  <2>6. Holds(g, N2)
    BY <1>2, <2>1, <2>2, <2>3, <2>4, <2>5, AddHolds
  <2>7. /\ g \in Heaps /\ g.bits = g1.bits /\ g.avail = g1.avail /\ g.total = g1.total
        /\ g.lockCnt = g1.lockCnt /\ g.owned = g1.owned /\ g.taken = g1.taken
    BY <1>2, <1>11, <2>1, <2>2, <2>5, AddKeeps
  <2>8. Belongs(g) = N2
    <3>1. Members(g, "empty") = Members(h, "empty") \cup {c}
      BY <1>1, <1>2, <1>3, <1>6, <1>9, <1>11, <1>12, <2>7 DEF Members
    <3>2. Members(g, "nonempty") = (Members(h, "nonempty") \cup {c}) \ {c}
      BY <1>1, <1>2, <1>3, <1>6, <1>9, <1>11, <1>12, <2>7 DEF Members
    <3> QED BY <3>1, <3>2 DEF Belongs, N1, Lists
  <2>9. Sorted(g)
    BY <2>6, <2>7, <2>8, SortedHolds
  <2> QED BY <1>6, <1>8, <2>7, <2>9, SameUnits DEF HeapSound, g
<1>13. CASE l.avail[c] # ELength
  <2>1. g = l
    BY <1>5, <1>13
  <2>2. Belongs(l) = N
    <3>1. Members(l, "empty") = Members(h, "empty")
      BY <1>1, <1>2, <1>4, <1>6, <1>9, <1>11, <1>13 DEF Members
    <3>2. Members(l, "nonempty") = Members(h, "nonempty") \cup {c}
      BY <1>1, <1>2, <1>3, <1>4, <1>6, <1>9, <1>11, <1>13 DEF Members
    <3> QED BY <3>1, <3>2 DEF Belongs, Lists
  <2>3. Sorted(l)
    BY <1>11, <2>2, SortedHolds
  <2> QED BY <1>6, <1>8, <1>11, <2>1, <2>3, SameUnits DEF HeapSound, g
<1> QED BY <1>12, <1>13

\* trim() takes a chunk from the heap that nobody has an object of.
LEMMA TrimKeeps ==
  ASSUME NEW h, HeapSound(h), MustTrim(h)
  PROVE  LET g == Trimmed(h)
         IN  HeapSound(g) /\ g.total = h.total - ELength /\ g.lockCnt = h.lockCnt
<1> DEFINE c == h.root["empty"]
           g1 == RemoveChunkFromLL(h, c, "empty")
           g == Trimmed(h)
           M == Belongs(h)
           N == [M EXCEPT !["empty"] = @ \ {c}]
<1>1. /\ h \in Heaps
      /\ h.bits \in [Chunks -> SUBSET Indices] /\ h.avail \in [Chunks -> 0 .. ELength]
      /\ h.total \in Nat /\ h.owned \in SUBSET Chunks /\ h.taken \in SUBSET (Chunks \X Indices)
      /\ ELength \in Nat /\ ELength > 1 /\ "empty" \in Lists
  BY ConstructorAssumption DEF HeapSound, Heaps, Lists
<1>2. Holds(h, M) /\ M \in [Lists -> SUBSET Chunks] /\ N \in [Lists -> SUBSET Chunks]
  BY <1>1, SortedHolds DEF HeapSound
<1>3. c \in M["empty"] /\ c # NULL /\ c \in Chunks
  BY <1>1, <1>2 DEF MustTrim, Holds, IsList, Linked
<1>4. c \in h.owned /\ h.avail[c] = ELength
  BY <1>3 DEF Belongs, Members, Lists
<1>5. h.bits[c] = Indices
  <2>1. h.bits[c] \in SUBSET Indices /\ Cardinality(h.bits[c]) = ELength
    BY <1>1, <1>3, <1>4 DEF HeapSound, Counts
  <2> QED BY <2>1, UnitsFinite, FS_Subset
<1>6. h.total >= ELength
  BY <1>1, ConstructorAssumption DEF MustTrim
<1>7. g = [g1 EXCEPT !.total = @ - ELength, !.owned = @ \ {c}, !.bits[c] = {},
                     !.avail[c] = 0, !.next[c] = NULL, !.prev[c] = NULL]
  BY DEF Trimmed
<1> HIDE DEF g, c, M
<1>8. /\ g1 \in Heaps
      /\ g1.bits = h.bits /\ g1.avail = h.avail /\ g1.total = h.total
      /\ g1.lockCnt = h.lockCnt /\ g1.owned = h.owned /\ g1.taken = h.taken
  BY <1>1, <1>3, RemoveKeeps
<1>9. Holds(g1, N)
  BY <1>1, <1>2, <1>3, RemoveHolds
<1> HIDE DEF g1
<1>10. /\ g \in Heaps
       /\ g.root = g1.root /\ g.next = [g1.next EXCEPT ![c] = NULL] /\ g.prev = [g1.prev EXCEPT ![c] = NULL]
       /\ g.bits = [h.bits EXCEPT ![c] = {}] /\ g.avail = [h.avail EXCEPT ![c] = 0]
       /\ g.total = h.total - ELength /\ g.lockCnt = h.lockCnt
       /\ g.owned = h.owned \ {c} /\ g.taken = h.taken
  <2>1. /\ [h.bits EXCEPT ![c] = {}] \in [Chunks -> SUBSET Indices]
        /\ [h.avail EXCEPT ![c] = 0] \in [Chunks -> 0 .. ELength]
        /\ h.total - ELength \in Nat /\ h.owned \ {c} \in SUBSET Chunks
    BY <1>1, <1>3, <1>6
  <2>2. /\ g1.next \in [Chunks -> Pointers] /\ g1.prev \in [Chunks -> Pointers]
        /\ [g1.next EXCEPT ![c] = NULL] \in [Chunks -> Pointers]
        /\ [g1.prev EXCEPT ![c] = NULL] \in [Chunks -> Pointers]
    BY <1>3, <1>8 DEF Heaps, Pointers
  <2> QED BY <1>7, <1>8, <2>1, <2>2 DEF Heaps
<1>11. Sorted(g)
  <2>1. c \notin N["empty"] /\ c \notin N["nonempty"]
    BY <1>1, <1>2, <1>3 DEF Holds, Lists
  <2>2. Holds(g, N)
    <3>1. ASSUME NEW list \in Lists
          PROVE  IsList(g.root[list], g.next, g.prev, N[list])
      <4>1. IsList(g1.root[list], g1.next, g1.prev, N[list]) /\ N[list] \in SUBSET Chunks
        BY <1>2, <1>9 DEF Holds
      <4>2. g1.next \in [Chunks -> Pointers] /\ g1.prev \in [Chunks -> Pointers]
        BY <1>8 DEF Heaps
      <4>3. c \notin N[list]
        BY <2>1 DEF Lists
      <4>4. \A d \in N[list] : g1.next[d] = g.next[d] /\ g1.prev[d] = g.prev[d]
        BY <1>10, <4>1, <4>2, <4>3
      <4>5. IsList(g1.root[list], g.next, g.prev, N[list])
        <5> HIDE DEF N
        <5> QED BY <4>1, <4>4, ListFrame
      <4> QED BY <1>10, <4>5
    <3> QED BY <1>9, <3>1 DEF Holds
  <2>3. Belongs(g) = N
    <3>1. Members(g, "empty") = Members(h, "empty") \ {c}
      BY <1>1, <1>3, <1>10 DEF Members
    <3>2. Members(g, "nonempty") = Members(h, "nonempty")
      BY <1>1, <1>3, <1>4, <1>10 DEF Members
    <3> QED BY <3>1, <3>2 DEF Belongs, M, Lists
  <2> QED BY <1>10, <2>2, <2>3, SortedHolds
<1>12. Counts(g)
  <2>1. Counts(h) /\ g.bits = [h.bits EXCEPT ![c] = {}] /\ g.avail = [h.avail EXCEPT ![c] = 0]
    BY <1>10 DEF HeapSound
  <2>2. Available(h) = Available(g) \cup ({c} \X Indices) /\ Available(g) \cap ({c} \X Indices) = {}
    BY <1>1, <1>3, <1>5, <2>1 DEF Available
  <2>3. Cardinality(Available(h)) = Cardinality(Available(g)) + ELength
    <3>1. IsFiniteSet(Available(g)) /\ IsFiniteSet({c} \X Indices) /\ Cardinality({c} \X Indices) = ELength
      BY <1>3, <1>10, UnitsFinite
    <3>2. Cardinality(Available(g)) \in Nat
      BY <3>1, FS_CardinalityType
    <3>3. Cardinality(Available(g) \cup ({c} \X Indices))
             = Cardinality(Available(g)) + Cardinality({c} \X Indices)
               - Cardinality(Available(g) \cap ({c} \X Indices))
      BY <3>1, FS_Union
    <3>4. Cardinality(Available(g) \cap ({c} \X Indices)) = 0
      BY <2>2, FS_EmptySet
    <3> QED BY <1>1, <2>2, <3>1, <3>2, <3>3, <3>4
  <2>4. h.total = Cardinality(Available(h)) /\ Cardinality(Available(g)) \in Nat
    BY <1>10, <2>1, UnitsFinite, FS_CardinalityType DEF Counts
  <2>5. \A d \in Chunks : g.avail[d] = Cardinality(g.bits[d])
    BY <1>1, <1>3, <2>1, FS_EmptySet DEF Counts
  <2> QED BY <1>1, <1>10, <2>3, <2>4, <2>5 DEF Counts
<1>13. Conserves(g)
  <2>1. ASSUME NEW d \in Chunks, NEW k \in Indices
        PROVE  IF d \in g.owned THEN (k \in g.bits[d]) # (<<d, k>> \in g.taken)
               ELSE k \notin g.bits[d] /\ <<d, k>> \notin g.taken
    <3>1. IF d \in h.owned THEN (k \in h.bits[d]) # (<<d, k>> \in h.taken)
          ELSE k \notin h.bits[d] /\ <<d, k>> \notin h.taken
      BY DEF HeapSound, Conserves
    <3>2. CASE d = c
      BY <1>1, <1>3, <1>4, <1>5, <1>10, <3>1, <3>2
    <3>3. CASE d # c
      BY <1>1, <1>3, <1>10, <3>1, <3>3
    <3> QED BY <3>2, <3>3
  <2> QED BY <2>1 DEF Conserves
<1> QED BY <1>10, <1>11, <1>12, <1>13 DEF HeapSound, g

\* The lock count has no part in it.
LEMMA LockKeeps ==
  ASSUME NEW h, HeapSound(h), NEW n \in Nat
  PROVE  LET g == [h EXCEPT !.lockCnt = n]
         IN  HeapSound(g) /\ g.total = h.total /\ g.lockCnt = n /\ g.owned = h.owned
<1> DEFINE g == [h EXCEPT !.lockCnt = n]
<1>1. /\ g \in Heaps /\ g.root = h.root /\ g.next = h.next /\ g.prev = h.prev
      /\ g.bits = h.bits /\ g.avail = h.avail /\ g.total = h.total /\ g.lockCnt = n
      /\ g.owned = h.owned /\ g.taken = h.taken
  BY DEF HeapSound, Heaps
<1> HIDE DEF g
<1>2. Conserves(g) /\ Counts(g)
  BY <1>1, SameUnits DEF HeapSound
<1>3. Sorted(g)
  BY <1>1 DEF HeapSound, Sorted, Members
<1> QED BY <1>1, <1>2, <1>3 DEF HeapSound, g
-----------------------------------------------------------------------------
(***************************************************************************)
(* The calls.  One call at most waits for an Allocator or a Deallocator,   *)
(* and while an alloc() waits for one, the heap has few objects: those it  *)
(* began with and those that were freed since.  So the chunk it is given   *)
(* lifts it above the lower limit and not above the upper one, and the     *)
(* unlock() at its end finds nothing to do.                                *)
(***************************************************************************)
Frames == [call : {"alloc", "free", "unlock"},
           at : {"renew", "replenish", "trim", "trimInUnlock"},
           level : {0}, freed : 0 .. Returned]

Waiting(h, waits) ==
  \/ waits = <<>>
  \/ \E frame \in Frames :
       /\ waits = <<frame>>
       /\ frame.call = "alloc" <=> frame.at = "renew"
       /\ frame.at = "renew" => h.total <= MinUnits + frame.freed

State(h, waits, n) == HeapSound(h) /\ n \in Nat /\ h.lockCnt = n + Len(waits) /\ Waiting(h, waits)

IInv == State(heap, stack, locks) /\ machine \in {"running", "fault"}

\* A call that returns leaves the heap sound; an alloc() finds its object.
LEMMA ReturnKeeps ==
  ASSUME NEW h, NEW rest, NEW call, State(h, rest, locks'), machine \in {"running", "fault"},
         call = "alloc" => h.total > 0, Return(h, rest, call)
  PROVE  IInv'
<1>1. CASE call # "alloc" /\ heap' = h /\ UNCHANGED machine
  BY <1>1 DEF Return, IInv
<1>2. CASE call = "alloc" /\ CanTake(h) /\ heap' = TakeUnit(h) /\ UNCHANGED machine
  <2>1. HeapSound(heap') /\ heap'.total = h.total - 1 /\ heap'.lockCnt = h.lockCnt
    BY <1>2, TakeKeeps DEF State
  <2>2. h.total \in Nat /\ MinUnits \in Nat
    BY ConstructorAssumption DEF State, HeapSound, Heaps
  <2>3. Waiting(heap', stack')
    BY <2>1, <2>2 DEF Return, State, Waiting, Frames
  <2> QED BY <1>2, <2>1, <2>3 DEF Return, IInv, State
<1>3. CASE call = "alloc" /\ ~CanTake(h)
  BY <1>3, TakeKeeps DEF State
<1> QED BY <1>1, <1>2, <1>3 DEF Return

\* A call that starts to wait is the only one.
LEMMA WaitKeeps ==
  ASSUME NEW h, HeapSound(h), h.lockCnt = 1, locks' = 0, machine \in {"running", "fault"},
         NEW call \in {"alloc", "free", "unlock"},
         NEW at \in {"renew", "replenish", "trim", "trimInUnlock"},
         call = "alloc" <=> at = "renew", at = "renew" => h.total <= MinUnits,
         Wait(h, <<>>, call, at)
  PROVE  IInv'
<1> DEFINE frame == [call |-> call, at |-> at, level |-> 0, freed |-> 0]
<1>1. frame \in Frames
  BY ReturnedAssumption DEF Frames
<1>2. stack' = <<frame>> /\ heap' = h /\ machine' = machine
  BY DEF Wait
<1>3. frame.call = call /\ frame.at = at /\ frame.freed = 0
  OBVIOUS
<1> HIDE DEF frame
<1>4. Waiting(h, <<frame>>)
  BY <1>1, <1>3, ConstructorAssumption DEF Waiting
<1> QED BY <1>2, <1>4 DEF IInv, State

\* unlock(), with the lock still counted.
LEMMA UnlocksKeeps ==
  ASSUME NEW h, NEW rest, HeapSound(h), Waiting(h, rest), locks' \in Nat,
         h.lockCnt = locks' + Len(rest) + 1, machine \in {"running", "fault"},
         NEW call \in {"alloc", "free", "unlock"},
         call = "alloc" => h.total > MinUnits /\ ~MustTrim(h),
         Unlocks(h, rest, call)
  PROVE  IInv'
<1>1. Len(rest) \in Nat /\ (Len(rest) = 0 => rest = <<>>) /\ MinUnits \in Nat /\ h.total \in Nat
  BY ConstructorAssumption DEF Waiting, HeapSound, Heaps
<1>2. /\ HeapSound(Unlocked(h)) /\ Unlocked(h).total = h.total
      /\ Unlocked(h).lockCnt = locks' + Len(rest)
  <2>1. h.lockCnt - 1 = locks' + Len(rest) /\ h.lockCnt - 1 \in Nat
    BY <1>1
  <2> QED BY <2>1, LockKeeps DEF Unlocked
<1>3. State(Unlocked(h), rest, locks')
  BY <1>2 DEF State, Waiting
<1>4. CASE h.lockCnt > 1 /\ Return(Unlocked(h), rest, call)
  BY <1>1, <1>2, <1>3, <1>4, ReturnKeeps
<1>5. CASE h.lockCnt = 1 /\ h.total <= MinUnits /\ Wait(h, rest, call, "replenish")
  <2>1. locks' = 0 /\ rest = <<>> /\ call # "alloc"
    BY <1>1, <1>5
  <2> QED BY <1>5, <2>1, WaitKeeps
<1>6. CASE /\ h.lockCnt = 1 /\ h.total > MinUnits /\ MustTrim(h)
           /\ Wait(Trimmed(h), rest, call, "trimInUnlock")
  <2>1. locks' = 0 /\ rest = <<>> /\ call # "alloc"
    BY <1>1, <1>6
  <2>2. HeapSound(Trimmed(h)) /\ Trimmed(h).lockCnt = 1
    BY <1>6, TrimKeeps
  <2> QED BY <1>6, <2>1, <2>2, WaitKeeps
<1>7. CASE h.lockCnt = 1 /\ h.total > MinUnits /\ ~MustTrim(h) /\ Return(Unlocked(h), rest, call)
  BY <1>1, <1>2, <1>3, <1>7, ReturnKeeps
<1> QED BY <1>4, <1>5, <1>6, <1>7 DEF Unlocks

\* free() after it gave its object back.
LEMMA TrimsKeeps ==
  ASSUME NEW h, HeapSound(h), h.lockCnt = 1, locks' = 0, machine \in {"running", "fault"},
         NEW call \in {"free", "unlock"}, TrimsAndUnlocks(h, <<>>, call)
  PROVE  IInv'
<1>1. CASE MustTrim(h) /\ Wait(Trimmed(h), <<>>, call, "trim")
  <2>1. HeapSound(Trimmed(h)) /\ Trimmed(h).lockCnt = 1
    BY <1>1, TrimKeeps
  <2> QED BY <1>1, <2>1, WaitKeeps
<1>2. CASE ~MustTrim(h) /\ Unlocks(h, <<>>, call)
  <2>1. Waiting(h, <<>>) /\ h.lockCnt = locks' + Len(<<>>) + 1 /\ locks' \in Nat
    BY DEF Waiting
  <2> QED BY <1>2, <2>1, UnlocksKeeps
<1> QED BY <1>1, <1>2 DEF TrimsAndUnlocks

\* The constructor.
LEMMA InitSound == Init => IInv
<1> SUFFICES ASSUME Init PROVE IInv
  OBVIOUS
<1>1. HeapSound(EmptyHeap) /\ EmptyHeap.owned = {} /\ EmptyHeap.lockCnt = 0
  <2>1. EmptyHeap \in Heaps /\ EmptyHeap.owned = {} /\ EmptyHeap.lockCnt = 0
    BY ConstructorAssumption DEF EmptyHeap, Heaps, Pointers, Lists, Indices
  <2>2. Available(EmptyHeap) = {}
    BY DEF Available, EmptyHeap
  <2>3. Counts(EmptyHeap)
    BY <2>2, FS_EmptySet DEF Counts, EmptyHeap
  <2>4. Sorted(EmptyHeap)
    BY DEF Sorted, EmptyHeap, Members, IsList, Linked, Ends
  <2>5. Conserves(EmptyHeap)
    BY DEF Conserves, EmptyHeap
  <2> QED BY <2>1, <2>3, <2>4, <2>5 DEF HeapSound
<1>2. \A c \in Chunks : HeapSound(Embrace(EmptyHeap, c)) /\ Embrace(EmptyHeap, c).lockCnt = 0
  BY <1>1, EmbraceKeeps
<1> QED BY <1>1, <1>2 DEF Init, IInv, State, Waiting

\* A sound state, taken apart.
LEMMA Parts ==
  ASSUME IInv
  PROVE  /\ HeapSound(heap) /\ Waiting(heap, stack) /\ locks \in Nat /\ heap.lockCnt \in Nat
         /\ heap.lockCnt = locks + Len(stack) /\ heap.total \in Nat
         /\ machine \in {"running", "fault"}
         /\ Len(stack) \in Nat /\ (Len(stack) = 0 => stack = <<>>)
         /\ MinUnits \in Nat /\ MaxUnits \in Nat /\ ELength \in Nat
BY ConstructorAssumption DEF IInv, State, Waiting, HeapSound, Heaps

\* alloc(): it renews the unlocked heap when it has few objects, or takes one.
LEMMA AllocKeeps == IInv /\ Alloc => IInv'
<1> SUFFICES ASSUME IInv, Alloc PROVE IInv'
  OBVIOUS
<1>1. locks' = locks
  BY DEF Alloc
<1>2. CASE /\ heap.total <= MinUnits /\ heap.lockCnt = 0
           /\ Wait([heap EXCEPT !.lockCnt = @ + 1], stack, "alloc", "renew")
  <2> DEFINE h == [heap EXCEPT !.lockCnt = 1]
  <2>1. stack = <<>> /\ locks' = 0
    BY <1>1, <1>2, Parts
  <2>2. HeapSound(h) /\ h.total = heap.total /\ h.lockCnt = 1
    BY Parts, LockKeeps
  <2>3. Wait(h, <<>>, "alloc", "renew")
    BY <1>2, <2>1
  <2> HIDE DEF h
  <2> QED BY <1>2, <2>1, <2>2, <2>3, WaitKeeps, Parts
<1>3. CASE /\ heap.lockCnt = 0 => heap.total > MinUnits
           /\ heap.lockCnt > 0 => heap.total > 0
           /\ Return(heap, stack, "alloc")
  <2>1. heap.total > 0
    BY <1>3, Parts
  <2>2. State(heap, stack, locks')
    BY <1>1 DEF IInv
  <2> QED BY <1>3, <2>1, <2>2, ReturnKeeps, Parts
<1> QED BY <1>2, <1>3 DEF Alloc

\* free(): in a renewal the object it gives counts for the bound of alloc().
LEMMA FreeKeeps == ASSUME NEW u \in Chunks \X Indices PROVE IInv /\ Free(u) => IInv'
<1> SUFFICES ASSUME IInv, Free(u) PROVE IInv'
  OBVIOUS
<1> DEFINE h == GiveUnit(heap, u)
<1>1. locks' = locks /\ u \in heap.taken
  BY DEF Free
<1>2. HeapSound(h) /\ h.total = heap.total + 1 /\ h.lockCnt = heap.lockCnt
  BY <1>1, Parts, GiveKeeps
<1> HIDE DEF h
<1>3. CASE /\ heap.lockCnt = 0
           /\ TrimsAndUnlocks([GiveUnit(heap, u) EXCEPT !.lockCnt = @ + 1], stack, "free")
  <2>1. stack = <<>> /\ locks' = 0
    BY <1>1, <1>3, Parts
  <2> DEFINE g == [h EXCEPT !.lockCnt = 1]
  <2>2. HeapSound(g) /\ g.lockCnt = 1
    BY <1>2, LockKeeps
  <2>3. TrimsAndUnlocks(g, <<>>, "free")
    BY <1>2, <1>3, <2>1 DEF h
  <2> HIDE DEF g
  <2> QED BY <2>1, <2>2, <2>3, TrimsKeeps, Parts
<1>4. CASE /\ heap.lockCnt > 0
           /\ Renewing => Head(stack).freed < Returned
           /\ stack' = IF Renewing THEN [stack EXCEPT ![1].freed = @ + 1] ELSE stack
           /\ heap' = GiveUnit(heap, u)
           /\ UNCHANGED machine
  <2>1. Waiting(heap', stack') /\ Len(stack') = Len(stack)
    <3>1. CASE stack = <<>>
      BY <1>4, <3>1 DEF Waiting, Renewing
    <3>2. CASE stack # <<>>
      <4>1. PICK frame \in Frames : /\ stack = <<frame>>
                                    /\ frame.call = "alloc" <=> frame.at = "renew"
                                    /\ frame.at = "renew" => heap.total <= MinUnits + frame.freed
        BY <3>2, Parts DEF Waiting
      <4>2. CASE Renewing
        <5> DEFINE next == [frame EXCEPT !.freed = @ + 1]
        <5>1. frame.freed + 1 \in 0 .. Returned
          BY <1>4, <4>1, <4>2, ReturnedAssumption DEF Frames
        <5>2. /\ next \in Frames /\ next.call = frame.call /\ next.at = frame.at
              /\ next.freed = frame.freed + 1
          BY <5>1 DEF Frames
        <5>3. stack' = <<next>>
          BY <1>4, <4>1, <4>2
        <5> HIDE DEF next
        <5>4. next.at = "renew" => heap'.total <= MinUnits + next.freed
          BY <1>2, <1>4, <4>1, <5>2, Parts DEF h, Frames
        <5> QED BY <4>1, <5>2, <5>3, <5>4 DEF Waiting
      <4>3. CASE ~Renewing
        <5>1. frame.at # "renew" /\ stack' = <<frame>>
          BY <1>4, <4>1, <4>3 DEF Renewing
        <5> QED BY <4>1, <5>1 DEF Waiting
      <4> QED BY <4>2, <4>3
    <3> QED BY <3>1, <3>2
  <2> QED BY <1>1, <1>2, <1>4, <2>1, Parts DEF IInv, State, h
<1> QED BY <1>3, <1>4 DEF Free

\* lock().
LEMMA LockStepKeeps == IInv /\ Lock => IInv'
<1> SUFFICES ASSUME IInv, Lock PROVE IInv'
  OBVIOUS
<1> DEFINE h == [heap EXCEPT !.lockCnt = heap.lockCnt + 1]
<1>1. HeapSound(h) /\ h.total = heap.total /\ h.lockCnt = heap.lockCnt + 1
  <2>1. heap.lockCnt + 1 \in Nat
    BY Parts
  <2> QED BY <2>1, Parts, LockKeeps
<1>2. heap' = h
  BY DEF Lock
<1> HIDE DEF h
<1> QED BY <1>1, <1>2, Parts DEF Lock, IInv, State, Waiting

\* unlock().
LEMMA UnlockStepKeeps == IInv /\ Unlock => IInv'
<1> SUFFICES ASSUME IInv, Unlock PROVE IInv'
  OBVIOUS
<1>1. Level \in Nat
  BY Parts DEF Level, Waiting, Frames
<1>2. locks' \in Nat /\ heap.lockCnt = locks' + Len(stack) + 1
  BY <1>1, Parts DEF Unlock
<1> QED BY <1>2, Parts, UnlocksKeeps DEF Unlock

\* The Allocator answers: the renewing alloc() has between MinUnits and MaxUnits objects now.
LEMMA AllocatorAnswersKeeps == ASSUME NEW c \in Chunks PROVE IInv /\ AllocatorAnswers(c) => IInv'
<1> SUFFICES ASSUME IInv, AllocatorAnswers(c) PROVE IInv'
  OBVIOUS
<1> DEFINE h == Embrace(heap, c)
<1>1. PICK frame \in Frames : /\ stack = <<frame>>
                              /\ frame.call = "alloc" <=> frame.at = "renew"
                              /\ frame.at = "renew" => heap.total <= MinUnits + frame.freed
  BY Parts DEF AllocatorAnswers, Renewing, Waiting
<1>2. Head(stack) = frame /\ Tail(stack) = <<>> /\ Len(stack) = 1
  BY <1>1
<1>3. locks = 0 /\ locks' = 0
  BY <1>1, <1>2 DEF AllocatorAnswers, Level, Frames
<1>4. HeapSound(h) /\ h.total = heap.total + ELength /\ h.lockCnt = 1
  <2>1. c \in Chunks \ heap.owned
    BY DEF AllocatorAnswers
  <2>2. heap.lockCnt = 1
    BY <1>2, <1>3, Parts
  <2> QED BY <2>1, <2>2, Parts, EmbraceKeeps
<1> HIDE DEF h
<1>5. CASE frame.at = "renew" /\ Unlocks(h, <<>>, frame.call)
  <2>1. h.total > MinUnits /\ ~MustTrim(h)
    BY <1>1, <1>4, <1>5, Parts, ConstructorAssumption, ReturnedAssumption DEF MustTrim, Frames
  <2>2. Waiting(h, <<>>) /\ h.lockCnt = locks' + Len(<<>>) + 1 /\ locks' \in Nat
    BY <1>3, <1>4 DEF Waiting
  <2>3. frame.call \in {"alloc", "free", "unlock"}
    BY DEF Frames
  <2> QED BY <1>4, <1>5, <2>1, <2>2, <2>3, Parts, UnlocksKeeps
<1>6. CASE frame.at = "replenish" /\ Return(Unlocked(h), <<>>, frame.call)
  <2>1. HeapSound(Unlocked(h)) /\ Unlocked(h).lockCnt = 0
    BY <1>4, LockKeeps DEF Unlocked
  <2>2. State(Unlocked(h), <<>>, locks')
    BY <1>3, <2>1 DEF State, Waiting
  <2>3. frame.call # "alloc"
    BY <1>1, <1>6
  <2> QED BY <1>6, <2>2, <2>3, Parts, ReturnKeeps
<1> QED BY <1>2, <1>5, <1>6 DEF AllocatorAnswers, h

\* The Deallocator returns: the call goes on trimming, or unlocks.
LEMMA DeallocatorReturnsKeeps == IInv /\ DeallocatorReturns => IInv'
<1> SUFFICES ASSUME IInv, DeallocatorReturns PROVE IInv'
  OBVIOUS
<1>1. PICK frame \in Frames : /\ stack = <<frame>>
                              /\ frame.call = "alloc" <=> frame.at = "renew"
  BY Parts DEF DeallocatorReturns, Trimming, Waiting
<1>2. Head(stack) = frame /\ Tail(stack) = <<>> /\ Len(stack) = 1
  BY <1>1
<1>3. frame.call \in {"free", "unlock"}
  BY <1>1, <1>2 DEF DeallocatorReturns, Trimming, Frames
<1>4. locks = 0 /\ locks' = 0
  BY <1>1, <1>2 DEF DeallocatorReturns, Level, Frames
<1>5. heap.lockCnt = 1
  BY <1>2, <1>4, Parts
<1>6. CASE frame.at = "trim" /\ TrimsAndUnlocks(heap, <<>>, frame.call)
  BY <1>3, <1>4, <1>5, <1>6, Parts, TrimsKeeps
<1>7. CASE /\ frame.at = "trimInUnlock" /\ MustTrim(heap)
           /\ Wait(Trimmed(heap), <<>>, frame.call, "trimInUnlock")
  <2>1. HeapSound(Trimmed(heap)) /\ Trimmed(heap).lockCnt = 1
    BY <1>5, <1>7, Parts, TrimKeeps
  <2> QED BY <1>3, <1>4, <1>7, <2>1, Parts, WaitKeeps
<1>8. CASE frame.at = "trimInUnlock" /\ ~MustTrim(heap) /\ Return(Unlocked(heap), <<>>, frame.call)
  <2>1. HeapSound(Unlocked(heap)) /\ Unlocked(heap).lockCnt = 0
    <3>1. heap.lockCnt - 1 = 0 /\ heap.lockCnt - 1 \in Nat
      BY <1>5
    <3> QED BY <3>1, Parts, LockKeeps DEF Unlocked
  <2>2. State(Unlocked(heap), <<>>, locks')
    BY <1>4, <2>1 DEF State, Waiting
  <2> QED BY <1>3, <1>8, <2>2, Parts, ReturnKeeps
<1> QED BY <1>2, <1>6, <1>7, <1>8 DEF DeallocatorReturns

\* The inductive invariant: every step of every call keeps the heap sound, at most
\* one call waiting, and the renewing alloc() within its bound.
THEOREM HeapStaysSound == Spec => []IInv
<1>1. Init => IInv
  BY InitSound
<1>2. IInv /\ [Next]_vars => IInv'
  <2> SUFFICES ASSUME IInv, [Next]_vars PROVE IInv'
    OBVIOUS
  <2>1. CASE Alloc
    BY <2>1, AllocKeeps
  <2>2. CASE \E u \in Chunks \X Indices : Free(u)
    BY <2>2, FreeKeeps
  <2>3. CASE Lock
    BY <2>3, LockStepKeeps
  <2>4. CASE Unlock
    BY <2>4, UnlockStepKeeps
  <2>5. CASE \E c \in Chunks : AllocatorAnswers(c)
    BY <2>5, AllocatorAnswersKeeps
  <2>6. CASE AllocatorFails
    BY <2>6 DEF AllocatorFails, IInv, State, Waiting
  <2>7. CASE DeallocatorReturns
    BY <2>7, DeallocatorReturnsKeeps
  <2>8. CASE UNCHANGED vars
    BY <2>8 DEF vars, IInv, State, Waiting
  <2> QED BY <2>1, <2>2, <2>3, <2>4, <2>5, <2>6, <2>7, <2>8 DEF Next
<1> QED BY <1>1, <1>2, PTL DEF Spec

\* No object is lost, none is given out twice, and none is in a caller's hands
\* when its chunk is given back.
THEOREM NoObjectLost == Spec => []UnitsConserved
<1>1. IInv => UnitsConserved
  BY DEF IInv, State, HeapSound, UnitsConserved
<1> QED BY <1>1, HeapStaysSound, PTL

\* The counters that decide about renewing and trimming never drift from the bitmaps.
THEOREM CountersExact == Spec => []CountsAgree
<1>1. IInv => CountsAgree
  BY DEF IInv, State, HeapSound, CountsAgree
<1> QED BY <1>1, HeapStaysSound, PTL

\* Both lists stay doubly linked lists of exactly the chunks that belong on them.
THEOREM ListsStaySound == Spec => []ListsSound
<1>1. IInv => ListsSound
  BY DEF IInv, State, HeapSound, ListsSound
<1> QED BY <1>1, HeapStaysSound, PTL

\* A heap never renews or trims itself inside its own renewal or trimming.
THEOREM NoNestedRenewal == Spec => []OneRenewal
<1>1. IInv => OneRenewal
  <2> SUFFICES ASSUME IInv PROVE OneRenewal
    OBVIOUS
  <2>1. CASE stack = <<>>
    BY <2>1 DEF OneRenewal
  <2>2. ASSUME NEW frame \in Frames, stack = <<frame>>, frame.call = "alloc" <=> frame.at = "renew"
        PROVE  OneRenewal
    BY <2>2 DEF OneRenewal
  <2> QED BY <2>1, <2>2, Parts DEF Waiting
<1> QED BY <1>1, HeapStaysSound, PTL

\* Every lock() has its unlock().
THEOREM LocksPaired == Spec => []LocksBalance
<1>1. IInv => LocksBalance
  BY DEF IInv, State, LocksBalance
<1> QED BY <1>1, HeapStaysSound, PTL

\* No kassert of the heap fails, whatever an Allocator takes or frees meanwhile.
THEOREM HeapNeverAsserts == Spec => []NoKassertFails
<1>1. IInv => NoKassertFails
  BY DEF IInv, NoKassertFails
<1> QED BY <1>1, HeapStaysSound, PTL
=============================================================================
