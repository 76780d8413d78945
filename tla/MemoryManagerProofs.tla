------------------------ MODULE MemoryManagerProofs ------------------------
(***************************************************************************)
(* The MemoryManager, for any number of slots and frames, any geometry of  *)
(* the page tree, any constants of the reserve, and calls nested to any    *)
(* depth: no slot and no frame ever has two owners.  With limits that      *)
(* leave room for it (AmpleReserve), calls are nested at most twice, the   *)
(* reserve is never found empty, and no walk reads a freed table.          *)
(***************************************************************************)
EXTENDS MemoryManager, FiniteSetTheorems, WellFoundedInduction, TLAPS

(***************************************************************************)
(* Numbers.  Induction is by the least counterexample.                     *)
(***************************************************************************)
\* A set of numbers that is not empty has a least one.
LEMMA LeastNat ==
  ASSUME NEW S \in SUBSET Nat, S # {}
  PROVE  \E i \in S : \A j \in S : i <= j
<1> DEFINE Below == {0 .. i : i \in S}
           R == StrictSubsetOrdering(Nat)
<1>1. IsWellFoundedOn(R, FiniteSubsetsOf(Nat))
  BY FS_StrictSubsetOrderingWellFounded
<1>2. Below \subseteq FiniteSubsetsOf(Nat) /\ Below # {}
  <2>1. \A i \in S : IsFiniteSet(0 .. i) /\ 0 .. i \in SUBSET Nat
    BY FS_Interval
  <2> QED BY <2>1 DEF FiniteSubsetsOf
<1> HIDE DEF R, Below
<1>3. \E x \in Below : \A y \in Below : ~ (<<y, x>> \in R)
  BY <1>1, <1>2, WFMin
<1>4. PICK i \in S : \A j \in S : ~ (<<0 .. j, 0 .. i>> \in R)
  BY <1>3 DEF Below
<1>5. ASSUME NEW j \in S, ~(i <= j) PROVE FALSE
  <2>1. 0 .. j \subseteq 0 .. i /\ i \in 0 .. i /\ i \notin 0 .. j
    BY <1>5
  <2>2. 0 .. i \in SUBSET Nat /\ 0 .. j \in SUBSET Nat
    OBVIOUS
  <2> QED BY <1>4, <2>1, <2>2 DEF R, StrictSubsetOrdering
<1> QED BY <1>5
-----------------------------------------------------------------------------
(***************************************************************************)
(* The trees of the space managers: their nodes come from the reserve, and *)
(* go back to it, but no chunk does.                                       *)
(***************************************************************************)
Reserves == [chunks : SUBSET Slots,
             home : [Tables -> Slots \cup {0}],
             nodeUnits : [Heaps -> [Slots -> Int]],
             nodes : [Heaps -> Int],
             lockCnt : Int]

Iterates(m, op, R, h, f) ==
  f = [k \in 0 .. m |-> IF k = 0 THEN R ELSE UNION {NodeChanged(r, op, h) : r \in f[k - 1]}]

\* Repeat's function exists.
LEMMA RepeatExists ==
  ASSUME NEW n \in Nat, NEW R, NEW h, NEW op
  PROVE  \E f : Iterates(n, op, R, h, f)
<1> DEFINE G(m, f) == Iterates(m, op, R, h, f)
           Bad == {m \in Nat : ~ \E f : G(m, f)}
<1>1. SUFFICES ASSUME Bad # {} PROVE FALSE
  OBVIOUS
<1>2. PICK m \in Bad : \A j \in Bad : m <= j
  BY <1>1, LeastNat
<1>3. CASE m = 0
  <2>1. G(0, [k \in 0 .. 0 |-> R])
    BY DEF Iterates
  <2> QED BY <1>2, <1>3, <2>1
<1>4. CASE m # 0
  <2>1. PICK f : G(m - 1, f)
    <3> HIDE DEF G
    <3>1. m \in Nat /\ m - 1 \in Nat /\ ~(m <= m - 1)
      BY <1>2, <1>4
    <3>2. m - 1 \notin Bad
      BY <1>2, <3>1
    <3> QED BY <3>1, <3>2
  <2> DEFINE g == [k \in 0 .. m |-> IF k = m THEN UNION {NodeChanged(r, op, h) : r \in f[m - 1]} ELSE f[k]]
  <2>2. G(m, g)
    <3>1. ASSUME NEW k \in 0 .. m
          PROVE  g[k] = IF k = 0 THEN R ELSE UNION {NodeChanged(r, op, h) : r \in g[k - 1]}
      <4>1. CASE k = m
        <5>1. g[k] = UNION {NodeChanged(r, op, h) : r \in f[m - 1]} /\ g[k - 1] = f[m - 1]
          BY <4>1, <1>2, <1>4
        <5> HIDE DEF g
        <5> QED BY <5>1, <4>1, <1>4
      <4>2. CASE k # m
        <5>1. /\ g[k] = f[k] /\ (k # 0 => g[k - 1] = f[k - 1])
              /\ f[k] = IF k = 0 THEN R ELSE UNION {NodeChanged(r, op, h) : r \in f[k - 1]}
          <6>1. k \in 0 .. m - 1 /\ (k # 0 => k - 1 \in 0 .. m /\ k - 1 # m)
            BY <4>2, <1>2, <1>4
          <6>2. f[k] = IF k = 0 THEN R ELSE UNION {NodeChanged(r, op, h) : r \in f[k - 1]}
            BY <2>1, <6>1 DEF Iterates
          <6> QED BY <4>2, <6>1, <6>2
        <5> HIDE DEF g
        <5> QED BY <5>1
      <4> QED BY <4>1, <4>2
    <3>2. g = [k \in 0 .. m |-> g[k]]
      OBVIOUS
    <3> HIDE DEF g
    <3> QED BY <3>1, <3>2 DEF Iterates
  <2> HIDE DEF g
  <2> QED BY <1>2, <2>2
<1> QED BY <1>3, <1>4

\* A tree node allocated or freed leaves the reserve its chunks...
LEMMA NodeChangedKeeps ==
  ASSUME NEW r \in Reserves, NEW op, NEW h \in Heaps, NEW s \in NodeChanged(r, op, h)
  PROVE  s \in Reserves /\ s.chunks = r.chunks
<1>1. /\ r.nodeUnits \in [Heaps -> [Slots -> Int]] /\ r.nodes \in [Heaps -> Int]
      /\ r.chunks \in SUBSET Slots /\ NodesPerUnit \in Int
  BY ReserveAssumption DEF Reserves
<1>2. ASSUME NEW f \in [Heaps -> Int], NEW s1, s1 = [r EXCEPT !.nodes = f]
      PROVE  s1 \in Reserves /\ s1.chunks = r.chunks
  BY <1>2 DEF Reserves
<1>3. ASSUME NEW f \in [Heaps -> Int], NEW c \in r.chunks, NEW d \in {-1, 1}, NEW s1,
             s1 = [r EXCEPT !.nodes = f, !.nodeUnits[h][c] = @ + d]
      PROVE  s1 \in Reserves /\ s1.chunks = r.chunks
  <2>1. [r.nodeUnits EXCEPT ![h][c] = @ + d] \in [Heaps -> [Slots -> Int]]
    BY <1>1
  <2> QED BY <1>3, <2>1 DEF Reserves
<1>4. CASE op = "take"
  <2>1. CASE r.nodes[h] > 0
    <3>1. s = [r EXCEPT !.nodes = [r.nodes EXCEPT ![h] = @ - 1]]
      BY <1>4, <2>1 DEF NodeChanged, NodeTaken
    <3>2. [r.nodes EXCEPT ![h] = @ - 1] \in [Heaps -> Int]
      BY <1>1
    <3> QED BY <1>2, <3>1, <3>2
  <2>2. CASE ~(r.nodes[h] > 0)
    <3>1. PICK c \in r.chunks : s = [r EXCEPT !.nodes[h] = NodesPerUnit - 1, !.nodeUnits[h][c] = @ + 1]
      BY <1>4, <2>2 DEF NodeChanged, NodeTaken, Sources, Empty
    <3>2. s = [r EXCEPT !.nodes = [r.nodes EXCEPT ![h] = NodesPerUnit - 1], !.nodeUnits[h][c] = @ + 1]
      BY <3>1
    <3>3. [r.nodes EXCEPT ![h] = NodesPerUnit - 1] \in [Heaps -> Int]
      BY <1>1
    <3> QED BY <1>3, <3>2, <3>3
  <2> QED BY <2>1, <2>2
<1>5. CASE op # "take"
  <2> DEFINE q == [r EXCEPT !.nodes[h] = @ + 1]
  <2>1. q = [r EXCEPT !.nodes = [r.nodes EXCEPT ![h] = @ + 1]] /\ [r.nodes EXCEPT ![h] = @ + 1] \in [Heaps -> Int]
    BY <1>1
  <2>2. q \in Reserves /\ q.chunks = r.chunks
    BY <1>2, <2>1
  <2>3. CASE s = q
    BY <2>2, <2>3
  <2>4. CASE s # q
    <3>1. PICK c \in r.chunks : s = [q EXCEPT !.nodes[h] = @ - NodesPerUnit, !.nodeUnits[h][c] = @ - 1]
      BY <1>5, <2>2, <2>4 DEF NodeChanged, NodeGiven
    <3> HIDE DEF q
    <3>2. q.nodeUnits \in [Heaps -> [Slots -> Int]] /\ q.nodes \in [Heaps -> Int]
      BY <2>2 DEF Reserves
    <3>3. /\ [q.nodeUnits EXCEPT ![h][c] = @ - 1] \in [Heaps -> [Slots -> Int]]
          /\ [q.nodes EXCEPT ![h] = @ - NodesPerUnit] \in [Heaps -> Int]
      BY <1>1, <3>2
    <3> QED BY <2>2, <3>1, <3>3 DEF Reserves
  <2> QED BY <2>3, <2>4
<1> QED BY <1>4, <1>5

\* Reserves that have these chunks.
Same(R, chunks) == \A r \in R : r \in Reserves /\ r.chunks = chunks

\* ... and so do any number of them.
LEMMA RepeatKeeps ==
  ASSUME NEW n \in Nat, NEW op, NEW h \in Heaps, NEW R, NEW chunks, Same(R, chunks)
  PROVE  Same(Repeat(n, op, R, h), chunks)
<1> DEFINE after[k \in 0 .. n] ==
             IF k = 0 THEN R ELSE UNION {NodeChanged(r, op, h) : r \in after[k - 1]}
<1>1. after = [k \in 0 .. n |-> IF k = 0 THEN R
                                ELSE UNION {NodeChanged(r, op, h) : r \in after[k - 1]}]
  <2>1. \E f : Iterates(n, op, R, h, f)
    BY RepeatExists
  <2> QED BY <2>1, Zenon DEF Iterates
<1>2. Repeat(n, op, R, h) = after[n]
  BY DEF Repeat
<1> HIDE DEF after
<1> DEFINE Bad == {k \in 0 .. n : ~ Same(after[k], chunks)}
<1>3. Bad = {}
  <2> SUFFICES ASSUME Bad # {} PROVE FALSE
    OBVIOUS
  <2>1. PICK k \in Bad : \A j \in Bad : k <= j
    <3>1. Bad \in SUBSET Nat
      OBVIOUS
    <3> HIDE DEF Bad
    <3> QED BY <3>1, LeastNat
  <2>2. k # 0
    <3>1. Same(after[0], chunks)
      BY <1>1
    <3> QED BY <2>1, <3>1
  <2>3. k - 1 \in 0 .. n /\ k - 1 \notin Bad
    BY <2>1, <2>2
  <2>4. after[k] = UNION {NodeChanged(r, op, h) : r \in after[k - 1]}
    BY <1>1, <2>1, <2>2
  <2>5. ASSUME NEW r \in after[k - 1], NEW s \in NodeChanged(r, op, h)
        PROVE  s \in Reserves /\ s.chunks = chunks
    <3>1. r \in Reserves /\ r.chunks = chunks
      BY <2>3 DEF Same
    <3> QED BY <3>1, NodeChangedKeeps
  <2>6. Same(after[k], chunks)
    BY <2>4, <2>5 DEF Same
  <2> QED BY <2>1, <2>6
<1> QED BY <1>2, <1>3

\* Taking one place from a space, or giving one back, deletes and adds some number of
\* ranges, never fewer than none.
LEMMA RangesCounted ==
  ASSUME NEW before \in SUBSET Int, IsFiniteSet(before), NEW x \in Int,
         NEW after, after = before \ {x} \/ after = before \cup {x}
  PROVE  RangesChanged(before, after)[1] \in Nat /\ RangesChanged(before, after)[2] \in Nat
<1> DEFINE Starts(free) == {s \in free : s - 1 \notin free}
<1>1. IsFiniteSet(after)
  BY FS_AddElement, FS_RemoveElement
<1>2. IsFiniteSet(Starts(before)) /\ IsFiniteSet(Starts(after))
  BY <1>1, FS_Subset
<1>3. Ranges(before) \in Nat /\ Ranges(after) \in Nat
  BY <1>2, FS_CardinalityType DEF Ranges
<1>4. CASE after \subseteq before
  <2>1. after = before \ {x} \/ after = before
    BY <1>4
  <2>2. Starts(before) \ {x} \subseteq Starts(after)
    BY <2>1
  <2>3. Cardinality(Starts(before) \ {x}) <= Cardinality(Starts(after))
    BY <1>2, <2>2, FS_Subset
  <2>4. /\ Cardinality(Starts(before) \ {x}) \in Nat
        /\ Cardinality(Starts(before) \ {x}) >= Cardinality(Starts(before)) - 1
    <3> HIDE DEF Starts
    <3>1. Cardinality(Starts(before)) \in Nat
      BY <1>2, FS_CardinalityType
    <3>2. IsFiniteSet(Starts(before) \ {x})
      BY <1>2, FS_RemoveElement
    <3>3. Cardinality(Starts(before) \ {x}) \in Nat
      BY <3>2, FS_CardinalityType
    <3>4. Cardinality(Starts(before) \ {x}) =
            IF x \in Starts(before) THEN Cardinality(Starts(before)) - 1 ELSE Cardinality(Starts(before))
      BY <1>2, FS_RemoveElement
    <3> QED BY <3>1, <3>3, <3>4
  <2>5. Ranges(after) - Ranges(before) + 1 \in Nat
    BY <1>3, <2>3, <2>4 DEF Ranges
  <2> QED BY <1>4, <2>5 DEF RangesChanged
<1>5. CASE ~(after \subseteq before)
  <2>1. after = before \cup {x}
    BY <1>5
  <2>2. Starts(after) \ {x} \subseteq Starts(before)
    BY <2>1
  <2>3. Cardinality(Starts(after) \ {x}) <= Cardinality(Starts(before))
    BY <1>2, <2>2, FS_Subset
  <2>4. /\ Cardinality(Starts(after) \ {x}) \in Nat
        /\ Cardinality(Starts(after) \ {x}) >= Cardinality(Starts(after)) - 1
    <3> HIDE DEF Starts
    <3>1. Cardinality(Starts(after)) \in Nat
      BY <1>2, FS_CardinalityType
    <3>2. IsFiniteSet(Starts(after) \ {x})
      BY <1>2, FS_RemoveElement
    <3>3. Cardinality(Starts(after) \ {x}) \in Nat
      BY <3>2, FS_CardinalityType
    <3>4. Cardinality(Starts(after) \ {x}) =
            IF x \in Starts(after) THEN Cardinality(Starts(after)) - 1 ELSE Cardinality(Starts(after))
      BY <1>2, FS_RemoveElement
    <3> QED BY <3>1, <3>3, <3>4
  <2>5. Ranges(before) - Ranges(after) + 1 \in Nat
    BY <1>3, <2>3, <2>4 DEF Ranges
  <2> QED BY <1>5, <2>5 DEF RangesChanged
<1> QED BY <1>4, <1>5

\* Whatever a space manager does to its trees, the reserve keeps its chunks.
LEMMA TreesKeep ==
  ASSUME NEW r \in Reserves, NEW before \in SUBSET Int, IsFiniteSet(before), NEW x \in Int,
         NEW after, after = before \ {x} \/ after = before \cup {x}
  PROVE  /\ Same(PhysicalTrees(r, before, after), r.chunks)
         /\ Same(LinearTrees(r, before, after), r.chunks)
<1> DEFINE n == RangesChanged(before, after)
           chunks == r.chunks
<1>1. n[1] \in Nat /\ n[2] \in Nat /\ 2 * n[1] \in Nat /\ 2 * n[2] \in Nat
  <2>1. n[1] \in Nat /\ n[2] \in Nat
    BY RangesCounted
  <2> HIDE DEF n
  <2> QED BY <2>1
<1>2. Same({r}, chunks)
  BY DEF Same
<1>3. "avl" \in Heaps /\ "aslr" \in Heaps
  BY DEF Heaps
<1> HIDE DEF n, chunks
<1>4. Same(PhysicalTrees(r, before, after), chunks)
  <2>1. Same(Repeat(2 * n[1], "give", {r}, "avl"), chunks)
    BY <1>1, <1>2, <1>3, RepeatKeeps
  <2>2. Same(Repeat(2 * n[2], "take", Repeat(2 * n[1], "give", {r}, "avl"), "avl"), chunks)
    BY <1>1, <1>3, <2>1, RepeatKeeps
  <2> QED BY <2>2 DEF PhysicalTrees, n
<1>5. Same(LinearTrees(r, before, after), chunks)
  <2> DEFINE R1 == Repeat(n[1], "give", {r}, "aslr")
             R2 == Repeat(n[1], "give", R1, "avl")
             R3 == Repeat(n[2], "take", R2, "aslr")
  <2>1. Same(R1, chunks)
    BY <1>1, <1>2, <1>3, RepeatKeeps
  <2>2. Same(R2, chunks)
    <3> HIDE DEF R1
    <3> QED BY <1>1, <1>3, <2>1, RepeatKeeps
  <2>3. Same(R3, chunks)
    <3> HIDE DEF R2
    <3> QED BY <1>1, <1>3, <2>2, RepeatKeeps
  <2>4. Same(Repeat(n[2], "take", R3, "avl"), chunks)
    <3> HIDE DEF R3
    <3> QED BY <1>1, <1>3, <2>3, RepeatKeeps
  <2> QED BY <2>4 DEF LinearTrees, n
<1> QED BY <1>4, <1>5 DEF chunks

\* The best fit of frames that are free is one of them.
LEMMA BestFitFree ==
  ASSUME NEW free \in SUBSET Nat, IsFiniteSet(free), free # {}
  PROVE  BestFit(free) \in free
<1> DEFINE starts == {f \in free : f - 1 \notin free}
           size(f) == Cardinality(RunFrom(free, f))
           Best(f) == \A g \in starts : size(f) < size(g) \/ (size(f) = size(g) /\ f <= g)
<1>1. starts # {}
  <2>1. PICK f \in free : \A g \in free : f <= g
    BY LeastNat
  <2> QED BY <2>1
<1>2. \A f \in free : size(f) \in Nat
  <2>1. \A f \in free : IsFiniteSet(RunFrom(free, f))
    BY FS_Subset DEF RunFrom
  <2> QED BY <2>1, FS_CardinalityType
<1> HIDE DEF size
<1>3. PICK m \in {size(f) : f \in starts} : \A k \in {size(f) : f \in starts} : m <= k
  <2>1. {size(f) : f \in starts} \in SUBSET Nat /\ {size(f) : f \in starts} # {}
    BY <1>1, <1>2
  <2> QED BY <2>1, LeastNat
<1>4. PICK f \in {g \in starts : size(g) = m} : \A h \in {g \in starts : size(g) = m} : f <= h
  <2>1. {g \in starts : size(g) = m} \in SUBSET Nat /\ {g \in starts : size(g) = m} # {}
    BY <1>3
  <2> QED BY <2>1, LeastNat
<1>5. f \in starts /\ Best(f)
  <2>1. \A g \in starts : size(g) \in Nat /\ m <= size(g)
    BY <1>2, <1>3
  <2> QED BY <1>4, <2>1
<1>6. BestFit(free) = CHOOSE g \in starts : Best(g)
  BY DEF BestFit, size
<1> HIDE DEF Best
<1> QED BY <1>5, <1>6
-----------------------------------------------------------------------------
(***************************************************************************)
(* Who owns what.  A slot is free, or one of the reserve's chunks, or a    *)
(* caller's, or in the hands of a call under way; a frame is free, or      *)
(* mapped, or in the hands of a call.  Whatever the reserve does, and      *)
(* however deep the calls are nested, each is owned once.                  *)
(***************************************************************************)
CallSet == [call : {"alloc", "free"}, by : {"user", "renew", "trim", "trimInFree"},
            at : {"phys", "lin", "pagein", "giveBack", "pageout", "return"},
            slot : Slots \cup {0}, frame : Frames \cup {0}, height : Nat]

\* The slot a call has, the frame it has and did not map or has unmapped, and its
\* slot while that is mapped.
SlotOf(c) == IF (IF c.call = "alloc" THEN c.slot # 0 ELSE c.at # "return") THEN {c.slot} ELSE {}
FrameOf(c) ==
  IF IF c.call = "alloc" THEN c.at \in {"lin", "pagein", "giveBack"}
     ELSE c.at = "phys" \/ (c.at = "pageout" /\ c.height > 0)
  THEN {c.frame} ELSE {}
MappedOf(c) ==
  IF IF c.call = "alloc" THEN c.at = "return" /\ c.slot # 0 ELSE c.at = "pageout" /\ c.height = 0
  THEN {c.slot} ELSE {}

WellFormed(c) ==
  /\ c \in CallSet
  /\ c.call = "alloc" =>
       /\ c.at # "pageout"
       /\ c.slot # 0 <=> (c.at = "pagein" \/ (c.at = "return" /\ c.frame # 0))
       /\ c.at \in {"lin", "pagein", "giveBack"} => c.frame # 0
       /\ c.at = "phys" => c.frame = 0
  /\ c.call = "free" =>
       /\ c.at \in {"pageout", "phys", "lin", "return"} /\ c.slot # 0
       /\ 0 \notin FrameOf(c)

Held(q) == UNION {SlotOf(q[k]) : k \in DOMAIN q}
InHand(q) == UNION {FrameOf(q[k]) : k \in DOMAIN q}
Mapped(q) == UNION {MappedOf(q[k]) : k \in DOMAIN q}
Named(q) == {q[k].slot : k \in DOMAIN q} \ {0}

Nested(q) ==
  /\ q \in Seq(CallSet)
  /\ \A k \in DOMAIN q : WellFormed(q[k])
  /\ \A j, k \in DOMAIN q : j # k => /\ SlotOf(q[j]) \cap SlotOf(q[k]) = {}
                                     /\ FrameOf(q[j]) \cap FrameOf(q[k]) = {}

\* The spaces, with the slots that calls hold, the frames they have in hand, and
\* the slots they hold mapped and that they name.
Spaces(lin, phys, pages, chunks, users, held, frames, mapped, named) ==
  /\ lin \subseteq Slots /\ phys \subseteq Frames /\ pages \in [Slots -> Frames \cup {0}]
  /\ chunks \subseteq Slots /\ users \subseteq Slots
  /\ lin \cap chunks = {} /\ lin \cap users = {} /\ chunks \cap users = {}
  /\ held \cap (lin \cup chunks \cup users) = {}
  /\ lin \cup chunks \cup users \cup held \in LinearSpaces
  /\ named \subseteq lin \cup chunks \cup users \cup held
  /\ \A s \in Slots : pages[s] # 0 <=> s \in chunks \cup users \cup mapped
  /\ \A s, t \in Slots : pages[s] # 0 /\ pages[s] = pages[t] => s = t
  /\ phys \cap frames = {}
  /\ \A s \in Slots : pages[s] \notin phys \cup frames
  /\ \A f \in Frames : f \in phys \cup frames \/ \E s \in Slots : pages[s] = f

Owned(lin, phys, pages, chunks, users, q) ==
  Nested(q) /\ Spaces(lin, phys, pages, chunks, users, Held(q), InHand(q), Mapped(q), Named(q))

(***************************************************************************)
(* The stack: what a call that is pushed on it adds.                       *)
(***************************************************************************)
\* The calls are the new one and those that were there.
LEMMA Places ==
  ASSUME NEW q \in Seq(CallSet), NEW c \in CallSet
  PROVE  /\ <<c>> \o q \in Seq(CallSet)
         /\ \A k \in DOMAIN q : k + 1 \in DOMAIN (<<c>> \o q) /\ (<<c>> \o q)[k + 1] = q[k]
         /\ 1 \in DOMAIN (<<c>> \o q) /\ (<<c>> \o q)[1] = c
         /\ \A k \in DOMAIN (<<c>> \o q) :
              k = 1 \/ (k # 1 /\ k - 1 \in DOMAIN q /\ (<<c>> \o q)[k] = q[k - 1])
         /\ DOMAIN q \subseteq Nat /\ DOMAIN (<<c>> \o q) \subseteq Nat
  OBVIOUS

\* What the calls hold is what the new one and the others hold...
LEMMA PushAdds ==
  ASSUME NEW q \in Seq(CallSet), NEW c \in CallSet
  PROVE  /\ Held(<<c>> \o q) = Held(q) \cup SlotOf(c)
         /\ InHand(<<c>> \o q) = InHand(q) \cup FrameOf(c)
         /\ Mapped(<<c>> \o q) = Mapped(q) \cup MappedOf(c)
         /\ Named(<<c>> \o q) = Named(q) \cup ({c.slot} \ {0})
<1> DEFINE p == <<c>> \o q
<1>1. /\ \A k \in DOMAIN q : k + 1 \in DOMAIN p /\ p[k + 1] = q[k]
      /\ 1 \in DOMAIN p /\ p[1] = c
      /\ \A k \in DOMAIN p : k = 1 \/ (k - 1 \in DOMAIN q /\ p[k] = q[k - 1])
  BY Places
<1> HIDE DEF p
<1>2. Held(p) = Held(q) \cup SlotOf(c)
  BY <1>1 DEF Held
<1>3. InHand(p) = InHand(q) \cup FrameOf(c)
  BY <1>1 DEF InHand
<1>4. Mapped(p) = Mapped(q) \cup MappedOf(c)
  BY <1>1 DEF Mapped
<1>5. Named(p) = Named(q) \cup ({c.slot} \ {0})
  BY <1>1 DEF Named
<1> QED BY <1>2, <1>3, <1>4, <1>5 DEF p

\* ... and they stay nested if it holds nothing that is held.
LEMMA PushNests ==
  ASSUME NEW q \in Seq(CallSet), NEW c \in CallSet
  PROVE  Nested(<<c>> \o q) <=>
           Nested(q) /\ WellFormed(c) /\ SlotOf(c) \cap Held(q) = {} /\ FrameOf(c) \cap InHand(q) = {}
<1> DEFINE p == <<c>> \o q
           Apart(a, b) == SlotOf(a) \cap SlotOf(b) = {} /\ FrameOf(a) \cap FrameOf(b) = {}
<1>1. /\ p \in Seq(CallSet)
      /\ \A k \in DOMAIN q : k + 1 \in DOMAIN p /\ p[k + 1] = q[k]
      /\ 1 \in DOMAIN p /\ p[1] = c
      /\ \A k \in DOMAIN p : k = 1 \/ (k # 1 /\ k - 1 \in DOMAIN q /\ p[k] = q[k - 1])
      /\ DOMAIN q \subseteq Nat /\ DOMAIN p \subseteq Nat
  BY Places
<1> HIDE DEF p
<1>2. SlotOf(c) \cap Held(q) = {} /\ FrameOf(c) \cap InHand(q) = {} <=> \A k \in DOMAIN q : Apart(c, q[k])
  BY DEF Held, InHand
<1>3. \A s : Nested(s) <=> /\ s \in Seq(CallSet) /\ \A k \in DOMAIN s : WellFormed(s[k])
                          /\ \A j, k \in DOMAIN s : j # k => Apart(s[j], s[k])
  BY DEF Nested
<1>4. \A a, b : Apart(a, b) <=> Apart(b, a)
  OBVIOUS
<1> HIDE DEF Apart
<1>5. (\A k \in DOMAIN p : WellFormed(p[k])) <=> WellFormed(c) /\ \A k \in DOMAIN q : WellFormed(q[k])
  BY <1>1
<1>6. (\A j, k \in DOMAIN p : j # k => Apart(p[j], p[k])) <=>
        /\ \A k \in DOMAIN q : Apart(c, q[k])
        /\ \A j, k \in DOMAIN q : j # k => Apart(q[j], q[k])
  <2>1. ASSUME \A j, k \in DOMAIN p : j # k => Apart(p[j], p[k])
        PROVE  /\ \A k \in DOMAIN q : Apart(c, q[k])
               /\ \A j, k \in DOMAIN q : j # k => Apart(q[j], q[k])
    <3>1. ASSUME NEW k \in DOMAIN q PROVE Apart(c, q[k])
      <4>1. k + 1 # 1 /\ k + 1 \in DOMAIN p /\ p[k + 1] = q[k]
        BY <1>1
      <4> QED BY <1>1, <2>1, <4>1
    <3>2. ASSUME NEW j \in DOMAIN q, NEW k \in DOMAIN q, j # k PROVE Apart(q[j], q[k])
      <4>1. k + 1 # j + 1 /\ k + 1 \in DOMAIN p /\ p[k + 1] = q[k] /\ j + 1 \in DOMAIN p /\ p[j + 1] = q[j]
        BY <1>1, <3>2
      <4> QED BY <2>1, <4>1
    <3> QED BY <3>1, <3>2
  <2>2. ASSUME \A k \in DOMAIN q : Apart(c, q[k]),
               \A j, k \in DOMAIN q : j # k => Apart(q[j], q[k]),
               NEW j \in DOMAIN p, NEW k \in DOMAIN p, j # k
        PROVE  Apart(p[j], p[k])
    <3>1. CASE j = 1 \/ k = 1
      BY <1>1, <1>4, <2>2, <3>1
    <3>2. CASE j # 1 /\ k # 1
      <4>1. j - 1 # k - 1 /\ k - 1 \in DOMAIN q /\ p[k] = q[k - 1] /\ j - 1 \in DOMAIN q /\ p[j] = q[j - 1]
        BY <1>1, <2>2, <3>2
      <4> QED BY <2>2, <4>1
    <3> QED BY <3>1, <3>2
  <2> QED BY <2>1, <2>2
<1>7. Nested(p) <=> /\ p \in Seq(CallSet) /\ \A k \in DOMAIN p : WellFormed(p[k])
                    /\ \A j, k \in DOMAIN p : j # k => Apart(p[j], p[k])
  BY <1>3
<1>8. Nested(q) <=> /\ q \in Seq(CallSet) /\ \A k \in DOMAIN q : WellFormed(q[k])
                    /\ \A j, k \in DOMAIN q : j # k => Apart(q[j], q[k])
  BY <1>3
<1> QED BY <1>1, <1>2, <1>5, <1>6, <1>7, <1>8 DEF p

IInv == reserve \in Reserves /\ Owned(freeLin, freePhys, map, reserve.chunks, user, stack)

\* What is mapped of what the calls hold.
LEMMA MappedHeld ==
  ASSUME NEW q, Nested(q)
  PROVE  Mapped(q) \subseteq Held(q) /\ Held(q) \subseteq Named(q) /\ 0 \notin InHand(q)
<1>1. ASSUME NEW c, WellFormed(c)
      PROVE  MappedOf(c) \subseteq SlotOf(c) /\ SlotOf(c) \subseteq {c.slot} /\ 0 \notin SlotOf(c) /\ 0 \notin FrameOf(c)
  BY <1>1 DEF WellFormed, MappedOf, SlotOf, FrameOf, CallSet
<1>2. \A k \in DOMAIN q : WellFormed(q[k])
  BY DEF Nested
<1>3. \A k \in DOMAIN q : /\ MappedOf(q[k]) \subseteq SlotOf(q[k]) /\ SlotOf(q[k]) \subseteq {q[k].slot}
                         /\ 0 \notin SlotOf(q[k]) /\ 0 \notin FrameOf(q[k])
  BY <1>1, <1>2
<1>4. Mapped(q) \subseteq Held(q)
  BY <1>3 DEF Mapped, Held
<1>5. Held(q) \subseteq Named(q)
  BY <1>3 DEF Held, Named
<1>6. 0 \notin InHand(q)
  BY <1>3 DEF InHand
<1> QED BY <1>4, <1>5, <1>6

\* The innermost call apart from the others.
LEMMA OwnedPush ==
  ASSUME NEW lin, NEW phys, NEW pages, NEW chunks, NEW users,
         NEW q \in Seq(CallSet), NEW c \in CallSet
  PROVE  Owned(lin, phys, pages, chunks, users, <<c>> \o q) <=>
           /\ Nested(q) /\ WellFormed(c) /\ SlotOf(c) \cap Held(q) = {} /\ FrameOf(c) \cap InHand(q) = {}
           /\ Spaces(lin, phys, pages, chunks, users, Held(q) \cup SlotOf(c), InHand(q) \cup FrameOf(c),
                     Mapped(q) \cup MappedOf(c), Named(q) \cup ({c.slot} \ {0}))
BY PushAdds, PushNests DEF Owned

\* There are no slot 0 and no frame 0.
LEMMA NoZero == 0 \notin Slots /\ 0 \notin Frames /\ Slots \subseteq Int /\ Frames \subseteq Nat
<1>1. \A x : 0 \notin 1 .. x /\ 1 .. x \subseteq Int /\ 1 .. x \subseteq Nat
  OBVIOUS
<1> QED BY <1>1, SlotsAssumption, Zenon

\* The machinery ends a call: what it had in its hands is another's.
LEMMA PushRenewal ==
  ASSUME NEW lin, NEW phys, NEW pages, NEW chunks, NEW users, NEW q,
         NEW by \in {"user", "renew"}, Owned(lin, phys, pages, chunks, users, q)
  PROVE  Owned(lin, phys, pages, chunks, users, <<Call("alloc", by, "phys", 0)>> \o q)
<1> DEFINE c == Call("alloc", by, "phys", 0)
<1>1. c \in CallSet /\ WellFormed(c) /\ SlotOf(c) = {} /\ FrameOf(c) = {} /\ MappedOf(c) = {} /\ c.slot = 0
  BY DEF Call, CallSet, WellFormed, SlotOf, FrameOf, MappedOf
<1>2. q \in Seq(CallSet) /\ Nested(q)
      /\ Spaces(lin, phys, pages, chunks, users, Held(q), InHand(q), Mapped(q), Named(q))
  BY DEF Owned, Nested
<1> HIDE DEF c
<1>3. /\ Held(q) \cup SlotOf(c) = Held(q) /\ InHand(q) \cup FrameOf(c) = InHand(q)
      /\ Mapped(q) \cup MappedOf(c) = Mapped(q) /\ Named(q) \cup ({c.slot} \ {0}) = Named(q)
      /\ SlotOf(c) \cap Held(q) = {} /\ FrameOf(c) \cap InHand(q) = {}
  BY <1>1
<1>4. Owned(lin, phys, pages, chunks, users, <<c>> \o q)
  BY <1>1, <1>2, <1>3, OwnedPush
<1> QED BY <1>4 DEF c

\* A chunk that leaves the reserve, or that a caller frees, is in the hands of the
\* call of free.
LEMMA PushFree ==
  ASSUME NEW lin, NEW phys, NEW pages, NEW chunks, NEW users, NEW q,
         NEW by \in {"user", "trim", "trimInFree"}, NEW s \in chunks \cup users,
         Owned(lin, phys, pages, chunks, users, q)
  PROVE  Owned(lin, phys, pages, chunks \ {s}, users \ {s}, <<Call("free", by, "pageout", s)>> \o q)
<1> DEFINE c == Call("free", by, "pageout", s)
           H == Held(q)
           F == InHand(q)
           M == Mapped(q)
           N == Named(q)
<1>1. q \in Seq(CallSet) /\ Nested(q) /\ Spaces(lin, phys, pages, chunks, users, H, F, M, N)
  BY DEF Owned, Nested
<1>2. s \in Slots /\ s # 0 /\ s \notin lin /\ s \notin H
  BY <1>1, NoZero DEF Spaces
<1>3. c \in CallSet /\ WellFormed(c) /\ SlotOf(c) = {s} /\ FrameOf(c) = {} /\ MappedOf(c) = {s} /\ {c.slot} \ {0} = {s}
  BY <1>2 DEF Call, CallSet, WellFormed, SlotOf, FrameOf, MappedOf
<1> HIDE DEF c, H, F, M, N
<1>4. Spaces(lin, phys, pages, chunks \ {s}, users \ {s}, H \cup {s}, F, M \cup {s}, N \cup {s})
  <2>1. lin \cup (chunks \ {s}) \cup (users \ {s}) \cup (H \cup {s}) = lin \cup chunks \cup users \cup H
    OBVIOUS
  <2>2. \A t \in Slots : t \in (chunks \ {s}) \cup (users \ {s}) \cup (M \cup {s}) <=> t \in chunks \cup users \cup M
    OBVIOUS
  <2>3. (H \cup {s}) \cap (lin \cup (chunks \ {s}) \cup (users \ {s})) = {}
    BY <1>1, <1>2 DEF Spaces
  <2>4. N \cup {s} \subseteq lin \cup chunks \cup users \cup H
    BY <1>1 DEF Spaces
  <2> QED BY <1>1, <2>1, <2>2, <2>3, <2>4 DEF Spaces
<1>5. Owned(lin, phys, pages, chunks \ {s}, users \ {s}, <<c>> \o q)
  <2>1. /\ Held(q) \cup SlotOf(c) = H \cup {s} /\ InHand(q) \cup FrameOf(c) = F
        /\ Mapped(q) \cup MappedOf(c) = M \cup {s} /\ Named(q) \cup ({c.slot} \ {0}) = N \cup {s}
        /\ SlotOf(c) \cap Held(q) = {} /\ FrameOf(c) \cap InHand(q) = {}
    BY <1>3, <1>2 DEF H, F, M, N
  <2> QED BY <1>3, <1>1, <1>4, <2>1, OwnedPush
<1> QED BY <1>5 DEF c

(***************************************************************************)
(* What follows a step leaves everything owned once: it may begin a call,  *)
(* and the slot of that call is a chunk the reserve gives up.              *)
(***************************************************************************)
Settled(lin, phys, pages, users) ==
  reserve' \in Reserves /\ Owned(lin, phys, pages, reserve'.chunks, users, stack')

\* The reserve with its lock taken or released, or with fewer chunks.
LEMMA ReserveWith ==
  ASSUME NEW r \in Reserves
  PROVE  /\ Locked(r) \in Reserves /\ Locked(r).chunks = r.chunks
         /\ Unlocked(r) \in Reserves /\ Unlocked(r).chunks = r.chunks
         /\ \A c : [r EXCEPT !.chunks = @ \ {c}] \in Reserves
         /\ \A c : [r EXCEPT !.chunks = @ \ {c}].chunks = r.chunks \ {c}
         /\ \A c \in Slots : [r EXCEPT !.chunks = @ \cup {c}] \in Reserves
         /\ \A c \in Slots : [r EXCEPT !.chunks = @ \cup {c}].chunks = r.chunks \cup {c}
BY DEF Reserves, Locked, Unlocked

\* A chunk that is trimmed is the slot of the call of free from then on.
LEMMA TrimKeeps ==
  ASSUME NEW lin, NEW phys, NEW pages, NEW users, NEW r \in Reserves, NEW calls,
         NEW by \in {"trim", "trimInFree"},
         Owned(lin, phys, pages, r.chunks, users, calls), Trim(r, calls, by)
  PROVE  Settled(lin, phys, pages, users)
<1>1. PICK c \in r.chunks : /\ reserve' = [r EXCEPT !.chunks = @ \ {c}]
                           /\ stack' = <<Call("free", by, "pageout", c)>> \o calls
  BY DEF Trim, Settle, Empty
<1>2. Owned(lin, phys, pages, r.chunks \ {c}, users \ {c}, <<Call("free", by, "pageout", c)>> \o calls)
  BY PushFree
<1>3. users \ {c} = users
  BY DEF Owned, Spaces
<1>4. reserve' \in Reserves /\ reserve'.chunks = r.chunks \ {c}
  BY <1>1, ReserveWith
<1> QED BY <1>1, <1>2, <1>3, <1>4 DEF Settled

\* unlock() may begin a call that renews the reserve, or one that trims it.
LEMMA UnlockKeeps ==
  ASSUME NEW lin, NEW phys, NEW pages, NEW users, NEW r \in Reserves, NEW calls,
         Owned(lin, phys, pages, r.chunks, users, calls), Unlock(r, calls)
  PROVE  Settled(lin, phys, pages, users)
<1>1. CASE Settle(Unlocked(r), calls)
  BY <1>1, ReserveWith DEF Settle, Settled
<1>2. CASE Settle(r, <<Call("alloc", "renew", "phys", 0)>> \o calls)
  <2>1. Owned(lin, phys, pages, r.chunks, users, <<Call("alloc", "renew", "phys", 0)>> \o calls)
    BY PushRenewal
  <2> QED BY <1>2, <2>1 DEF Settle, Settled
<1>3. CASE Trim(r, calls, "trim")
  BY <1>3, TrimKeeps
<1> QED BY <1>1, <1>2, <1>3 DEF Unlock

\* So may the rest of the free() of the reserve,
LEMMA TrimAndUnlockKeeps ==
  ASSUME NEW lin, NEW phys, NEW pages, NEW users, NEW r \in Reserves, NEW calls,
         Owned(lin, phys, pages, r.chunks, users, calls), TrimAndUnlock(r, calls)
  PROVE  Settled(lin, phys, pages, users)
BY TrimKeeps, UnlockKeeps DEF TrimAndUnlock

\* and a free() of a unit, which locks the reserve if it is not locked.
LEMMA UnitFreedKeeps ==
  ASSUME NEW lin, NEW phys, NEW pages, NEW users, NEW r \in Reserves, NEW calls,
         Owned(lin, phys, pages, r.chunks, users, calls), UnitFreed(r, calls)
  PROVE  Settled(lin, phys, pages, users)
<1>1. CASE Settle(r, calls)
  BY <1>1 DEF Settle, Settled
<1>2. CASE TrimAndUnlock(Locked(r), calls)
  BY <1>2, ReserveWith, TrimAndUnlockKeeps
<1> QED BY <1>1, <1>2 DEF UnitFreed

\* A step under the lock, with any of the reserves that have the chunks it began with.
LEMMA UnderLockKeeps ==
  ASSUME NEW lin, NEW phys, NEW pages, NEW users, NEW chunks, NEW R, NEW calls,
         Same(R, chunks), Owned(lin, phys, pages, chunks, users, calls), UnderLock(R, calls)
  PROVE  Settled(lin, phys, pages, users)
<1>1. PICK r \in R : Unlock(r, calls)
  BY DEF UnderLock
<1>2. r \in Reserves /\ r.chunks = chunks
  BY DEF Same
<1> QED BY <1>1, <1>2, UnlockKeeps
-----------------------------------------------------------------------------
(***************************************************************************)
(* The steps.                                                              *)
(***************************************************************************)
\* The call that takes a step, and those it is nested in.
LEMMA Stacked ==
  ASSUME IInv, stack # <<>>
  PROVE  /\ stack = <<Top>> \o Rest /\ Rest \in Seq(CallSet) /\ Top \in CallSet
         /\ Nested(Rest) /\ WellFormed(Top)
         /\ SlotOf(Top) \cap Held(Rest) = {} /\ FrameOf(Top) \cap InHand(Rest) = {}
         /\ Spaces(freeLin, freePhys, map, reserve.chunks, user, Held(Rest) \cup SlotOf(Top),
                   InHand(Rest) \cup FrameOf(Top), Mapped(Rest) \cup MappedOf(Top),
                   Named(Rest) \cup ({Top.slot} \ {0}))
<1>1. stack \in Seq(CallSet)
  BY DEF IInv, Owned, Nested
<1>2. stack = <<Top>> \o Rest /\ Rest \in Seq(CallSet) /\ Top \in CallSet
  BY <1>1 DEF Top, Rest
<1>3. Owned(freeLin, freePhys, map, reserve.chunks, user, <<Top>> \o Rest)
  BY <1>2 DEF IInv
<1> HIDE DEF Top, Rest
<1> QED BY <1>2, <1>3, OwnedPush

\* The trees of both spaces, when a frame or a slot leaves or enters them.
LEMMA TreesKeepHere ==
  ASSUME IInv,
         NEW before \in {freeLin, freePhys}, NEW x \in Int,
         NEW after, after = before \ {x} \/ after = before \cup {x}
  PROVE  /\ Same(PhysicalTrees(Locked(reserve), before, after), reserve.chunks)
         /\ Same(LinearTrees(Locked(reserve), before, after), reserve.chunks)
<1>1. IsFiniteSet(Slots) /\ IsFiniteSet(Frames)
  BY SlotsAssumption
<1>2. before \in SUBSET Int /\ IsFiniteSet(before)
  <2>1. freeLin \subseteq Slots /\ freePhys \subseteq Frames
    BY DEF IInv, Owned, Spaces
  <2>2. Slots \subseteq Int /\ Frames \subseteq Int
    BY NoZero
  <2> QED BY <1>1, <2>1, <2>2, FS_Subset
<1>3. Locked(reserve) \in Reserves /\ Locked(reserve).chunks = reserve.chunks
  BY ReserveWith DEF IInv
<1> QED BY <1>2, <1>3, TreesKeep

\* A frame goes from the space manager to a call...
LEMMA FrameTaken ==
  ASSUME NEW lin, NEW phys, NEW pages, NEW chunks, NEW users, NEW held, NEW frames,
         NEW mapped, NEW named,
         NEW f \in phys, Spaces(lin, phys, pages, chunks, users, held, frames, mapped, named)
  PROVE  /\ Spaces(lin, phys \ {f}, pages, chunks, users, held, frames \cup {f}, mapped, named)
         /\ f \in Frames /\ f # 0 /\ f \notin frames
BY NoZero DEF Spaces

\* ... and back.
LEMMA FrameGiven ==
  ASSUME NEW lin, NEW phys, NEW pages, NEW chunks, NEW users, NEW held, NEW frames,
         NEW mapped, NEW named,
         NEW f \in Frames, f \notin frames,
         Spaces(lin, phys, pages, chunks, users, held, frames \cup {f}, mapped, named)
  PROVE  Spaces(lin, phys \cup {f}, pages, chunks, users, held, frames, mapped, named)
BY NoZero DEF Spaces

\* A slot goes from the space manager to a call...
LEMMA SlotTaken ==
  ASSUME NEW lin, NEW phys, NEW pages, NEW chunks, NEW users, NEW held, NEW frames,
         NEW mapped, NEW named,
         NEW s \in lin, mapped \subseteq held,
         Spaces(lin, phys, pages, chunks, users, held, frames, mapped, named)
  PROVE  /\ Spaces(lin \ {s}, phys, pages, chunks, users, held \cup {s}, frames, mapped, named \cup {s})
         /\ s \in Slots /\ s # 0 /\ s \notin held
<1>1. (lin \ {s}) \cup chunks \cup users \cup (held \cup {s}) = lin \cup chunks \cup users \cup held
  OBVIOUS
<1>2. (held \cup {s}) \cap ((lin \ {s}) \cup chunks \cup users) = {}
  BY DEF Spaces
<1>3. named \cup {s} \subseteq lin \cup chunks \cup users \cup held
  BY DEF Spaces
<1> QED BY <1>1, <1>2, <1>3, NoZero DEF Spaces

\* ... and back...
LEMMA SlotGiven ==
  ASSUME NEW lin, NEW phys, NEW pages, NEW chunks, NEW users, NEW held, NEW frames,
         NEW mapped, NEW named,
         NEW s \in Slots, s \notin held,
         Spaces(lin, phys, pages, chunks, users, held \cup {s}, frames, mapped, named \cup {s})
  PROVE  Spaces(lin \cup {s}, phys, pages, chunks, users, held, frames, mapped, named \cup {s})
<1>1. (lin \cup {s}) \cup chunks \cup users \cup held = lin \cup chunks \cup users \cup (held \cup {s})
  OBVIOUS
<1>2. held \cap ((lin \cup {s}) \cup chunks \cup users) = {} /\ (lin \cup {s}) \cap (chunks \cup users) = {}
  BY DEF Spaces
<1> QED BY <1>1, <1>2 DEF Spaces

\* ... or to the caller, mapped, or into the reserve.
LEMMA SlotHanded ==
  ASSUME NEW lin, NEW phys, NEW pages, NEW chunks, NEW users, NEW held, NEW frames,
         NEW mapped, NEW named,
         NEW s \in Slots, s \notin held, mapped \subseteq held,
         Spaces(lin, phys, pages, chunks, users, held \cup {s}, frames, mapped \cup {s}, named \cup {s})
  PROVE  /\ Spaces(lin, phys, pages, chunks, users \cup {s}, held, frames, mapped, named)
         /\ Spaces(lin, phys, pages, chunks \cup {s}, users, held, frames, mapped, named)
<1>1. /\ lin \cup chunks \cup (users \cup {s}) \cup held = lin \cup chunks \cup users \cup (held \cup {s})
      /\ lin \cup (chunks \cup {s}) \cup users \cup held = lin \cup chunks \cup users \cup (held \cup {s})
      /\ chunks \cup (users \cup {s}) \cup mapped = chunks \cup users \cup (mapped \cup {s})
      /\ (chunks \cup {s}) \cup users \cup mapped = chunks \cup users \cup (mapped \cup {s})
  OBVIOUS
<1>2. /\ held \cap (lin \cup chunks \cup (users \cup {s})) = {}
      /\ held \cap (lin \cup (chunks \cup {s}) \cup users) = {}
      /\ lin \cap (users \cup {s}) = {} /\ lin \cap (chunks \cup {s}) = {}
      /\ chunks \cap (users \cup {s}) = {} /\ (chunks \cup {s}) \cap users = {}
  BY DEF Spaces
<1> QED BY <1>1, <1>2 DEF Spaces

\* A page is mapped: the frame is no longer in hand...
LEMMA PageMapped ==
  ASSUME NEW lin, NEW phys, NEW pages, NEW chunks, NEW users, NEW held, NEW frames,
         NEW mapped, NEW named,
         NEW s \in Slots, s \notin held, mapped \subseteq held, NEW f \in Frames, f \notin frames,
         Spaces(lin, phys, pages, chunks, users, held \cup {s}, frames \cup {f}, mapped, named)
  PROVE  /\ pages[s] = 0
         /\ Spaces(lin, phys, [pages EXCEPT ![s] = f], chunks, users, held \cup {s}, frames,
                   mapped \cup {s}, named)
<1> DEFINE new == [pages EXCEPT ![s] = f]
<1>1. s \notin chunks \cup users \cup mapped /\ pages[s] = 0
  BY DEF Spaces
<1>2. pages \in [Slots -> Frames \cup {0}] /\ new \in [Slots -> Frames \cup {0}] /\ f # 0
      /\ \A t \in Slots : new[t] = IF t = s THEN f ELSE pages[t]
  BY NoZero DEF Spaces
<1> HIDE DEF new
<1>3. \A t \in Slots : new[t] # 0 <=> t \in chunks \cup users \cup (mapped \cup {s})
  BY <1>1, <1>2 DEF Spaces
<1>4. \A t, u \in Slots : new[t] # 0 /\ new[t] = new[u] => t = u
  BY <1>2 DEF Spaces
<1>5. \A t \in Slots : new[t] \notin phys \cup frames
  BY <1>2 DEF Spaces
<1>6. \A g \in Frames : g \in phys \cup frames \/ \E t \in Slots : new[t] = g
  BY <1>1, <1>2, NoZero DEF Spaces
<1>7. Spaces(lin, phys, new, chunks, users, held \cup {s}, frames, mapped \cup {s}, named)
  BY <1>2, <1>3, <1>4, <1>5, <1>6 DEF Spaces
<1> QED BY <1>1, <1>7 DEF new

\* ... and when it is unmapped the call has it in hand again.
LEMMA PageUnmapped ==
  ASSUME NEW lin, NEW phys, NEW pages, NEW chunks, NEW users, NEW held, NEW frames,
         NEW mapped, NEW named,
         NEW s \in Slots, s \notin held, mapped \subseteq held, 0 \notin frames,
         Spaces(lin, phys, pages, chunks, users, held \cup {s}, frames, mapped \cup {s}, named)
  PROVE  /\ pages[s] \in Frames /\ pages[s] # 0 /\ pages[s] \notin frames
         /\ Spaces(lin, phys, [pages EXCEPT ![s] = 0], chunks, users, held \cup {s},
                   frames \cup {pages[s]}, mapped, named)
<1> DEFINE new == [pages EXCEPT ![s] = 0]
<1>1. s \notin chunks \cup users \cup mapped /\ pages[s] # 0
  BY DEF Spaces
<1>2. /\ pages \in [Slots -> Frames \cup {0}] /\ new \in [Slots -> Frames \cup {0}]
      /\ \A t \in Slots : new[t] = IF t = s THEN 0 ELSE pages[t]
      /\ pages[s] \in Frames /\ pages[s] \notin phys \cup frames
  BY <1>1 DEF Spaces
<1> HIDE DEF new
<1>3. \A t \in Slots : new[t] # 0 <=> t \in chunks \cup users \cup mapped
  BY <1>1, <1>2 DEF Spaces
<1>4. \A t, u \in Slots : new[t] # 0 /\ new[t] = new[u] => t = u
  BY <1>2 DEF Spaces
<1>5. \A t \in Slots : new[t] \notin phys \cup (frames \cup {pages[s]})
  <2>1. 0 \notin phys /\ phys \cap frames = {}
    BY NoZero DEF Spaces
  <2> QED BY <1>1, <1>2, <2>1 DEF Spaces
<1>6. \A g \in Frames : g \in phys \cup (frames \cup {pages[s]}) \/ \E t \in Slots : new[t] = g
  BY <1>1, <1>2, NoZero DEF Spaces
<1>7. Spaces(lin, phys, new, chunks, users, held \cup {s}, frames \cup {pages[s]}, mapped, named)
  BY <1>2, <1>3, <1>4, <1>5, <1>6 DEF Spaces
<1> QED BY <1>1, <1>2, <1>7 DEF new

\* What a call names that ends is forgotten.
LEMMA NameForgotten ==
  ASSUME NEW lin, NEW phys, NEW pages, NEW chunks, NEW users, NEW held, NEW frames,
         NEW mapped, NEW named,
         NEW s, Spaces(lin, phys, pages, chunks, users, held, frames, mapped, named \cup s)
  PROVE  Spaces(lin, phys, pages, chunks, users, held, frames, mapped, named)
BY DEF Spaces

\* The call that goes on, with what it now has, above the calls it is nested in.
LEMMA GoesOnOwned ==
  ASSUME NEW lin, NEW phys, NEW pages, NEW users, IInv, stack # <<>>, NEW c, WellFormed(c),
         SlotOf(c) \cap Held(Rest) = {}, FrameOf(c) \cap InHand(Rest) = {},
         Spaces(lin, phys, pages, reserve.chunks, users, Held(Rest) \cup SlotOf(c),
                InHand(Rest) \cup FrameOf(c), Mapped(Rest) \cup MappedOf(c),
                Named(Rest) \cup ({c.slot} \ {0}))
  PROVE  Owned(lin, phys, pages, reserve.chunks, users, <<c>> \o Rest)
<1>1. Rest \in Seq(CallSet) /\ Nested(Rest) /\ c \in CallSet
  BY Stacked DEF WellFormed
<1> QED BY <1>1, OwnedPush

\* It goes on with what it had.
LEMMA SameInHand ==
  ASSUME IInv, stack # <<>>, NEW c, WellFormed(c), SlotOf(c) = SlotOf(Top), FrameOf(c) = FrameOf(Top),
         MappedOf(c) = MappedOf(Top), c.slot = Top.slot
  PROVE  Owned(freeLin, freePhys, map, reserve.chunks, user, <<c>> \o Rest)
BY Stacked, GoesOnOwned

\* A page table allocated or freed: the chunks are the same.
LEMMA HomeWith ==
  ASSUME NEW r \in Reserves, NEW t, NEW c \in Slots \cup {0}
  PROVE  [r EXCEPT !.home[t] = c] \in Reserves /\ [r EXCEPT !.home[t] = c].chunks = r.chunks
<1>1. [r.home EXCEPT ![t] = c] \in [Tables -> Slots \cup {0}]
  BY DEF Reserves
<1> QED BY <1>1 DEF Reserves

\* alloc takes its physical memory.
LEMMA StepAllocPhysical == IInv /\ AllocPhysical => IInv'
<1> SUFFICES ASSUME IInv, AllocPhysical PROVE IInv'
  OBVIOUS
<1> DEFINE f == BestFit(freePhys)
           c == [Top EXCEPT !.at = "lin", !.frame = f]
           R == PhysicalTrees(Locked(reserve), freePhys, freePhys \ {f})
<1>1. At("alloc", "phys") /\ stack # <<>> /\ freePhys # {} /\ UNCHANGED <<freeLin, map, user>>
  BY DEF AllocPhysical, At, Halt
<1>2. /\ WellFormed(Top)
      /\ Spaces(freeLin, freePhys, map, reserve.chunks, user, Held(Rest) \cup SlotOf(Top),
                InHand(Rest) \cup FrameOf(Top), Mapped(Rest) \cup MappedOf(Top),
                Named(Rest) \cup ({Top.slot} \ {0}))
  BY <1>1, Stacked
<1>3. f \in freePhys
  <2>1. freePhys \subseteq Frames /\ Frames \subseteq Nat /\ IsFiniteSet(Frames)
    BY <1>2, NoZero, SlotsAssumption DEF Spaces
  <2>2. freePhys \in SUBSET Nat /\ IsFiniteSet(freePhys)
    BY <2>1, FS_Subset
  <2> QED BY <1>1, <2>2, BestFitFree
<1>4. /\ SlotOf(Top) = {} /\ FrameOf(Top) = {} /\ MappedOf(Top) = {} /\ {Top.slot} \ {0} = {}
  BY <1>1, <1>2 DEF At, WellFormed, SlotOf, FrameOf, MappedOf, CallSet
<1>5. /\ Spaces(freeLin, freePhys \ {f}, map, reserve.chunks, user, Held(Rest), InHand(Rest) \cup {f},
                Mapped(Rest), Named(Rest))
      /\ f \in Frames /\ f # 0 /\ f \notin InHand(Rest)
  <2>1. Spaces(freeLin, freePhys, map, reserve.chunks, user, Held(Rest), InHand(Rest), Mapped(Rest), Named(Rest))
    BY <1>2, <1>4
  <2> HIDE DEF f
  <2> QED BY <1>3, <2>1, FrameTaken
<1>6. WellFormed(c) /\ SlotOf(c) = {} /\ FrameOf(c) = {f} /\ MappedOf(c) = {} /\ {c.slot} \ {0} = {}
  <2> HIDE DEF f
  <2> QED BY <1>1, <1>2, <1>5 DEF At, WellFormed, SlotOf, FrameOf, MappedOf, CallSet
<1>7. CASE Halt("dry")
  BY <1>7 DEF Halt, IInv, Rest, Top
<1>8. CASE freePhys' = freePhys \ {f} /\ UnderLock(R, <<c>> \o Rest)
  <2>1. Owned(freeLin, freePhys \ {f}, map, reserve.chunks, user, <<c>> \o Rest)
    <3> HIDE DEF c, f
    <3>1. Spaces(freeLin, freePhys \ {f}, map, reserve.chunks, user, Held(Rest) \cup SlotOf(c),
                 InHand(Rest) \cup FrameOf(c), Mapped(Rest) \cup MappedOf(c),
                 Named(Rest) \cup ({c.slot} \ {0}))
      BY <1>5, <1>6
    <3>2. SlotOf(c) \cap Held(Rest) = {} /\ FrameOf(c) \cap InHand(Rest) = {}
      BY <1>5, <1>6
    <3> QED BY <1>1, <1>6, <3>1, <3>2, GoesOnOwned
  <2>2. Same(R, reserve.chunks)
    <3> HIDE DEF f
    <3>1. f \in Int
      BY <1>5, NoZero
    <3> QED BY <3>1, TreesKeepHere
  <2> HIDE DEF c, R, f
  <2>3. Settled(freeLin, freePhys \ {f}, map, user)
    BY <1>8, <2>1, <2>2, UnderLockKeeps
  <2> QED BY <1>1, <1>8, <2>3 DEF Settled, IInv
<1> QED BY <1>7, <1>8 DEF AllocPhysical

\* alloc gives up as no physical memory is left.
LEMMA StepAllocNoPhysical == IInv /\ AllocNoPhysical => IInv'
<1> SUFFICES ASSUME IInv, AllocNoPhysical PROVE IInv'
  OBVIOUS
<1> DEFINE c == [Top EXCEPT !.at = "return"]
<1>1. /\ At("alloc", "phys") /\ stack # <<>> /\ UNCHANGED <<freeLin, freePhys, map, user>>
      /\ reserve' = Locked(reserve) /\ stack' = <<c>> \o Rest
  BY DEF AllocNoPhysical, At, Settle, GoesOn
<1>2. /\ WellFormed(c) /\ SlotOf(c) = SlotOf(Top) /\ FrameOf(c) = FrameOf(Top)
      /\ MappedOf(c) = MappedOf(Top) /\ c.slot = Top.slot
  BY <1>1, Stacked DEF At, WellFormed, SlotOf, FrameOf, MappedOf, CallSet
<1> HIDE DEF c
<1>3. Owned(freeLin, freePhys, map, reserve.chunks, user, <<c>> \o Rest)
  BY <1>1, <1>2, SameInHand
<1> QED BY <1>1, <1>3, ReserveWith DEF IInv

\* alloc gives up as no linear memory is left, and gives the physical back.
LEMMA StepAllocNoLinear == IInv /\ AllocNoLinear => IInv'
<1> SUFFICES ASSUME IInv, AllocNoLinear PROVE IInv'
  OBVIOUS
<1> DEFINE c == [Top EXCEPT !.at = "giveBack"]
<1>1. /\ At("alloc", "lin") /\ stack # <<>> /\ UNCHANGED <<freeLin, freePhys, map, user>>
      /\ reserve' = Locked(reserve) /\ stack' = <<c>> \o Rest
  BY DEF AllocNoLinear, At, Settle, GoesOn
<1>2. /\ WellFormed(c) /\ SlotOf(c) = SlotOf(Top) /\ FrameOf(c) = FrameOf(Top)
      /\ MappedOf(c) = MappedOf(Top) /\ c.slot = Top.slot
  BY <1>1, Stacked DEF At, WellFormed, SlotOf, FrameOf, MappedOf, CallSet
<1> HIDE DEF c
<1>3. Owned(freeLin, freePhys, map, reserve.chunks, user, <<c>> \o Rest)
  BY <1>1, <1>2, SameInHand
<1> QED BY <1>1, <1>3, ReserveWith DEF IInv

\* alloc takes its linear memory.
LEMMA StepAllocLinear == ASSUME NEW s, IInv, AllocLinear(s) PROVE IInv'
<1> DEFINE c == [Top EXCEPT !.at = "pagein", !.slot = s]
           R == LinearTrees(Locked(reserve), freeLin, freeLin \ {s})
<1>1. At("alloc", "lin") /\ stack # <<>> /\ s \in freeLin /\ UNCHANGED <<freePhys, map, user>>
  BY DEF AllocLinear, Placeable, At, Halt
<1>2. /\ WellFormed(Top) /\ Nested(Rest)
      /\ FrameOf(Top) \cap InHand(Rest) = {}
      /\ Spaces(freeLin, freePhys, map, reserve.chunks, user, Held(Rest) \cup SlotOf(Top),
                InHand(Rest) \cup FrameOf(Top), Mapped(Rest) \cup MappedOf(Top),
                Named(Rest) \cup ({Top.slot} \ {0}))
  BY <1>1, Stacked
<1>3. /\ SlotOf(Top) = {} /\ FrameOf(Top) = {Top.frame} /\ MappedOf(Top) = {} /\ {Top.slot} \ {0} = {}
  BY <1>1, <1>2 DEF At, WellFormed, SlotOf, FrameOf, MappedOf, CallSet
<1>4. /\ Spaces(freeLin \ {s}, freePhys, map, reserve.chunks, user, Held(Rest) \cup {s},
                InHand(Rest) \cup {Top.frame}, Mapped(Rest), Named(Rest) \cup {s})
      /\ s \in Slots /\ s # 0 /\ s \notin Held(Rest)
  <2>1. Spaces(freeLin, freePhys, map, reserve.chunks, user, Held(Rest), InHand(Rest) \cup {Top.frame},
               Mapped(Rest), Named(Rest))
    BY <1>2, <1>3
  <2>2. Mapped(Rest) \subseteq Held(Rest)
    BY <1>2, MappedHeld
  <2> QED BY <1>1, <2>1, <2>2, SlotTaken
<1>5. WellFormed(c) /\ SlotOf(c) = {s} /\ FrameOf(c) = {Top.frame} /\ MappedOf(c) = {} /\ {c.slot} \ {0} = {s}
  BY <1>1, <1>2, <1>4 DEF At, WellFormed, SlotOf, FrameOf, MappedOf, CallSet
<1>6. CASE Halt("dry")
  BY <1>6 DEF Halt, IInv, Rest, Top
<1>7. CASE freeLin' = freeLin \ {s} /\ UnderLock(R, <<c>> \o Rest)
  <2>1. Owned(freeLin \ {s}, freePhys, map, reserve.chunks, user, <<c>> \o Rest)
    <3> HIDE DEF c
    <3>1. Spaces(freeLin \ {s}, freePhys, map, reserve.chunks, user, Held(Rest) \cup SlotOf(c),
                 InHand(Rest) \cup FrameOf(c), Mapped(Rest) \cup MappedOf(c),
                 Named(Rest) \cup ({c.slot} \ {0}))
      BY <1>4, <1>5
    <3>2. SlotOf(c) \cap Held(Rest) = {} /\ FrameOf(c) \cap InHand(Rest) = {}
      BY <1>2, <1>3, <1>4, <1>5
    <3> QED BY <1>1, <1>5, <3>1, <3>2, GoesOnOwned
  <2>2. Same(R, reserve.chunks)
    <3>1. s \in Int
      BY <1>4, NoZero
    <3> QED BY <3>1, TreesKeepHere
  <2> HIDE DEF c, R
  <2>3. Settled(freeLin \ {s}, freePhys, map, user)
    BY <1>7, <2>1, <2>2, UnderLockKeeps
  <2> QED BY <1>1, <1>7, <2>3 DEF Settled, IInv
<1> QED BY <1>6, <1>7 DEF AllocLinear

\* A failed alloc gives one more unit back.
LEMMA StepGiveBack == IInv /\ GiveBack => IInv'
<1> SUFFICES ASSUME IInv, GiveBack PROVE IInv'
  OBVIOUS
<1> DEFINE f == Top.frame
           c == [Top EXCEPT !.at = "return", !.frame = 0]
           R == PhysicalTrees(Locked(reserve), freePhys, freePhys \cup {f})
<1>1. At("alloc", "giveBack") /\ stack # <<>> /\ UNCHANGED <<freeLin, map, user>>
  BY DEF GiveBack, At, Halt
<1>2. /\ WellFormed(Top) /\ FrameOf(Top) \cap InHand(Rest) = {}
      /\ Spaces(freeLin, freePhys, map, reserve.chunks, user, Held(Rest) \cup SlotOf(Top),
                InHand(Rest) \cup FrameOf(Top), Mapped(Rest) \cup MappedOf(Top),
                Named(Rest) \cup ({Top.slot} \ {0}))
  BY <1>1, Stacked
<1>3. /\ SlotOf(Top) = {} /\ FrameOf(Top) = {f} /\ MappedOf(Top) = {} /\ {Top.slot} \ {0} = {} /\ f \in Frames
      /\ WellFormed(c) /\ SlotOf(c) = {} /\ FrameOf(c) = {} /\ MappedOf(c) = {} /\ {c.slot} \ {0} = {}
  BY <1>1, <1>2 DEF At, WellFormed, SlotOf, FrameOf, MappedOf, CallSet
<1> HIDE DEF f, c
<1>4. Spaces(freeLin, freePhys \cup {f}, map, reserve.chunks, user, Held(Rest), InHand(Rest),
             Mapped(Rest), Named(Rest))
  <2>1. Spaces(freeLin, freePhys, map, reserve.chunks, user, Held(Rest), InHand(Rest) \cup {f},
               Mapped(Rest), Named(Rest))
    BY <1>2, <1>3
  <2> QED BY <1>2, <1>3, <2>1, FrameGiven
<1>5. CASE Halt("dry")
  BY <1>5 DEF Halt, IInv, Rest, Top
<1>6. CASE freePhys' = freePhys \cup {f} /\ UnderLock(R, <<c>> \o Rest)
  <2>1. Owned(freeLin, freePhys \cup {f}, map, reserve.chunks, user, <<c>> \o Rest)
    <3>1. Spaces(freeLin, freePhys \cup {f}, map, reserve.chunks, user, Held(Rest) \cup SlotOf(c),
                 InHand(Rest) \cup FrameOf(c), Mapped(Rest) \cup MappedOf(c),
                 Named(Rest) \cup ({c.slot} \ {0}))
      BY <1>3, <1>4
    <3>2. SlotOf(c) \cap Held(Rest) = {} /\ FrameOf(c) \cap InHand(Rest) = {}
      BY <1>3
    <3> QED BY <1>1, <1>3, <3>1, <3>2, GoesOnOwned
  <2>2. Same(R, reserve.chunks)
    <3>1. f \in Int
      BY <1>3, NoZero
    <3> QED BY <3>1, TreesKeepHere
  <2> HIDE DEF R
  <2>3. Settled(freeLin, freePhys \cup {f}, map, user)
    BY <1>6, <2>1, <2>2, UnderLockKeeps
  <2> QED BY <1>1, <1>6, <2>3 DEF Settled, IInv
<1> QED BY <1>5, <1>6 DEF GiveBack, f, c

\* A page table is put where the next page needs one.
LEMMA StepPageinTable == IInv /\ PageinTable => IInv'
<1> SUFFICES ASSUME IInv, PageinTable PROVE IInv'
  OBVIOUS
<1>1. At("alloc", "pagein") /\ stack # <<>> /\ UNCHANGED <<freeLin, freePhys, map, user>>
  BY DEF PageinTable, At, Halt
<1>2. PICK t : \/ Halt("dry")
               \/ UnderLock({[Locked(reserve) EXCEPT !.home[t] = c] : c \in Sources(reserve)}, stack)
  BY DEF PageinTable
<1>3. Same({[Locked(reserve) EXCEPT !.home[t] = c] : c \in Sources(reserve)}, reserve.chunks)
  <2> SUFFICES ASSUME NEW q \in {[Locked(reserve) EXCEPT !.home[t] = c] : c \in Sources(reserve)}
               PROVE  q \in Reserves /\ q.chunks = reserve.chunks
    BY DEF Same
  <2>1. PICK c \in Sources(reserve) : q = [Locked(reserve) EXCEPT !.home[t] = c]
    OBVIOUS
  <2>2. c \in Slots
    BY DEF Sources, Empty, IInv, Reserves
  <2>3. Locked(reserve) \in Reserves /\ Locked(reserve).chunks = reserve.chunks
    BY ReserveWith DEF IInv
  <2> QED BY <2>1, <2>2, <2>3, HomeWith, ZenonT(40)
<1>4. CASE Halt("dry")
  BY <1>4 DEF Halt, IInv
<1>5. CASE UnderLock({[Locked(reserve) EXCEPT !.home[t] = c] : c \in Sources(reserve)}, stack)
  <2>1. Owned(freeLin, freePhys, map, reserve.chunks, user, stack)
    BY DEF IInv
  <2>2. Settled(freeLin, freePhys, map, user)
    BY <1>3, <1>5, <2>1, UnderLockKeeps
  <2> QED BY <1>1, <2>2 DEF Settled, IInv
<1> QED BY <1>2, <1>4, <1>5

\* The next page of the call is mapped.
LEMMA StepPageinPage == IInv /\ PageinPage => IInv'
<1> SUFFICES ASSUME IInv, PageinPage PROVE IInv'
  OBVIOUS
<1> DEFINE c == [Top EXCEPT !.at = "return"]
           s == Top.slot
           f == Top.frame
           pages == [map EXCEPT ![s] = f]
<1>1. /\ At("alloc", "pagein") /\ stack # <<>> /\ UNCHANGED <<freeLin, freePhys, user>>
      /\ map' = pages /\ reserve' = reserve /\ stack' = <<c>> \o Rest
  BY DEF PageinPage, At, Settle, GoesOn
<1>2. /\ WellFormed(Top) /\ Nested(Rest)
      /\ SlotOf(Top) \cap Held(Rest) = {} /\ FrameOf(Top) \cap InHand(Rest) = {}
      /\ Spaces(freeLin, freePhys, map, reserve.chunks, user, Held(Rest) \cup SlotOf(Top),
                InHand(Rest) \cup FrameOf(Top), Mapped(Rest) \cup MappedOf(Top),
                Named(Rest) \cup ({Top.slot} \ {0}))
  BY <1>1, Stacked
<1>3. /\ SlotOf(Top) = {s} /\ FrameOf(Top) = {f} /\ MappedOf(Top) = {} /\ {Top.slot} \ {0} = {s}
      /\ f \in Frames /\ s \in Slots
      /\ WellFormed(c) /\ SlotOf(c) = {s} /\ FrameOf(c) = {} /\ MappedOf(c) = {s} /\ {c.slot} \ {0} = {s}
  BY <1>1, <1>2 DEF At, WellFormed, SlotOf, FrameOf, MappedOf, CallSet
<1>4. Mapped(Rest) \subseteq Held(Rest)
  BY <1>2, MappedHeld
<1> HIDE DEF c, s, f
<1>5. Spaces(freeLin, freePhys, pages, reserve.chunks, user, Held(Rest) \cup {s}, InHand(Rest),
             Mapped(Rest) \cup {s}, Named(Rest) \cup {s})
  <2>1. Spaces(freeLin, freePhys, map, reserve.chunks, user, Held(Rest) \cup {s}, InHand(Rest) \cup {f},
               Mapped(Rest), Named(Rest) \cup {s})
    BY <1>2, <1>3
  <2> QED BY <1>2, <1>3, <1>4, <2>1, PageMapped
<1> HIDE DEF pages
<1>6. Owned(freeLin, freePhys, pages, reserve.chunks, user, <<c>> \o Rest)
  <2>1. Spaces(freeLin, freePhys, pages, reserve.chunks, user, Held(Rest) \cup SlotOf(c),
               InHand(Rest) \cup FrameOf(c), Mapped(Rest) \cup MappedOf(c),
               Named(Rest) \cup ({c.slot} \ {0}))
    BY <1>3, <1>5
  <2>2. SlotOf(c) \cap Held(Rest) = {} /\ FrameOf(c) \cap InHand(Rest) = {}
    BY <1>2, <1>3
  <2> QED BY <1>1, <1>3, <2>1, <2>2, GoesOnOwned
<1> QED BY <1>1, <1>6 DEF IInv

\* The next page of the call is unmapped.
LEMMA StepPageoutPage == IInv /\ PageoutPage => IInv'
<1> SUFFICES ASSUME IInv, PageoutPage PROVE IInv'
  OBVIOUS
<1> DEFINE s == Top.slot
           f == map[s]
           c == [Top EXCEPT !.frame = f, !.height = 1]
           pages == [map EXCEPT ![s] = 0]
           t == TableOf(s, 0)
<1>1. /\ At("free", "pageout") /\ Top.height = 0 /\ stack # <<>> /\ UNCHANGED <<freeLin, freePhys, user>>
      /\ map' = pages
      /\ UnitFreed([reserve EXCEPT !.home[t] = 0], <<c>> \o Rest) \/ Settle(reserve, <<c>> \o Rest)
  BY DEF PageoutPage, At
<1>2. /\ WellFormed(Top) /\ Nested(Rest)
      /\ SlotOf(Top) \cap Held(Rest) = {}
      /\ Spaces(freeLin, freePhys, map, reserve.chunks, user, Held(Rest) \cup SlotOf(Top),
                InHand(Rest) \cup FrameOf(Top), Mapped(Rest) \cup MappedOf(Top),
                Named(Rest) \cup ({Top.slot} \ {0}))
  BY <1>1, Stacked
<1>3. /\ SlotOf(Top) = {s} /\ FrameOf(Top) = {} /\ MappedOf(Top) = {s} /\ {Top.slot} \ {0} = {s} /\ s \in Slots
  BY <1>1, <1>2 DEF At, WellFormed, SlotOf, FrameOf, MappedOf, CallSet
<1>4. Mapped(Rest) \subseteq Held(Rest) /\ 0 \notin InHand(Rest)
  BY <1>2, MappedHeld
<1>5. /\ f \in Frames /\ f # 0 /\ f \notin InHand(Rest)
      /\ Spaces(freeLin, freePhys, pages, reserve.chunks, user, Held(Rest) \cup {s}, InHand(Rest) \cup {f},
                Mapped(Rest), Named(Rest) \cup {s})
  <2> HIDE DEF s
  <2>1. Spaces(freeLin, freePhys, map, reserve.chunks, user, Held(Rest) \cup {s}, InHand(Rest),
               Mapped(Rest) \cup {s}, Named(Rest) \cup {s})
    BY <1>2, <1>3
  <2> QED BY <1>2, <1>3, <1>4, <2>1, PageUnmapped, ZenonT(40)
<1>6. WellFormed(c) /\ SlotOf(c) = {s} /\ FrameOf(c) = {f} /\ MappedOf(c) = {} /\ {c.slot} \ {0} = {s}
  <2>1. Top \in CallSet /\ Top.call = "free" /\ Top.at = "pageout" /\ f \in Frames /\ f # 0 /\ s \in Slots /\ s # 0
    BY <1>1, <1>2, <1>3, <1>5, NoZero DEF At, WellFormed
  <2> HIDE DEF f
  <2>2. /\ c \in CallSet /\ c.call = "free" /\ c.at = "pageout" /\ c.frame = f /\ c.slot = s /\ c.height = 1
    BY <2>1 DEF CallSet
  <2> HIDE DEF c
  <2> QED BY <2>1, <2>2 DEF WellFormed, SlotOf, FrameOf, MappedOf
<1> HIDE DEF c, s, f, pages
<1>7. Owned(freeLin, freePhys, pages, reserve.chunks, user, <<c>> \o Rest)
  <2>1. Spaces(freeLin, freePhys, pages, reserve.chunks, user, Held(Rest) \cup SlotOf(c),
               InHand(Rest) \cup FrameOf(c), Mapped(Rest) \cup MappedOf(c),
               Named(Rest) \cup ({c.slot} \ {0}))
    BY <1>5, <1>6
  <2>2. SlotOf(c) \cap Held(Rest) = {} /\ FrameOf(c) \cap InHand(Rest) = {}
    BY <1>2, <1>3, <1>5, <1>6
  <2> QED BY <1>1, <1>6, <2>1, <2>2, GoesOnOwned
<1>8. Settled(freeLin, freePhys, pages, user)
  <2>1. CASE Settle(reserve, <<c>> \o Rest)
    BY <1>7, <2>1 DEF Settle, Settled, IInv
  <2>2. CASE UnitFreed([reserve EXCEPT !.home[t] = 0], <<c>> \o Rest)
    <3>1. [reserve EXCEPT !.home[t] = 0] \in Reserves /\ [reserve EXCEPT !.home[t] = 0].chunks = reserve.chunks
      BY HomeWith DEF IInv
    <3> QED BY <1>7, <2>2, <3>1, UnitFreedKeeps
  <2> QED BY <1>1, <2>1, <2>2
<1> QED BY <1>1, <1>8 DEF Settled, IInv

\* A page table that came empty is taken away.
LEMMA StepPageoutTable == IInv /\ PageoutTable => IInv'
<1> SUFFICES ASSUME IInv, PageoutTable PROVE IInv'
  OBVIOUS
<1> DEFINE up == [Top EXCEPT !.height = @ + 1]
           done == [Top EXCEPT !.at = "phys"]
           t == TableOf(Top.slot, Top.height)
<1>1. /\ At("free", "pageout") /\ Top.height > 0 /\ stack # <<>>
      /\ UNCHANGED <<freeLin, freePhys, map, user>>
      /\ \/ Settle(reserve, <<done>> \o Rest)
         \/ UnitFreed([reserve EXCEPT !.home[t] = 0], <<up>> \o Rest)
  BY DEF PageoutTable, At, GoesOn
<1>2. WellFormed(Top)
  BY <1>1, Stacked
<1>3. /\ WellFormed(up) /\ SlotOf(up) = SlotOf(Top) /\ FrameOf(up) = FrameOf(Top)
      /\ MappedOf(up) = MappedOf(Top) /\ up.slot = Top.slot
  BY <1>1, <1>2 DEF At, WellFormed, SlotOf, FrameOf, MappedOf, CallSet
<1>4. /\ WellFormed(done) /\ SlotOf(done) = SlotOf(Top) /\ FrameOf(done) = FrameOf(Top)
      /\ MappedOf(done) = MappedOf(Top) /\ done.slot = Top.slot
  BY <1>1, <1>2 DEF At, WellFormed, SlotOf, FrameOf, MappedOf, CallSet
<1> HIDE DEF up, done
<1>5. Settled(freeLin, freePhys, map, user)
  <2>1. CASE Settle(reserve, <<done>> \o Rest)
    <3>1. Owned(freeLin, freePhys, map, reserve.chunks, user, <<done>> \o Rest)
      BY <1>1, <1>4, SameInHand
    <3> QED BY <2>1, <3>1 DEF Settle, Settled, IInv
  <2>2. CASE UnitFreed([reserve EXCEPT !.home[t] = 0], <<up>> \o Rest)
    <3>1. Owned(freeLin, freePhys, map, reserve.chunks, user, <<up>> \o Rest)
      BY <1>1, <1>3, SameInHand
    <3>2. [reserve EXCEPT !.home[t] = 0] \in Reserves /\ [reserve EXCEPT !.home[t] = 0].chunks = reserve.chunks
      BY HomeWith DEF IInv
    <3> QED BY <2>2, <3>1, <3>2, UnitFreedKeeps
  <2> QED BY <1>1, <2>1, <2>2
<1> QED BY <1>1, <1>5 DEF Settled, IInv

\* free gives its physical memory back.
LEMMA StepFreePhysical == IInv /\ FreePhysical => IInv'
<1> SUFFICES ASSUME IInv, FreePhysical PROVE IInv'
  OBVIOUS
<1> DEFINE f == Top.frame
           s == Top.slot
           c == [Top EXCEPT !.at = "lin"]
           R == PhysicalTrees(Locked(reserve), freePhys, freePhys \cup {f})
<1>1. At("free", "phys") /\ stack # <<>> /\ UNCHANGED <<freeLin, map, user>>
  BY DEF FreePhysical, At, Halt
<1>2. /\ WellFormed(Top) /\ SlotOf(Top) \cap Held(Rest) = {} /\ FrameOf(Top) \cap InHand(Rest) = {}
      /\ Spaces(freeLin, freePhys, map, reserve.chunks, user, Held(Rest) \cup SlotOf(Top),
                InHand(Rest) \cup FrameOf(Top), Mapped(Rest) \cup MappedOf(Top),
                Named(Rest) \cup ({Top.slot} \ {0}))
  BY <1>1, Stacked
<1>3. /\ SlotOf(Top) = {s} /\ FrameOf(Top) = {f} /\ MappedOf(Top) = {} /\ {Top.slot} \ {0} = {s} /\ f \in Frames
      /\ WellFormed(c) /\ SlotOf(c) = {s} /\ FrameOf(c) = {} /\ MappedOf(c) = {} /\ {c.slot} \ {0} = {s}
  BY <1>1, <1>2 DEF At, WellFormed, SlotOf, FrameOf, MappedOf, CallSet
<1> HIDE DEF f, s, c
<1>4. Spaces(freeLin, freePhys \cup {f}, map, reserve.chunks, user, Held(Rest) \cup {s}, InHand(Rest),
             Mapped(Rest), Named(Rest) \cup {s})
  <2>1. Spaces(freeLin, freePhys, map, reserve.chunks, user, Held(Rest) \cup {s}, InHand(Rest) \cup {f},
               Mapped(Rest), Named(Rest) \cup {s})
    BY <1>2, <1>3
  <2> QED BY <1>2, <1>3, <2>1, FrameGiven
<1>5. CASE Halt("dry")
  BY <1>5 DEF Halt, IInv, Rest, Top
<1>6. CASE freePhys' = freePhys \cup {f} /\ UnderLock(R, <<c>> \o Rest)
  <2>1. Owned(freeLin, freePhys \cup {f}, map, reserve.chunks, user, <<c>> \o Rest)
    <3>1. Spaces(freeLin, freePhys \cup {f}, map, reserve.chunks, user, Held(Rest) \cup SlotOf(c),
                 InHand(Rest) \cup FrameOf(c), Mapped(Rest) \cup MappedOf(c),
                 Named(Rest) \cup ({c.slot} \ {0}))
      BY <1>3, <1>4
    <3>2. SlotOf(c) \cap Held(Rest) = {} /\ FrameOf(c) \cap InHand(Rest) = {}
      BY <1>2, <1>3
    <3> QED BY <1>1, <1>3, <3>1, <3>2, GoesOnOwned
  <2>2. Same(R, reserve.chunks)
    <3>1. f \in Int
      BY <1>3, NoZero
    <3> QED BY <3>1, TreesKeepHere
  <2> HIDE DEF R
  <2>3. Settled(freeLin, freePhys \cup {f}, map, user)
    BY <1>6, <2>1, <2>2, UnderLockKeeps
  <2> QED BY <1>1, <1>6, <2>3 DEF Settled, IInv
<1> QED BY <1>5, <1>6 DEF FreePhysical, GoesOn, f, c

\* free gives its linear memory back.
LEMMA StepFreeLinear == IInv /\ FreeLinear => IInv'
<1> SUFFICES ASSUME IInv, FreeLinear PROVE IInv'
  OBVIOUS
<1> DEFINE s == Top.slot
           c == [Top EXCEPT !.at = "return"]
           R == LinearTrees(Locked(reserve), freeLin, freeLin \cup {s})
<1>1. At("free", "lin") /\ stack # <<>> /\ UNCHANGED <<freePhys, map, user>>
  BY DEF FreeLinear, At, Halt
<1>2. /\ WellFormed(Top) /\ SlotOf(Top) \cap Held(Rest) = {}
      /\ Spaces(freeLin, freePhys, map, reserve.chunks, user, Held(Rest) \cup SlotOf(Top),
                InHand(Rest) \cup FrameOf(Top), Mapped(Rest) \cup MappedOf(Top),
                Named(Rest) \cup ({Top.slot} \ {0}))
  BY <1>1, Stacked
<1>3. /\ SlotOf(Top) = {s} /\ FrameOf(Top) = {} /\ MappedOf(Top) = {} /\ {Top.slot} \ {0} = {s} /\ s \in Slots
      /\ WellFormed(c) /\ SlotOf(c) = {} /\ FrameOf(c) = {} /\ MappedOf(c) = {} /\ {c.slot} \ {0} = {s}
  BY <1>1, <1>2 DEF At, WellFormed, SlotOf, FrameOf, MappedOf, CallSet
<1> HIDE DEF s, c
<1>4. Spaces(freeLin \cup {s}, freePhys, map, reserve.chunks, user, Held(Rest), InHand(Rest),
             Mapped(Rest), Named(Rest) \cup {s})
  <2>1. Spaces(freeLin, freePhys, map, reserve.chunks, user, Held(Rest) \cup {s}, InHand(Rest),
               Mapped(Rest), Named(Rest) \cup {s})
    BY <1>2, <1>3
  <2> QED BY <1>2, <1>3, <2>1, SlotGiven
<1>5. CASE Halt("dry")
  BY <1>5 DEF Halt, IInv, Rest, Top
<1>6. CASE freeLin' = freeLin \cup {s} /\ UnderLock(R, <<c>> \o Rest)
  <2>1. Owned(freeLin \cup {s}, freePhys, map, reserve.chunks, user, <<c>> \o Rest)
    <3>1. Spaces(freeLin \cup {s}, freePhys, map, reserve.chunks, user, Held(Rest) \cup SlotOf(c),
                 InHand(Rest) \cup FrameOf(c), Mapped(Rest) \cup MappedOf(c),
                 Named(Rest) \cup ({c.slot} \ {0}))
      BY <1>3, <1>4
    <3>2. SlotOf(c) \cap Held(Rest) = {} /\ FrameOf(c) \cap InHand(Rest) = {}
      BY <1>3
    <3> QED BY <1>1, <1>3, <3>1, <3>2, GoesOnOwned
  <2>2. Same(R, reserve.chunks)
    <3>1. s \in Int
      BY <1>3, NoZero
    <3> QED BY <3>1, TreesKeepHere
  <2> HIDE DEF R
  <2>3. Settled(freeLin \cup {s}, freePhys, map, user)
    BY <1>6, <2>1, <2>2, UnderLockKeeps
  <2> QED BY <1>1, <1>6, <2>3 DEF Settled, IInv
<1> QED BY <1>5, <1>6 DEF FreeLinear, GoesOn, s, c

\* The call is over, and what it held has another owner.
LEMMA PopOwned ==
  ASSUME IInv, stack # <<>>, NEW lin, NEW phys, NEW pages, NEW chunks, NEW users,
         Spaces(lin, phys, pages, chunks, users, Held(Rest), InHand(Rest), Mapped(Rest), Named(Rest))
  PROVE  Owned(lin, phys, pages, chunks, users, Rest)
BY Stacked DEF Owned

\* alloc answers.
LEMMA StepAllocReturns == IInv /\ AllocReturns => IInv'
<1> SUFFICES ASSUME IInv, AllocReturns PROVE IInv'
  OBVIOUS
<1> DEFINE s == Top.slot
           q == [reserve EXCEPT !.chunks = @ \cup {s}]
<1>1. At("alloc", "return") /\ stack # <<>>
  BY DEF AllocReturns, At
<1>2. /\ WellFormed(Top) /\ Nested(Rest) /\ SlotOf(Top) \cap Held(Rest) = {}
      /\ Spaces(freeLin, freePhys, map, reserve.chunks, user, Held(Rest) \cup SlotOf(Top),
                InHand(Rest) \cup FrameOf(Top), Mapped(Rest) \cup MappedOf(Top),
                Named(Rest) \cup ({Top.slot} \ {0}))
  BY <1>1, Stacked
<1>3. Mapped(Rest) \subseteq Held(Rest)
  BY <1>2, MappedHeld
<1>4. CASE Halt("fault")
  BY <1>4 DEF Halt, IInv
<1>5. CASE Top.frame = 0 /\ ~Halt("fault")
  <2>1. /\ reserve' = reserve /\ stack' = Rest /\ user' = user /\ UNCHANGED <<freeLin, freePhys, map>>
    BY <1>5 DEF AllocReturns, Settle
  <2>2. SlotOf(Top) = {} /\ FrameOf(Top) = {} /\ MappedOf(Top) = {} /\ {Top.slot} \ {0} = {}
    BY <1>1, <1>2, <1>5 DEF At, WellFormed, SlotOf, FrameOf, MappedOf, CallSet
  <2>3. Spaces(freeLin, freePhys, map, reserve.chunks, user, Held(Rest), InHand(Rest), Mapped(Rest), Named(Rest))
    BY <1>2, <2>2
  <2>4. Owned(freeLin, freePhys, map, reserve.chunks, user, Rest)
    BY <1>1, <2>3, PopOwned
  <2> QED BY <2>1, <2>4 DEF IInv
<1>6. CASE Top.frame # 0 /\ ~Halt("fault")
  <2>1. /\ UNCHANGED <<freeLin, freePhys, map>> /\ stack' = Rest
        /\ \/ user' = user \cup {s} /\ reserve' = reserve
           \/ user' = user /\ reserve' = Unlocked(q)
    BY <1>6 DEF AllocReturns, Settle
  <2>2. /\ SlotOf(Top) = {s} /\ FrameOf(Top) = {} /\ MappedOf(Top) = {s} /\ {Top.slot} \ {0} = {s} /\ s \in Slots
    BY <1>1, <1>2, <1>6 DEF At, WellFormed, SlotOf, FrameOf, MappedOf, CallSet
  <2> HIDE DEF s
  <2>3. Spaces(freeLin, freePhys, map, reserve.chunks, user, Held(Rest) \cup {s}, InHand(Rest),
               Mapped(Rest) \cup {s}, Named(Rest) \cup {s})
    BY <1>2, <2>2
  <2>4. s \notin Held(Rest)
    BY <1>2, <2>2
  <2>5. /\ Spaces(freeLin, freePhys, map, reserve.chunks, user \cup {s}, Held(Rest), InHand(Rest),
                  Mapped(Rest), Named(Rest))
        /\ Spaces(freeLin, freePhys, map, reserve.chunks \cup {s}, user, Held(Rest), InHand(Rest),
                  Mapped(Rest), Named(Rest))
    BY <1>3, <2>2, <2>3, <2>4, SlotHanded
  <2>6. /\ Owned(freeLin, freePhys, map, reserve.chunks, user \cup {s}, Rest)
        /\ Owned(freeLin, freePhys, map, reserve.chunks \cup {s}, user, Rest)
    BY <1>1, <2>5, PopOwned
  <2>7. CASE user' = user \cup {s} /\ reserve' = reserve
    BY <2>1, <2>6, <2>7 DEF IInv
  <2>8. CASE user' = user /\ reserve' = Unlocked(q)
    <3>1. Unlocked(q) \in Reserves /\ Unlocked(q).chunks = reserve.chunks \cup {s}
      <4>1. q \in Reserves /\ q.chunks = reserve.chunks \cup {s}
        BY <2>2, ReserveWith DEF IInv
      <4> HIDE DEF q
      <4> QED BY <4>1, ReserveWith
    <3> HIDE DEF q
    <3> QED BY <2>1, <2>6, <2>8, <3>1 DEF IInv
  <2> QED BY <2>1, <2>7, <2>8
<1> QED BY <1>4, <1>5, <1>6

\* free answers.
LEMMA StepFreeReturns == IInv /\ FreeReturns => IInv'
<1> SUFFICES ASSUME IInv, FreeReturns PROVE IInv'
  OBVIOUS
<1>1. At("free", "return") /\ stack # <<>> /\ UNCHANGED <<freeLin, freePhys, map, user>>
  BY DEF FreeReturns, At
<1>2. /\ WellFormed(Top)
      /\ Spaces(freeLin, freePhys, map, reserve.chunks, user, Held(Rest) \cup SlotOf(Top),
                InHand(Rest) \cup FrameOf(Top), Mapped(Rest) \cup MappedOf(Top),
                Named(Rest) \cup ({Top.slot} \ {0}))
  BY <1>1, Stacked
<1>3. SlotOf(Top) = {} /\ FrameOf(Top) = {} /\ MappedOf(Top) = {}
  BY <1>1, <1>2 DEF At, WellFormed, SlotOf, FrameOf, MappedOf, CallSet
<1>4. Spaces(freeLin, freePhys, map, reserve.chunks, user, Held(Rest), InHand(Rest), Mapped(Rest), Named(Rest))
  <2>1. Spaces(freeLin, freePhys, map, reserve.chunks, user, Held(Rest), InHand(Rest), Mapped(Rest),
               Named(Rest) \cup ({Top.slot} \ {0}))
    BY <1>2, <1>3
  <2> QED BY <2>1, NameForgotten
<1>5. reserve \in Reserves /\ Owned(freeLin, freePhys, map, reserve.chunks, user, Rest)
  BY <1>1, <1>4, PopOwned DEF IInv
<1>6. Settled(freeLin, freePhys, map, user)
  <2>1. CASE Settle(reserve, Rest) \/ Settle(Unlocked(reserve), Rest)
    BY <1>5, <2>1, ReserveWith DEF Settle, Settled
  <2>2. CASE Trim(reserve, Rest, "trim")
    BY <1>5, <2>2, TrimKeeps
  <2>3. CASE TrimAndUnlock(reserve, Rest)
    BY <1>5, <2>3, TrimAndUnlockKeeps
  <2> QED BY <2>1, <2>2, <2>3 DEF FreeReturns
<1> QED BY <1>1, <1>6 DEF Settled, IInv

\* A client calls alloc.
LEMMA StepUserAlloc == IInv /\ UserAlloc => IInv'
<1> SUFFICES ASSUME IInv, UserAlloc PROVE IInv'
  OBVIOUS
<1>1. /\ UNCHANGED <<freeLin, freePhys, map, user, reserve>>
      /\ stack' = <<Call("alloc", "user", "phys", 0)>> \o stack
  BY DEF UserAlloc
<1>2. Owned(freeLin, freePhys, map, reserve.chunks, user, <<Call("alloc", "user", "phys", 0)>> \o stack)
  BY PushRenewal DEF IInv
<1> QED BY <1>1, <1>2 DEF IInv

\* A client calls free.
LEMMA StepUserFree == ASSUME NEW s, IInv, UserFree(s) PROVE IInv'
<1>1. /\ UNCHANGED <<freeLin, freePhys, map, reserve>> /\ s \in user /\ user' = user \ {s}
      /\ stack' = <<Call("free", "user", "pageout", s)>> \o stack
  BY DEF UserFree
<1>2. Owned(freeLin, freePhys, map, reserve.chunks \ {s}, user \ {s}, <<Call("free", "user", "pageout", s)>> \o stack)
  BY <1>1, PushFree DEF IInv
<1>3. reserve.chunks \ {s} = reserve.chunks
  BY <1>1 DEF IInv, Owned, Spaces
<1> QED BY <1>1, <1>2, <1>3 DEF IInv

\* The Initializer leaves one chunk in the reserve, mapped, and the rest free.
LEMMA InitOwned == Init => IInv
<1> SUFFICES ASSUME Init PROVE IInv
  OBVIOUS
<1>1. PICK L \in LinearSpaces : freeLin = L \ {1}
  BY DEF Init
<1>2. L \subseteq Slots /\ 1 \in L /\ 1 \in Slots /\ 1 \in Frames /\ 0 \notin Frames
  BY SlotsAssumption, NoZero
<1>3. reserve \in Reserves
  <2>1. [avl |-> NodesPerUnit - 3, aslr |-> NodesPerUnit - 1] \in [Heaps -> Int]
    BY ReserveAssumption DEF Heaps
  <2>2. [h \in Heaps |-> [s \in Slots |-> IF s = 1 THEN 1 ELSE 0]] \in [Heaps -> [Slots -> Int]]
    OBVIOUS
  <2>3. [t \in Tables |-> 0] \in [Tables -> Slots \cup {0}]
    OBVIOUS
  <2> QED BY <1>2, <2>1, <2>2, <2>3 DEF Init, Reserves
<1>4. Nested(<<>>) /\ Held(<<>>) = {} /\ InHand(<<>>) = {} /\ Mapped(<<>>) = {} /\ Named(<<>>) = {}
  BY DEF Nested, Held, InHand, Mapped, Named
<1>5. Spaces(freeLin, freePhys, map, {1}, {}, {}, {}, {}, {})
  <2>1. freeLin \cup {1} \cup {} \cup {} = L
    BY <1>1, <1>2
  <2>2. freePhys = Frames \ {1} /\ map = [s \in Slots |-> IF s = 1 THEN 1 ELSE 0]
    BY DEF Init
  <2> QED BY <1>1, <1>2, <2>1, <2>2 DEF Spaces
<1>6. reserve.chunks = {1} /\ user = {} /\ stack = <<>>
  BY DEF Init
<1>7. Owned(freeLin, freePhys, map, reserve.chunks, user, stack)
  BY <1>4, <1>5, <1>6 DEF Owned
<1> QED BY <1>3, <1>7 DEF IInv

\* Every step, of a call or between calls, keeps it.
LEMMA StepOwned == IInv /\ [Next]_vars => IInv'
<1> SUFFICES ASSUME IInv, [Next]_vars PROVE IInv'
  OBVIOUS
<1>1. CASE UNCHANGED vars
  BY <1>1 DEF vars, IInv
<1>2. CASE Step
  BY <1>2, StepAllocPhysical, StepAllocNoPhysical, StepAllocLinear, StepAllocNoLinear, StepGiveBack,
     StepPageinTable, StepPageinPage, StepPageoutPage, StepPageoutTable, StepFreePhysical,
     StepFreeLinear, StepAllocReturns, StepFreeReturns DEF Step
<1>3. CASE UserAlloc
  BY <1>3, StepUserAlloc
<1>4. CASE \E s \in Slots : UserFree(s)
  BY <1>4, StepUserFree
<1> QED BY <1>1, <1>2, <1>3, <1>4 DEF Next
-----------------------------------------------------------------------------
(***************************************************************************)
(* What follows for every state of every execution.                        *)
(***************************************************************************)
\* However MemoryManager::alloc and free call each other through the reserve, no slot
\* and no frame has two owners or none.
THEOREM OwnedOnce == Spec => []IInv
<1>1. Init => IInv
  BY InitOwned
<1>2. IInv /\ [Next]_vars => IInv'
  BY StepOwned
<1> QED BY <1>1, <1>2, PTL DEF Spec

\* A slot that a call is about to map is mapped by nobody.
LEMMA IInvNeverRemaps == IInv => NeverRemaps
<1> SUFFICES ASSUME IInv PROVE NeverRemaps
  OBVIOUS
<1>1. \A s, t \in Slots : map[s] # 0 /\ map[s] = map[t] => s = t
  BY DEF IInv, Owned, Spaces
<1>2. ASSUME At("alloc", "pagein") PROVE map[Top.slot] = 0
  <2>1. stack # <<>>
    BY <1>2 DEF At
  <2>2. /\ WellFormed(Top) /\ Nested(Rest) /\ SlotOf(Top) \cap Held(Rest) = {}
        /\ Spaces(freeLin, freePhys, map, reserve.chunks, user, Held(Rest) \cup SlotOf(Top),
                  InHand(Rest) \cup FrameOf(Top), Mapped(Rest) \cup MappedOf(Top),
                  Named(Rest) \cup ({Top.slot} \ {0}))
    BY <2>1, Stacked
  <2>3. SlotOf(Top) = {Top.slot} /\ MappedOf(Top) = {} /\ Top.slot \in Slots
    BY <1>2, <2>2 DEF At, WellFormed, SlotOf, MappedOf, CallSet
  <2>4. Mapped(Rest) \subseteq Held(Rest)
    BY <2>2, MappedHeld
  <2> DEFINE s == Top.slot
  <2> HIDE DEF s
  <2>5. s \notin reserve.chunks \cup user \cup (Mapped(Rest) \cup MappedOf(Top)) /\ s \in Slots
    BY <2>2, <2>3, <2>4 DEF Spaces, s
  <2>6. map[s] = 0
    BY <2>2, <2>5 DEF Spaces
  <2> QED BY <2>6 DEF s
<1> QED BY <1>1, <1>2 DEF NeverRemaps

\* Between calls each frame is free or mapped, once.
LEMMA IInvSlotsAccounted == IInv => SlotsAccounted
<1> SUFFICES ASSUME IInv PROVE SlotsAccounted
  OBVIOUS
<1> DEFINE held == Held(stack)
           named == Named(stack)
           frames == InHand(stack)
           mapped == Mapped(stack)
<1>1. /\ Nested(stack)
      /\ Spaces(freeLin, freePhys, map, reserve.chunks, user, held, frames, mapped, named)
  BY DEF IInv, Owned
<1>2. held \subseteq named
  BY <1>1, MappedHeld
<1>3. Underway = named
  <2>1. DOMAIN stack = 1 .. Len(stack)
    BY <1>1 DEF Nested
  <2> QED BY <2>1 DEF Underway, Named
<1>4. stack = <<>> => frames = {} /\ mapped = {}
  BY DEF InHand, Mapped
<1> HIDE DEF held, named, frames, mapped
<1>5. freeLin \cup user \cup reserve.chunks \cup Underway \in LinearSpaces
  <2>1. freeLin \cup user \cup reserve.chunks \cup Underway = freeLin \cup reserve.chunks \cup user \cup held
    BY <1>1, <1>2, <1>3 DEF Spaces
  <2> QED BY <1>1, <2>1 DEF Spaces
<1>6. (\A s \in user \cup reserve.chunks : s \notin freeLin /\ map[s] # 0) /\ user \cap reserve.chunks = {}
  BY <1>1 DEF Spaces
<1>7. ASSUME stack = <<>>
      PROVE  Cardinality(freePhys) + Cardinality({s \in Slots : map[s] # 0}) = Cardinality(Frames)
  <2> DEFINE S == {s \in Slots : map[s] # 0}
             T == Frames \ freePhys
             f == [s \in S |-> map[s]]
  <2>1. f \in Bijection(S, T)
    <3>1. \A s \in S : map[s] \in T
      BY <1>1 DEF Spaces
    <3>2. \A s, t \in S : map[s] = map[t] => s = t
      BY <1>1 DEF Spaces
    <3>3. \A g \in T : \E s \in S : map[s] = g
      BY <1>1, <1>4, <1>7, NoZero DEF Spaces
    <3> QED BY <3>1, <3>2, <3>3 DEF Bijection, Injection, Surjection, IsInjective
  <2>2. IsFiniteSet(S) /\ IsFiniteSet(Frames) /\ IsFiniteSet(freePhys) /\ freePhys \subseteq Frames
    BY <1>1, SlotsAssumption, FS_Subset DEF Spaces
  <2>3. Cardinality(T) = Cardinality(S)
    <3>1. ExistsBijection(S, T)
      BY <2>1 DEF ExistsBijection
    <3> HIDE DEF S, T
    <3> QED BY <2>2, <3>1, FS_Bijection
  <2>4. Cardinality(T) = Cardinality(Frames) - Cardinality(freePhys)
    <3>1. Frames \cap freePhys = freePhys
      BY <2>2
    <3> QED BY <2>2, <3>1, FS_Difference
  <2>5. Cardinality(S) \in Nat /\ Cardinality(Frames) \in Nat /\ Cardinality(freePhys) \in Nat
    BY <2>2, FS_CardinalityType
  <2> HIDE DEF S, T
  <2>6. Cardinality(freePhys) + Cardinality(S) = Cardinality(Frames)
    BY <2>3, <2>4, <2>5
  <2> QED BY <2>6 DEF S
<1> QED BY <1>5, <1>6, <1>7 DEF SlotsAccounted

\* No kassert of Pager::pagein fails: no call, however nested, maps a slot that is
\* mapped, and none maps a frame twice.
THEOREM NothingMappedTwice == Spec => []NeverRemaps
BY OwnedOnce, IInvNeverRemaps, PTL

\* Every slot is free or in one caller's hands, and between calls every frame is free
\* or mapped.
THEOREM EverySlotAccounted == Spec => []SlotsAccounted
BY OwnedOnce, IInvSlotsAccounted, PTL
-----------------------------------------------------------------------------
(***************************************************************************)
(* The page tree: the tables on the way to a slot.                         *)
(***************************************************************************)
IsIndex(m, s, f) == f = [k \in 0 .. m |-> IF k = 0 THEN s ELSE f[k - 1] \div Fan]

\* The function that TableOf takes its index from exists.
LEMMA IndexExists ==
  ASSUME NEW n \in Nat, NEW s
  PROVE  \E f : IsIndex(n, s, f)
<1> DEFINE G(m, f) == IsIndex(m, s, f)
           Bad == {m \in Nat : ~ \E f : G(m, f)}
<1>1. SUFFICES ASSUME Bad # {} PROVE FALSE
  OBVIOUS
<1>2. PICK m \in Bad : \A j \in Bad : m <= j
  BY <1>1, LeastNat
<1>3. CASE m = 0
  <2>1. G(0, [k \in 0 .. 0 |-> s])
    BY DEF IsIndex
  <2> QED BY <1>2, <1>3, <2>1
<1>4. CASE m # 0
  <2>1. PICK f : G(m - 1, f)
    <3> HIDE DEF G
    <3>1. m \in Nat /\ m - 1 \in Nat /\ ~(m <= m - 1)
      BY <1>2, <1>4
    <3>2. m - 1 \notin Bad
      BY <1>2, <3>1
    <3> QED BY <3>1, <3>2
  <2> DEFINE g == [k \in 0 .. m |-> IF k = m THEN f[m - 1] \div Fan ELSE f[k]]
  <2>2. G(m, g)
    <3>1. ASSUME NEW k \in 0 .. m
          PROVE  g[k] = IF k = 0 THEN s ELSE g[k - 1] \div Fan
      <4>1. CASE k = m
        <5>1. g[k] = f[m - 1] \div Fan /\ g[k - 1] = f[m - 1]
          BY <4>1, <1>2, <1>4
        <5> HIDE DEF g
        <5> QED BY <5>1, <4>1, <1>4
      <4>2. CASE k # m
        <5>1. /\ g[k] = f[k] /\ (k # 0 => g[k - 1] = f[k - 1])
              /\ f[k] = IF k = 0 THEN s ELSE f[k - 1] \div Fan
          <6>1. k \in 0 .. m - 1 /\ (k # 0 => k - 1 \in 0 .. m /\ k - 1 # m)
            BY <4>2, <1>2, <1>4
          <6>2. f[k] = IF k = 0 THEN s ELSE f[k - 1] \div Fan
            BY <2>1, <6>1 DEF IsIndex
          <6> QED BY <4>2, <6>1, <6>2
        <5> HIDE DEF g
        <5> QED BY <5>1
      <4> QED BY <4>1, <4>2
    <3>2. g = [k \in 0 .. m |-> g[k]]
      OBVIOUS
    <3> HIDE DEF g
    <3> QED BY <3>1, <3>2 DEF IsIndex
  <2> HIDE DEF g
  <2> QED BY <1>2, <2>2
<1> QED BY <1>3, <1>4

\* What the prover knows of division.
LEMMA Division ==
  ASSUME NEW n \in Nat \ {0, 1}
  PROVE  0 \div n = 0 /\ 1 \div n = 0 /\ \A x \in Nat : x \div n \in Nat
OBVIOUS

\* The table of the next height is the parent.
LEMMA TableIndex ==
  ASSUME NEW s \in Slots
  PROVE  /\ TableOf(s, 0) = <<0, s>>
         /\ \A h \in 0 .. Levels :
              /\ TableOf(s, h)[1] = h /\ TableOf(s, h)[2] \in Nat
              /\ TableOf(s, h) = <<h, TableOf(s, h)[2]>>
         /\ \A h \in 0 .. Levels - 1 : TableOf(s, h + 1)[2] = TableOf(s, h)[2] \div Fan
<1> DEFINE index[k \in 0 .. Levels] == IF k = 0 THEN s ELSE index[k - 1] \div Fan
<1>1. index = [k \in 0 .. Levels |-> IF k = 0 THEN s ELSE index[k - 1] \div Fan]
  <2>1. Levels \in Nat
    BY TreeAssumption
  <2>2. \E f : IsIndex(Levels, s, f)
    BY <2>1, IndexExists
  <2> QED BY <2>2, Zenon DEF IsIndex
<1>2. \A h : TableOf(s, h) = <<h, index[h]>>
  BY DEF TableOf
<1> HIDE DEF index
<1>3. Levels \in Nat /\ Fan \in Nat \ {0, 1} /\ s \in Nat
  <2>1. \A x : 1 .. x \subseteq Nat
    OBVIOUS
  <2>2. s \in Nat
    BY <2>1, SlotsAssumption, Zenon
  <2> QED BY <2>2, TreeAssumption
<1>4. index[0] = s /\ \A h \in 0 .. Levels - 1 : index[h + 1] = index[h] \div Fan
  <2>1. index[0] = s
    BY <1>1, <1>3
  <2>2. ASSUME NEW h \in 0 .. Levels - 1 PROVE index[h + 1] = index[h] \div Fan
    <3> DEFINE up == [k \in 0 .. Levels |-> index[k - 1] \div Fan]
    <3>1. h + 1 \in 0 .. Levels /\ h + 1 # 0 /\ h + 1 - 1 = h
      BY <1>3
    <3>2. up[h + 1] = index[h] \div Fan
      BY <3>1
    <3>3. index = [k \in 0 .. Levels |-> IF k = 0 THEN s ELSE up[k]]
      BY <1>1
    <3> HIDE DEF up
    <3>4. index[h + 1] = up[h + 1]
      BY <3>1, <3>3
    <3> QED BY <3>2, <3>4
  <2> QED BY <2>1, <2>2
<1>5. \A h \in 0 .. Levels : index[h] \in Nat
  <2> DEFINE Bad == {h \in 0 .. Levels : index[h] \notin Nat}
  <2>1. ASSUME Bad # {} PROVE FALSE
    <3>1. PICK h \in Bad : \A j \in Bad : h <= j
      <4>1. Bad \in SUBSET Nat
        OBVIOUS
      <4> HIDE DEF Bad
      <4> QED BY <2>1, <4>1, LeastNat
    <3>2. h # 0
      BY <1>3, <1>4, <3>1
    <3>3. h - 1 \in 0 .. Levels - 1 /\ h - 1 \notin Bad /\ (h - 1) + 1 = h
      BY <1>3, <3>1, <3>2
    <3> DEFINE g == h - 1
    <3>4. g \in 0 .. Levels - 1 /\ g + 1 = h /\ index[g] \in Nat
      BY <1>3, <3>3
    <3> HIDE DEF g
    <3>5. index[g + 1] = index[g] \div Fan
      BY <1>4, <3>4
    <3>6. index[g] \div Fan \in Nat
      BY <1>3, <3>4, Division
    <3>7. index[h] \in Nat
      BY <3>4, <3>5, <3>6
    <3> QED BY <3>1, <3>7
  <2> QED BY <2>1
<1> QED BY <1>2, <1>4, <1>5

\* What Path is made of.
LEMMA OnPath ==
  ASSUME NEW s \in Slots
  PROVE  /\ \A t \in Path(s) : /\ t[1] \in 0 .. Levels - 1 /\ t = TableOf(s, t[1])
                             /\ t[2] \in Nat /\ t[2] # 0
         /\ \A h \in 0 .. Levels - 1 : ~Static(TableOf(s, h)) => TableOf(s, h) \in Path(s)
         /\ <<0, s>> \in Path(s) /\ s \in Nat
         /\ Path(s) \subseteq Tables
         /\ IsFiniteSet(Path(s)) /\ Cardinality(Path(s)) \in Nat /\ Cardinality(Path(s)) <= Levels
<1>1. Levels \in Nat /\ Levels > 0 /\ s \in Nat /\ s # 0
  <2>1. \A x : 1 .. x \subseteq Nat
    OBVIOUS
  <2>2. s \in Nat /\ s # 0
    BY <2>1, SlotsAssumption, NoZero, Zenon
  <2> QED BY <2>2, TreeAssumption
<1>2. \A t \in Path(s) : \E h \in 0 .. Levels - 1 : t = TableOf(s, h) /\ ~Static(t)
  BY DEF Path
<1>3. \A t \in Path(s) : t[1] \in 0 .. Levels - 1 /\ t = TableOf(s, t[1]) /\ t[2] \in Nat /\ t[2] # 0
  <2> TAKE t \in Path(s)
  <2>1. PICK h \in 0 .. Levels - 1 : t = TableOf(s, h) /\ ~Static(t)
    BY <1>2
  <2>2. h \in 0 .. Levels
    BY <1>1
  <2> QED BY <2>1, <2>2, TableIndex DEF Static
<1>4. \A h \in 0 .. Levels - 1 : ~Static(TableOf(s, h)) => TableOf(s, h) \in Path(s)
  BY DEF Path
<1>5. <<0, s>> \in Path(s)
  <2>1. 0 \in 0 .. Levels - 1 /\ TableOf(s, 0) = <<0, s>> /\ ~Static(<<0, s>>)
    BY <1>1, TableIndex DEF Static
  <2> QED BY <2>1, <1>4
<1>6. IsFiniteSet(Path(s)) /\ Cardinality(Path(s)) \in Nat /\ Cardinality(Path(s)) <= Levels
  <2> DEFINE f == [h \in 0 .. Levels - 1 |-> TableOf(s, h)]
  <2>1. IsFiniteSet(0 .. Levels - 1) /\ Cardinality(0 .. Levels - 1) = Levels
    BY <1>1, FS_Interval
  <2>2. IsFiniteSet({f[h] : h \in 0 .. Levels - 1}) /\ Cardinality({f[h] : h \in 0 .. Levels - 1}) <= Levels
    <3>1. f \in Surjection(0 .. Levels - 1, {f[h] : h \in 0 .. Levels - 1})
      BY DEF Surjection
    <3> HIDE DEF f
    <3> QED BY <2>1, <3>1, FS_Surjection
  <2>3. Path(s) \subseteq {f[h] : h \in 0 .. Levels - 1}
    BY DEF Path
  <2>4. /\ IsFiniteSet(Path(s)) /\ Cardinality(Path(s)) \in Nat
        /\ Cardinality({f[h] : h \in 0 .. Levels - 1}) \in Nat
        /\ Cardinality(Path(s)) <= Cardinality({f[h] : h \in 0 .. Levels - 1})
    <3> HIDE DEF f
    <3> QED BY <2>2, <2>3, FS_Subset, FS_CardinalityType
  <2> QED BY <1>1, <2>2, <2>4
<1>7. Path(s) \subseteq Tables
  BY DEF Tables
<1> QED BY <1>1, <1>3, <1>4, <1>5, <1>6, <1>7

\* There are finitely many tables.
LEMMA TablesFinite == IsFiniteSet(Tables)
<1> DEFINE S == {Path(s) : s \in Slots}
<1>1. IsFiniteSet(Slots)
  BY SlotsAssumption
<1>2. IsFiniteSet(S)
  <2> DEFINE f == [s \in Slots |-> Path(s)]
  <2>1. f \in Surjection(Slots, S)
    BY DEF Surjection
  <2> HIDE DEF f, S
  <2> QED BY <1>1, <2>1, FS_Surjection
<1>3. \A P \in S : IsFiniteSet(P)
  BY OnPath
<1> HIDE DEF S
<1>4. IsFiniteSet(UNION S)
  BY <1>2, <1>3, FS_UNION
<1> QED BY <1>4 DEF S, Tables

\* Static tables are on the way to static ones.
LEMMA StaticAbove ==
  ASSUME NEW s \in Slots, NEW h \in 0 .. Levels - 1, TableOf(s, h)[2] = 0
  PROVE  TableOf(s, h + 1)[2] = 0
<1>1. TableOf(s, h + 1)[2] = TableOf(s, h)[2] \div Fan
  BY TableIndex
<1> QED BY <1>1, Division, TreeAssumption

\* The first table of slot 1 is the only one of its tables that the 16-bit stage did not make.
LEMMA PathOfOne ==
  ASSUME 1 \in Slots
  PROVE  \A h \in 1 .. Levels : TableOf(1, h)[2] = 0
<1> DEFINE Bad == {h \in 1 .. Levels : TableOf(1, h)[2] # 0}
<1>1. ASSUME Bad # {} PROVE FALSE
  <2>1. PICK h \in Bad : \A j \in Bad : h <= j
    <3>1. Bad \in SUBSET Nat
      OBVIOUS
    <3> HIDE DEF Bad
    <3> QED BY <1>1, <3>1, LeastNat
  <2>2. h # 1
    <3>1. Levels \in Nat /\ 0 \in 0 .. Levels - 1 /\ 0 + 1 = 1
      BY TreeAssumption
    <3>2. TableOf(1, 0 + 1)[2] = TableOf(1, 0)[2] \div Fan /\ TableOf(1, 0) = <<0, 1>>
      BY <3>1, TableIndex
    <3>3. TableOf(1, 1)[2] = 1 \div Fan
      BY <3>1, <3>2
    <3>4. 1 \div Fan = 0
      BY Division, TreeAssumption
    <3> QED BY <2>1, <3>3, <3>4
  <2>3. h - 1 \in 0 .. Levels - 1 /\ h - 1 \in 1 .. Levels /\ h - 1 \notin Bad /\ (h - 1) + 1 = h
    BY <2>1, <2>2, TreeAssumption
  <2>4. TableOf(1, h - 1)[2] = 0
    BY <2>3
  <2>5. TableOf(1, (h - 1) + 1)[2] = 0
    BY <2>3, <2>4, StaticAbove
  <2> QED BY <2>1, <2>3, <2>5
<1> QED BY <1>1
-----------------------------------------------------------------------------
(***************************************************************************)
(* The reserve's accounts and the page tree, while calls are under way.    *)
(***************************************************************************)
\* What is hosted is hosted by a chunk: tables that are linked, and units of nodes.
NodesSound(r) ==
  \A h \in Heaps : /\ r.nodes[h] \in Nat
                   /\ \A s \in Slots : r.nodeUnits[h][s] \in Nat /\ (s \notin r.chunks => r.nodeUnits[h][s] = 0)
HomesSound(r, links) == \A t \in Tables : r.home[t] # 0 => r.home[t] \in r.chunks /\ t \in links

\* The tables that a call of pageout has freed and its parent still points to.
Dead(c) == c.call = "free" /\ c.at = "pageout" /\ c.height > 0
DeadOf(c) == IF Dead(c) THEN {TableOf(c.slot, c.height - 1)} ELSE {}
DeadTables(q) == UNION {DeadOf(q[k]) : k \in DOMAIN q}

\* The tables that are linked are in place, but for those; those have no children;
\* and whoever has a slot that is mapped finds all of its tables.
TreeSound(home, links, dead, live) ==
  /\ links \subseteq Tables /\ dead \subseteq Tables
  /\ \A t \in links : home[t] = 0 => t \in dead
  /\ \A t \in dead : home[t] = 0 /\ Children(t, links) = {}
  /\ \A s \in live : s = 1 \/ Path(s) \subseteq links

\* A call that a caller made, and at most one that the reserve made in the middle of it:
\* to renew itself, or to give a chunk back, also in the middle of a pageout.
Within(c, d) ==
  /\ d.by = "user" /\ c.by # "user"
  /\ c.call = "alloc" <=> c.by = "renew"
  /\ c.by = "trimInFree" <=> Dead(d)
Nesting(q) ==
  /\ Len(q) = 1 => q[1].by = "user"
  /\ Len(q) > 1 => Len(q) = 2 /\ Within(q[1], q[2])
Inner(q) == IF Len(q) = 2 THEN 1 ELSE 0

\* The units that the call of the reserve must find: to renew, one and two for
\* the nodes of both spaces, and one for each table that is missing; and what
\* is left by a call that trims must not call for a renewal.
Need(c, links) ==
  IF c.call = "alloc"
  THEN CASE c.at = "phys"   -> Levels + 3
         [] c.at = "lin"    -> Levels + 2
         [] c.at = "pagein" -> Cardinality(Path(c.slot) \ links)
         [] OTHER           -> 0
  ELSE CASE c.at \in {"pageout", "phys"} -> MinUnits + 4
         [] c.at = "lin"                 -> MinUnits + 3
         [] OTHER                        -> MinUnits + 1
Enough(r, links, q) == Units(r) >= IF Len(q) = 2 THEN Need(q[1], links) ELSE MinUnits + 1

NoGiveBack(q) == \A k \in DOMAIN q : q[k].at # "giveBack"

\* The accounts, and what the lock and the units must be; once a lock is leaked, the reserve
\* is never unlocked and nothing is promised of its units.
Sound(r, links, users, q) ==
  /\ r \in Reserves /\ NodesSound(r) /\ HomesSound(r, links) /\ Nesting(q)
  /\ TreeSound(r.home, links, DeadTables(q), users \cup r.chunks \cup Mapped(q))
Ready(r, links, users, leaks, q) ==
  /\ Sound(r, links, users, q)
  /\ leaks \in Nat /\ r.lockCnt = leaks + Inner(q)
  /\ leaks = 0 => Enough(r, links, q) /\ NoGiveBack(q)

\* What the limits of the reserve have to leave room for (8 and 500 do, with
\* three levels of tables and 254 units in a chunk).
AmpleReserve == MinUnits >= Levels + 4 /\ MaxUnits - MinUnits >= ELength + 3

ReadyInv == Ready(reserve, linked, user, leaked, stack) /\ (machine = "dry" => leaked > 0)
-----------------------------------------------------------------------------
(***************************************************************************)
(* The units of the reserve.                                               *)
(***************************************************************************)
Free(r) == {unit \in r.chunks \X (1 .. ELength) : unit[2] > Hosted(r, unit[1])}

\* A chunk hosts a number of units.
LEMMA HostedCounts ==
  ASSUME NEW r \in Reserves, NodesSound(r), NEW c \in Slots
  PROVE  Hosted(r, c) \in Nat /\ Cardinality({t \in Tables : r.home[t] = c}) \in Nat
<1>1. IsFiniteSet({t \in Tables : r.home[t] = c})
  BY TablesFinite, FS_Subset
<1>2. Cardinality({t \in Tables : r.home[t] = c}) \in Nat
  BY <1>1, FS_CardinalityType
<1>3. r.nodeUnits["avl"][c] \in Nat /\ r.nodeUnits["aslr"][c] \in Nat
  BY DEF NodesSound, Heaps
<1> QED BY <1>2, <1>3 DEF Hosted

\* So do all of them.
LEMMA UnitsCount ==
  ASSUME NEW r \in Reserves
  PROVE  IsFiniteSet(Free(r)) /\ Units(r) = Cardinality(Free(r)) /\ Units(r) \in Nat
<1>1. ELength \in Int
  BY ReserveAssumption
<1>2. IsFiniteSet(r.chunks)
  BY SlotsAssumption, FS_Subset DEF Reserves
<1>3. IsFiniteSet(1 .. ELength)
  BY <1>1, FS_Interval
<1>4. IsFiniteSet(r.chunks \X (1 .. ELength))
  BY <1>2, <1>3, FS_Product
<1>5. Free(r) \subseteq r.chunks \X (1 .. ELength)
  BY DEF Free
<1>6. IsFiniteSet(Free(r))
  BY <1>4, <1>5, FS_Subset
<1> QED BY <1>6, FS_CardinalityType DEF Units, Free

\* With as many chunks, none of which hosts more, it has as many units.
LEMMA UnitsMore ==
  ASSUME NEW r \in Reserves, NEW s \in Reserves, NodesSound(r), NodesSound(s), r.chunks \subseteq s.chunks,
         \A c \in r.chunks : Hosted(s, c) <= Hosted(r, c)
  PROVE  Units(s) >= Units(r)
<1>1. Free(r) \subseteq Free(s)
  <2>1. \A c \in r.chunks : Hosted(s, c) \in Nat /\ Hosted(r, c) \in Nat
    BY HostedCounts DEF Reserves
  <2>2. \A i \in 1 .. ELength : i \in Int
    OBVIOUS
  <2> QED BY <2>1, <2>2 DEF Free
<1>2. Cardinality(Free(r)) <= Cardinality(Free(s))
  BY <1>1, UnitsCount, FS_Subset
<1> QED BY <1>2, UnitsCount

\* A unit taken is one less.
LEMMA UnitsOneLess ==
  ASSUME NEW r \in Reserves, NEW s \in Reserves, NodesSound(r), NodesSound(s), s.chunks = r.chunks,
         NEW x \in Slots, Hosted(s, x) <= Hosted(r, x) + 1,
         \A c \in r.chunks : c # x => Hosted(s, c) <= Hosted(r, c)
  PROVE  Units(s) >= Units(r) - 1
<1> DEFINE u == <<x, Hosted(s, x)>>
<1>1. Free(r) \subseteq Free(s) \cup {u}
  <2>1. \A c \in r.chunks : Hosted(s, c) \in Nat /\ Hosted(r, c) \in Nat
    BY HostedCounts DEF Reserves
  <2>2. ASSUME NEW c \in r.chunks, NEW i \in 1 .. ELength, i > Hosted(r, c), <<c, i>> # u
        PROVE  i > Hosted(s, c)
    <3>1. CASE c = x
      BY <2>1, <2>2, <3>1
    <3>2. CASE c # x
      BY <2>1, <2>2, <3>2
    <3> QED BY <3>1, <3>2
  <2> HIDE DEF u
  <2> QED BY <2>2 DEF Free
<1> HIDE DEF u
<1>2. /\ IsFiniteSet(Free(s) \cup {u}) /\ IsFiniteSet(Free(s))
      /\ Cardinality(Free(s) \cup {u}) = IF u \in Free(s) THEN Units(s) ELSE Units(s) + 1
  BY UnitsCount, FS_AddElement
<1>3. Cardinality(Free(r)) <= Cardinality(Free(s) \cup {u})
  BY <1>1, <1>2, FS_Subset
<1>4. Units(r) = Cardinality(Free(r)) /\ Units(s) \in Nat /\ Units(r) \in Nat
  BY UnitsCount
<1> QED BY <1>2, <1>3, <1>4

\* The units of a chunk.
LEMMA ChunkUnits ==
  ASSUME NEW x
  PROVE  /\ ELength \in Nat /\ IsFiniteSet({x} \X (1 .. ELength))
         /\ Cardinality({x} \X (1 .. ELength)) = ELength
<1>1. ELength \in Nat
  BY ReserveAssumption
<1> DEFINE X == {x}
           I == 1 .. ELength
<1>2. IsFiniteSet(X) /\ Cardinality(X) = 1
  BY FS_Singleton
<1>3. IsFiniteSet(I) /\ Cardinality(I) = ELength
  BY <1>1, FS_Interval
<1> HIDE DEF X, I
<1>4. IsFiniteSet(X \X I) /\ Cardinality(X \X I) = Cardinality(X) * Cardinality(I)
  BY <1>2, <1>3, FS_Product
<1>5. Cardinality(X \X I) = ELength
  BY <1>1, <1>2, <1>3, <1>4
<1> QED BY <1>1, <1>4, <1>5 DEF X, I

\* A chunk given up takes its units with it.
LEMMA UnitsTrimmed ==
  ASSUME NEW r \in Reserves, NEW s \in Reserves, NEW x \in r.chunks, s.chunks = r.chunks \ {x},
         \A c \in s.chunks : Hosted(s, c) = Hosted(r, c)
  PROVE  Units(s) >= Units(r) - ELength
<1> DEFINE C == {x} \X (1 .. ELength)
<1>1. ELength \in Nat
  BY ReserveAssumption
<1>2. IsFiniteSet(C) /\ Cardinality(C) = ELength
  BY ChunkUnits
<1>3. Free(r) \subseteq Free(s) \cup C
  BY DEF Free
<1> HIDE DEF C
<1>4. /\ IsFiniteSet(Free(s) \cup C) /\ Cardinality(Free(s) \cap C) \in Nat
      /\ Cardinality(Free(s) \cup C) = Cardinality(Free(s)) + Cardinality(C) - Cardinality(Free(s) \cap C)
  <2>1. IsFiniteSet(Free(s) \cap C)
    BY <1>2, FS_Intersection
  <2> QED BY <1>2, <2>1, UnitsCount, FS_Union, FS_CardinalityType
<1>5. Cardinality(Free(r)) <= Cardinality(Free(s) \cup C)
  BY <1>3, <1>4, FS_Subset
<1>6. Units(r) = Cardinality(Free(r)) /\ Units(r) \in Nat /\ Units(s) = Cardinality(Free(s)) /\ Units(s) \in Nat
  BY UnitsCount
<1> QED BY <1>1, <1>2, <1>4, <1>5, <1>6

\* A chunk that hosts nothing brings all of its units.
LEMMA UnitsEmbraced ==
  ASSUME NEW r \in Reserves, NEW x \in r.chunks, Hosted(r, x) = 0
  PROVE  Units(r) >= ELength
<1> DEFINE C == {x} \X (1 .. ELength)
<1>1. ELength \in Nat
  BY ReserveAssumption
<1>2. IsFiniteSet(C) /\ Cardinality(C) = ELength
  BY ChunkUnits
<1>3. C \subseteq Free(r)
  <2>1. \A i \in 1 .. ELength : i > 0
    OBVIOUS
  <2> QED BY <2>1 DEF Free
<1> HIDE DEF C
<1>4. Cardinality(C) <= Cardinality(Free(r))
  BY <1>3, UnitsCount, FS_Subset
<1> QED BY <1>1, <1>2, <1>4, UnitsCount

\* A reserve with a unit has one to give.
LEMMA UnitsGive ==
  ASSUME NEW r \in Reserves, NodesSound(r), Units(r) >= 1
  PROVE  Sources(r) # {}
<1>1. Free(r) # {}
  <2>1. Cardinality({}) = 0
    BY FS_EmptySet
  <2> QED BY <2>1, UnitsCount
<1>2. PICK c \in r.chunks, i \in 1 .. ELength : i > Hosted(r, c)
  BY <1>1 DEF Free
<1>3. Hosted(r, c) \in Nat /\ ELength \in Nat
  BY HostedCounts, ReserveAssumption DEF Reserves
<1>4. Hosted(r, c) \in 1 .. ELength - 1 \/ Hosted(r, c) = 0
  BY <1>2, <1>3
<1> QED BY <1>2, <1>4 DEF Sources, Empty
-----------------------------------------------------------------------------
(***************************************************************************)
(* What the trees of the space managers cost: no more than a unit for the  *)
(* nodes of a heap, as a unit has room for those of two ranges.            *)
(***************************************************************************)
\* The reserves that differ from one in the nodes they have, and where.
KinOf(r) ==
  {s \in Reserves : NodesSound(s) /\ s.chunks = r.chunks /\ s.home = r.home /\ s.lockCnt = r.lockCnt}

\* The reserve with other nodes, and with a unit more or less for them.
WithNodes(r, h, k) == [r EXCEPT !.nodes[h] = k]
WithUnit(r, h, k, c, d) == [r EXCEPT !.nodes[h] = k, !.nodeUnits[h][c] = @ + d]

\* It differs from the other in these, and has as many units, or one less.
LEMMA KinWith ==
  ASSUME NEW r \in Reserves, NodesSound(r), NEW h \in Heaps, NEW k \in Nat
  PROVE  /\ /\ WithNodes(r, h, k) \in KinOf(r) /\ WithNodes(r, h, k).nodes[h] = k
            /\ Units(WithNodes(r, h, k)) >= Units(r)
         /\ \A x \in r.chunks :
              /\ WithUnit(r, h, k, x, 1) \in KinOf(r) /\ WithUnit(r, h, k, x, 1).nodes[h] = k
              /\ Units(WithUnit(r, h, k, x, 1)) >= Units(r) - 1
         /\ \A x \in r.chunks : r.nodeUnits[h][x] > 0 =>
              /\ WithUnit(r, h, k, x, -1) \in KinOf(r) /\ WithUnit(r, h, k, x, -1).nodes[h] = k
              /\ Units(WithUnit(r, h, k, x, -1)) >= Units(r)
<1>1. /\ r.nodeUnits \in [Heaps -> [Slots -> Int]] /\ r.nodes \in [Heaps -> Int] /\ r.chunks \subseteq Slots
      /\ \A g \in Heaps : r.nodes[g] \in Nat /\ \A x \in Slots : r.nodeUnits[g][x] \in Nat
  BY DEF Reserves, NodesSound
<1>2. "avl" \in Heaps /\ "aslr" \in Heaps
  BY DEF Heaps
<1>3. \A x \in Slots : Hosted(r, x) \in Nat /\ Cardinality({t \in Tables : r.home[t] = x}) \in Nat
  BY HostedCounts
<1>4. ASSUME NEW s, s = [r EXCEPT !.nodes[h] = k]
      PROVE  s \in KinOf(r) /\ s.nodes[h] = k /\ Units(s) >= Units(r)
  <2>1. s.nodes = [r.nodes EXCEPT ![h] = k] /\ s.nodeUnits = r.nodeUnits /\ s.chunks = r.chunks /\ s.home = r.home
        /\ s.lockCnt = r.lockCnt
    BY <1>4 DEF Reserves
  <2>2. s \in Reserves
    <3>1. [r.nodes EXCEPT ![h] = k] \in [Heaps -> Int]
      BY <1>1
    <3>2. s = [r EXCEPT !.nodes = [r.nodes EXCEPT ![h] = k]]
      BY <1>4
    <3> QED BY <3>1, <3>2 DEF Reserves
  <2>3. NodesSound(s)
    BY <1>1, <2>1 DEF NodesSound
  <2>4. \A x \in r.chunks : Hosted(s, x) <= Hosted(r, x)
    <3>1. ASSUME NEW x \in r.chunks PROVE Hosted(s, x) <= Hosted(r, x)
      <4>1. Hosted(s, x) = Hosted(r, x)
        BY <2>1 DEF Hosted
      <4>2. Hosted(r, x) \in Nat
        BY <1>1, <1>3
      <4> QED BY <4>1, <4>2
    <3> QED BY <3>1
  <2>5. Units(s) >= Units(r)
    BY <2>1, <2>2, <2>3, <2>4, UnitsMore
  <2> QED BY <1>1, <2>1, <2>2, <2>3, <2>5 DEF KinOf
<1>5. ASSUME NEW x \in r.chunks, NEW d \in {-1, 1}, r.nodeUnits[h][x] + d \in Nat, NEW s,
             s = [r EXCEPT !.nodes[h] = k, !.nodeUnits[h][x] = @ + d]
      PROVE  s \in KinOf(r) /\ s.nodes[h] = k /\ Units(s) >= IF d = 1 THEN Units(r) - 1 ELSE Units(r)
  <2> DEFINE m == [r.nodeUnits EXCEPT ![h] = [r.nodeUnits[h] EXCEPT ![x] = @ + d]]
  <2>1. /\ s.nodes = [r.nodes EXCEPT ![h] = k] /\ s.nodeUnits = m
        /\ s.chunks = r.chunks /\ s.home = r.home /\ s.lockCnt = r.lockCnt
    BY <1>5 DEF Reserves
  <2>2. /\ m \in [Heaps -> [Slots -> Int]]
        /\ \A g \in Heaps, y \in Slots : m[g][y] = IF g = h /\ y = x THEN r.nodeUnits[g][y] + d ELSE r.nodeUnits[g][y]
    BY <1>1
  <2>3. s \in Reserves
    <3>1. [r.nodes EXCEPT ![h] = k] \in [Heaps -> Int]
      BY <1>1
    <3>2. s = [r EXCEPT !.nodes = [r.nodes EXCEPT ![h] = k], !.nodeUnits = m]
      BY <1>5
    <3> HIDE DEF m
    <3> QED BY <2>2, <3>1, <3>2 DEF Reserves
  <2> HIDE DEF m
  <2>4. NodesSound(s)
    BY <1>1, <1>5, <2>1, <2>2 DEF NodesSound
  <2>5. \A y \in Slots : Hosted(s, y) = IF y = x THEN Hosted(r, y) + d ELSE Hosted(r, y)
    <3> TAKE y \in Slots
    <3> DEFINE n == Cardinality({t \in Tables : r.home[t] = y})
    <3>1. Hosted(r, y) = n + r.nodeUnits["avl"][y] + r.nodeUnits["aslr"][y]
      BY DEF Hosted
    <3>2. Hosted(s, y) = n + m["avl"][y] + m["aslr"][y]
      BY <2>1 DEF Hosted
    <3>3. n \in Nat /\ r.nodeUnits["avl"][y] \in Nat /\ r.nodeUnits["aslr"][y] \in Nat /\ d \in Int
      BY <1>1, <1>2, <1>3
    <3> HIDE DEF n
    <3>4. CASE h = "avl"
      BY <1>2, <2>2, <3>1, <3>2, <3>3, <3>4
    <3>5. CASE h = "aslr"
      BY <1>2, <2>2, <3>1, <3>2, <3>3, <3>5
    <3> QED BY <3>4, <3>5 DEF Heaps
  <2>6. CASE d = 1
    <3>1. Hosted(s, x) <= Hosted(r, x) + 1 /\ \A y \in r.chunks : y # x => Hosted(s, y) <= Hosted(r, y)
      <4>1. \A y \in r.chunks : y \in Slots /\ Hosted(r, y) \in Nat
        BY <1>1, <1>3
      <4> HIDE DEF Hosted
      <4> QED BY <4>1, <2>5, <2>6
    <3>2. Units(s) >= Units(r) - 1
      BY <1>1, <2>1, <2>3, <2>4, <3>1, UnitsOneLess
    <3> QED BY <1>1, <2>1, <2>3, <2>4, <2>6, <3>2 DEF KinOf
  <2>7. CASE d = -1
    <3>1. ASSUME NEW y \in r.chunks PROVE Hosted(s, y) <= Hosted(r, y)
      <4>1. y \in Slots /\ Hosted(r, y) \in Nat
        BY <1>1, <1>3
      <4>2. Hosted(s, y) = IF y = x THEN Hosted(r, y) + d ELSE Hosted(r, y)
        BY <4>1, <2>5
      <4> QED BY <4>1, <4>2, <2>7
    <3>2. Units(s) >= Units(r)
      BY <1>1, <2>1, <2>3, <2>4, <3>1, UnitsMore
    <3> QED BY <1>1, <2>1, <2>3, <2>4, <2>7, <3>2 DEF KinOf
  <2> QED BY <2>6, <2>7
<1>6. /\ WithNodes(r, h, k) \in KinOf(r) /\ WithNodes(r, h, k).nodes[h] = k
      /\ Units(WithNodes(r, h, k)) >= Units(r)
  BY <1>4 DEF WithNodes
<1>7. ASSUME NEW x \in r.chunks, NEW d \in {-1, 1}, r.nodeUnits[h][x] + d \in Nat
      PROVE  /\ WithUnit(r, h, k, x, d) \in KinOf(r) /\ WithUnit(r, h, k, x, d).nodes[h] = k
             /\ Units(WithUnit(r, h, k, x, d)) >= IF d = 1 THEN Units(r) - 1 ELSE Units(r)
  BY <1>5, <1>7 DEF WithUnit
<1>8. \A x \in r.chunks : r.nodeUnits[h][x] + 1 \in Nat /\ (r.nodeUnits[h][x] > 0 => r.nodeUnits[h][x] + (-1) \in Nat)
  BY <1>1
<1>9. 1 \in {-1, 1} /\ -1 \in {-1, 1} /\ -1 # 1
  OBVIOUS
<1> QED BY <1>6, <1>7, <1>8, <1>9

\* A node taken costs a unit if the heap has none left, and then brings more.
LEMMA NodeTake ==
  ASSUME NEW r \in Reserves, NodesSound(r), NEW h \in Heaps
  PROVE  /\ \A s \in NodeChanged(r, "take", h) :
              /\ s \in KinOf(r)
              /\ r.nodes[h] > 0 => s.nodes[h] = r.nodes[h] - 1 /\ Units(s) >= Units(r)
              /\ r.nodes[h] = 0 => s.nodes[h] = NodesPerUnit - 1 /\ Units(s) >= Units(r) - 1
         /\ r.nodes[h] > 0 \/ Units(r) >= 1 => NodeChanged(r, "take", h) # {}
<1>1. r.nodes[h] \in Nat /\ NodesPerUnit - 1 \in Nat
  BY ReserveAssumption DEF NodesSound
<1>2. CASE r.nodes[h] > 0
  <2>1. NodeChanged(r, "take", h) = {[r EXCEPT !.nodes[h] = r.nodes[h] - 1]}
    BY <1>2 DEF NodeChanged, NodeTaken
  <2>2. r.nodes[h] - 1 \in Nat
    BY <1>1, <1>2
  <2> DEFINE k == r.nodes[h] - 1
  <2>3. ASSUME NEW s \in NodeChanged(r, "take", h)
        PROVE  s \in KinOf(r) /\ s.nodes[h] = k /\ Units(s) >= Units(r)
    <3>1. s = WithNodes(r, h, k) /\ k \in Nat
      BY <2>1, <2>2 DEF WithNodes
    <3> HIDE DEF k
    <3> QED BY <3>1, KinWith
  <2>4. NodeChanged(r, "take", h) # {}
    BY <2>1
  <2> QED BY <1>2, <2>3, <2>4
<1>3. CASE r.nodes[h] = 0
  <2>1. NodeChanged(r, "take", h) =
          {[r EXCEPT !.nodes[h] = NodesPerUnit - 1, !.nodeUnits[h][c] = @ + 1] : c \in Sources(r)}
    BY <1>3 DEF NodeChanged, NodeTaken
  <2>2. Sources(r) \subseteq r.chunks
    BY DEF Sources, Empty
  <2>3. Units(r) >= 1 => Sources(r) # {}
    BY UnitsGive
  <2> DEFINE k == NodesPerUnit - 1
  <2>4. ASSUME NEW s \in NodeChanged(r, "take", h)
        PROVE  s \in KinOf(r) /\ s.nodes[h] = k /\ Units(s) >= Units(r) - 1
    <3>1. PICK c \in r.chunks : s = WithUnit(r, h, k, c, 1)
      BY <2>1, <2>2 DEF WithUnit
    <3>2. k \in Nat
      BY <1>1
    <3> HIDE DEF k
    <3> QED BY <3>1, <3>2, KinWith
  <2>5. Units(r) >= 1 => NodeChanged(r, "take", h) # {}
    BY <2>1, <2>3
  <2> HIDE DEF NodeChanged
  <2> QED BY <1>3, <2>4, <2>5
<1> QED BY <1>1, <1>2, <1>3

\* A node given costs nothing, and one is left.
LEMMA NodeGive ==
  ASSUME NEW r \in Reserves, NodesSound(r), NEW h \in Heaps
  PROVE  /\ \A s \in NodeChanged(r, "give", h) : s \in KinOf(r) /\ s.nodes[h] >= 1 /\ Units(s) >= Units(r)
         /\ NodeChanged(r, "give", h) # {}
<1> DEFINE q == [r EXCEPT !.nodes[h] = @ + 1]
           Freed == {[q EXCEPT !.nodes[h] = @ - NodesPerUnit, !.nodeUnits[h][c] = @ - 1] :
                        c \in {c \in q.chunks : q.nodeUnits[h][c] > 0}}
<1>1. /\ q = [r EXCEPT !.nodes[h] = r.nodes[h] + 1] /\ r.nodes[h] + 1 \in Nat /\ r.nodes[h] + 1 >= 1
      /\ NodesPerUnit \in Nat /\ MaxNodes \in Nat /\ MaxNodes >= NodesPerUnit
  BY ReserveAssumption DEF NodesSound
<1>2. NodeChanged(r, "give", h) = {q} \cup (IF q.nodes[h] > MaxNodes THEN Freed ELSE {})
  BY DEF NodeChanged, NodeGiven
<1> HIDE DEF q
<1>3. q \in KinOf(r) /\ q.nodes[h] = r.nodes[h] + 1 /\ Units(q) >= Units(r)
  <2> DEFINE k == r.nodes[h] + 1
  <2>1. q = WithNodes(r, h, k) /\ k \in Nat
    BY <1>1 DEF WithNodes
  <2>2. q \in KinOf(r) /\ q.nodes[h] = k /\ Units(q) >= Units(r)
    <3> HIDE DEF k
    <3> QED BY <2>1, KinWith
  <2> QED BY <2>2
<1>4. q \in Reserves /\ NodesSound(q) /\ q.chunks = r.chunks /\ q.home = r.home /\ q.lockCnt = r.lockCnt
  BY <1>3 DEF KinOf
<1>5. ASSUME NEW s \in Freed, q.nodes[h] > MaxNodes
      PROVE  s \in KinOf(r) /\ s.nodes[h] >= 1 /\ Units(s) >= Units(r)
  <2>1. PICK c \in q.chunks : /\ q.nodeUnits[h][c] > 0
                             /\ s = [q EXCEPT !.nodes[h] = @ - NodesPerUnit, !.nodeUnits[h][c] = @ - 1]
    OBVIOUS
  <2> HIDE DEF Freed
  <2> DEFINE k == q.nodes[h] - NodesPerUnit
  <2>2. k \in Nat /\ k >= 1
    <3> DEFINE n == q.nodes[h]
    <3>1. n \in Nat /\ n > MaxNodes
      BY <1>1, <1>3, <1>5
    <3> HIDE DEF n
    <3>2. n - NodesPerUnit \in Nat /\ n - NodesPerUnit >= 1
      BY <3>1, ReserveAssumption
    <3> QED BY <3>2 DEF n
  <2>3. s = WithUnit(q, h, k, c, -1)
    <3>1. q.nodeUnits[h][c] - 1 = q.nodeUnits[h][c] + (-1)
      <4>1. c \in Slots /\ q.nodeUnits[h][c] \in Nat
        BY <1>4 DEF NodesSound, Reserves
      <4> QED BY <4>1
    <3> QED BY <2>1, <3>1 DEF WithUnit
  <2> HIDE DEF k
  <2>4. s \in KinOf(q) /\ s.nodes[h] = k /\ Units(s) >= Units(q)
    <3>1. c \in q.chunks /\ q.nodeUnits[h][c] > 0 /\ q \in Reserves /\ NodesSound(q) /\ k \in Nat
      BY <1>4, <2>1, <2>2
    <3>2. /\ WithUnit(q, h, k, c, -1) \in KinOf(q) /\ WithUnit(q, h, k, c, -1).nodes[h] = k
          /\ Units(WithUnit(q, h, k, c, -1)) >= Units(q)
      BY <3>1, KinWith
    <3> QED BY <2>3, <3>2
  <2>5. s \in KinOf(r)
    BY <1>4, <2>4 DEF KinOf
  <2>6. Units(s) \in Nat /\ Units(q) \in Nat /\ Units(r) \in Nat
    BY <1>4, <2>5, UnitsCount DEF KinOf
  <2>7. Units(s) >= Units(r)
    BY <1>3, <2>4, <2>6
  <2>8. s.nodes[h] >= 1
    BY <2>2, <2>4
  <2> QED BY <2>5, <2>7, <2>8
<1> HIDE DEF Freed
<1>6. ASSUME NEW s \in NodeChanged(r, "give", h)
      PROVE  s \in KinOf(r) /\ s.nodes[h] >= 1 /\ Units(s) >= Units(r)
  <2>1. CASE s = q
    BY <1>1, <1>3, <2>1
  <2>2. CASE s \in Freed /\ q.nodes[h] > MaxNodes
    BY <1>5, <2>2
  <2> QED BY <1>2, <1>6, <2>1, <2>2
<1> QED BY <1>2, <1>6

\* If the k-th of n steps leads from the k-th of some sets into the next, all of them
\* lead from the first to the last; and there is one if there always is a next.
LEMMA RepeatWithin ==
  ASSUME NEW n \in Nat, NEW op, NEW h, NEW R, NEW P, R \subseteq P[0],
         \A k \in 0 .. n - 1 : \A r \in P[k] : NodeChanged(r, op, h) \subseteq P[k + 1] /\ NodeChanged(r, op, h) # {}
  PROVE  Repeat(n, op, R, h) \subseteq P[n] /\ (R # {} => Repeat(n, op, R, h) # {})
<1> DEFINE after[k \in 0 .. n] ==
             IF k = 0 THEN R ELSE UNION {NodeChanged(r, op, h) : r \in after[k - 1]}
<1>1. after = [k \in 0 .. n |-> IF k = 0 THEN R
                                ELSE UNION {NodeChanged(r, op, h) : r \in after[k - 1]}]
  <2>1. \E f : Iterates(n, op, R, h, f)
    BY RepeatExists
  <2> QED BY <2>1, Zenon DEF Iterates
<1>2. Repeat(n, op, R, h) = after[n]
  BY DEF Repeat
<1> HIDE DEF after
<1> DEFINE Good(k) == after[k] \subseteq P[k] /\ (R # {} => after[k] # {})
           Bad == {k \in 0 .. n : ~ Good(k)}
<1>3. Bad = {}
  <2> SUFFICES ASSUME Bad # {} PROVE FALSE
    OBVIOUS
  <2>1. PICK k \in Bad : \A j \in Bad : k <= j
    <3>1. Bad \in SUBSET Nat
      OBVIOUS
    <3> HIDE DEF Bad
    <3> QED BY <3>1, LeastNat
  <2>2. k # 0
    <3>1. Good(0)
      BY <1>1
    <3> QED BY <2>1, <3>1
  <2> DEFINE j == k - 1
  <2>3. j \in 0 .. n - 1 /\ j \in 0 .. n /\ j \notin Bad /\ j + 1 = k /\ k \in 0 .. n
    BY <2>1, <2>2
  <2>4. after[k] = UNION {NodeChanged(r, op, h) : r \in after[j]}
    BY <1>1, <2>1, <2>2
  <2>5. Good(j) /\ ~Good(k)
    BY <2>1, <2>3
  <2> HIDE DEF j, Bad
  <2>6. \A r \in P[j] : NodeChanged(r, op, h) \subseteq P[k] /\ NodeChanged(r, op, h) # {}
    BY <2>3
  <2>7. after[k] \subseteq P[k]
    BY <2>4, <2>5, <2>6
  <2>8. R # {} => after[k] # {}
    BY <2>4, <2>5, <2>6
  <2> QED BY <2>5, <2>7, <2>8
<1>4. Good(n)
  BY <1>3
<1> QED BY <1>2, <1>4

\* The same without a promise that there is one.
LEMMA RepeatKin ==
  ASSUME NEW n \in Nat, NEW op \in {"take", "give"}, NEW h \in Heaps, NEW R,
         NEW r \in Reserves, R \subseteq KinOf(r)
  PROVE  Repeat(n, op, R, h) \subseteq KinOf(r)
<1> DEFINE after[k \in 0 .. n] ==
             IF k = 0 THEN R ELSE UNION {NodeChanged(q, op, h) : q \in after[k - 1]}
<1>1. after = [k \in 0 .. n |-> IF k = 0 THEN R
                                ELSE UNION {NodeChanged(q, op, h) : q \in after[k - 1]}]
  <2>1. \E f : Iterates(n, op, R, h, f)
    BY RepeatExists
  <2> QED BY <2>1, Zenon DEF Iterates
<1>2. Repeat(n, op, R, h) = after[n]
  BY DEF Repeat
<1> HIDE DEF after
<1> DEFINE Bad == {k \in 0 .. n : ~ (after[k] \subseteq KinOf(r))}
<1>3. Bad = {}
  <2> SUFFICES ASSUME Bad # {} PROVE FALSE
    OBVIOUS
  <2>1. PICK k \in Bad : \A j \in Bad : k <= j
    <3>1. Bad \in SUBSET Nat
      OBVIOUS
    <3> HIDE DEF Bad
    <3> QED BY <3>1, LeastNat
  <2>2. k # 0
    <3>1. after[0] \subseteq KinOf(r)
      BY <1>1
    <3> QED BY <2>1, <3>1
  <2>3. k - 1 \in 0 .. n /\ k - 1 \notin Bad
    BY <2>1, <2>2
  <2>4. after[k] = UNION {NodeChanged(q, op, h) : q \in after[k - 1]}
    BY <1>1, <2>1, <2>2
  <2>5. ASSUME NEW q \in after[k - 1], NEW s \in NodeChanged(q, op, h)
        PROVE  s \in KinOf(r)
    <3>1. q \in KinOf(r)
      BY <2>3
    <3>2. q \in Reserves /\ NodesSound(q) /\ q.nodes[h] \in Nat
      BY <3>1 DEF KinOf, NodesSound
    <3>3. s \in KinOf(q)
      <4>1. CASE op = "take"
        BY <3>2, <4>1, NodeTake
      <4>2. CASE op = "give"
        BY <3>2, <4>2, NodeGive
      <4> QED BY <4>1, <4>2
    <3> QED BY <3>1, <3>3 DEF KinOf
  <2>6. after[k] \subseteq KinOf(r)
    BY <2>4, <2>5
  <2> QED BY <2>1, <2>6
<1> QED BY <1>2, <1>3

\* Nodes that are given cost nothing, and one is left.
LEMMA RepeatGives ==
  ASSUME NEW n \in Nat, NEW h \in Heaps, NEW r \in Reserves, NEW b \in Nat,
         NEW R, R # {}, R \subseteq {s \in KinOf(r) : Units(s) >= b}
  PROVE  /\ Repeat(n, "give", R, h) # {}
         /\ \A s \in Repeat(n, "give", R, h) :
              s \in KinOf(r) /\ Units(s) >= b /\ (n > 0 => s.nodes[h] >= 1)
<1> DEFINE P == [k \in 0 .. n |-> {s \in KinOf(r) : Units(s) >= b /\ (k > 0 => s.nodes[h] >= 1)}]
<1>1. R \subseteq P[0]
  OBVIOUS
<1>2. ASSUME NEW k \in 0 .. n - 1, NEW q \in P[k]
      PROVE  NodeChanged(q, "give", h) \subseteq P[k + 1] /\ NodeChanged(q, "give", h) # {}
  <2>1. q \in KinOf(r) /\ Units(q) >= b
    BY <1>2
  <2>2. q \in Reserves /\ NodesSound(q)
    BY <2>1 DEF KinOf
  <2>3. ASSUME NEW s \in NodeChanged(q, "give", h) PROVE s \in P[k + 1]
    <3>1. s \in KinOf(q) /\ s.nodes[h] >= 1 /\ Units(s) >= Units(q)
      BY <2>2, NodeGive
    <3>2. s \in KinOf(r)
      BY <2>1, <3>1 DEF KinOf
    <3>3. Units(s) \in Nat /\ Units(q) \in Nat
      BY <2>2, <3>2, UnitsCount DEF KinOf
    <3>4. Units(s) >= b
      BY <2>1, <3>1, <3>3
    <3> QED BY <3>1, <3>2, <3>4
  <2> HIDE DEF P
  <2> QED BY <2>2, <2>3, NodeGive
<1>3. /\ Repeat(n, "give", R, h) \subseteq P[n]
      /\ Repeat(n, "give", R, h) # {}
  <2> HIDE DEF P
  <2> QED BY <1>1, <1>2, RepeatWithin
<1> QED BY <1>3

\* Nodes that are taken cost at most a unit, if there are no more than those in it and
\* those that are left.
LEMMA RepeatTakes ==
  ASSUME NEW n \in Nat, NEW h \in Heaps, NEW r \in Reserves, NEW b \in Nat,
         NEW R, R # {}, R \subseteq {s \in KinOf(r) : Units(s) >= b + 1 /\ n <= NodesPerUnit + s.nodes[h]}
  PROVE  /\ Repeat(n, "take", R, h) # {}
         /\ \A s \in Repeat(n, "take", R, h) : s \in KinOf(r) /\ Units(s) >= b
<1> DEFINE Spare(s, k) == \/ Units(s) >= b + 1 /\ k <= NodesPerUnit + s.nodes[h]
                          \/ Units(s) >= b /\ k <= s.nodes[h]
           P == [k \in 0 .. n |-> {s \in KinOf(r) : Spare(s, n - k)}]
<1>1. R \subseteq P[0]
  OBVIOUS
<1>2. ASSUME NEW k \in 0 .. n - 1, NEW q \in P[k]
      PROVE  NodeChanged(q, "take", h) \subseteq P[k + 1] /\ NodeChanged(q, "take", h) # {}
  <2> DEFINE m == n - k
  <2>1. q \in KinOf(r) /\ Spare(q, m) /\ m \in Nat /\ m >= 1 /\ n - (k + 1) = m - 1
    BY <1>2
  <2>2. q \in Reserves /\ NodesSound(q) /\ q.nodes[h] \in Nat /\ Units(q) \in Nat
    BY <2>1, UnitsCount DEF KinOf, NodesSound
  <2>3. P[k + 1] = {s \in KinOf(r) : Spare(s, m - 1)}
    BY <1>2, <2>1
  <2> HIDE DEF m, P
  <2>4. q.nodes[h] > 0 \/ Units(q) >= 1
    BY <2>1, <2>2
  <2>5. ASSUME NEW s \in NodeChanged(q, "take", h) PROVE s \in P[k + 1]
    <3>1. /\ s \in KinOf(q)
          /\ q.nodes[h] > 0 => s.nodes[h] = q.nodes[h] - 1 /\ Units(s) >= Units(q)
          /\ q.nodes[h] = 0 => s.nodes[h] = NodesPerUnit - 1 /\ Units(s) >= Units(q) - 1
      BY <2>2, NodeTake
    <3>2. s \in KinOf(r)
      BY <2>1, <3>1 DEF KinOf
    <3>3. Units(s) \in Nat /\ NodesPerUnit \in Nat
      BY <3>2, UnitsCount, ReserveAssumption DEF KinOf
    <3>4. CASE q.nodes[h] > 0
      <4>1. Spare(s, m - 1)
        BY <2>1, <2>2, <3>1, <3>3, <3>4
      <4> QED BY <2>3, <3>2, <4>1
    <3>5. CASE q.nodes[h] = 0
      <4>1. Spare(s, m - 1)
        BY <2>1, <2>2, <3>1, <3>3, <3>5
      <4> QED BY <2>3, <3>2, <4>1
    <3> QED BY <2>2, <3>4, <3>5
  <2> QED BY <2>2, <2>4, <2>5, NodeTake
<1>3. /\ Repeat(n, "take", R, h) \subseteq P[n]
      /\ Repeat(n, "take", R, h) # {}
  <2> HIDE DEF P
  <2> QED BY <1>1, <1>2, RepeatWithin
<1>4. P[n] = {s \in KinOf(r) : Spare(s, 0)}
  OBVIOUS
<1>5. ASSUME NEW s \in KinOf(r), Spare(s, 0) PROVE Units(s) >= b
  BY <1>5, UnitsCount DEF KinOf
<1> HIDE DEF P, Spare
<1> QED BY <1>3, <1>4, <1>5

\* A step of a space manager deletes one range and adds at most two, or adds at most one.
LEMMA RangesFew ==
  ASSUME NEW before \in SUBSET Int, IsFiniteSet(before), NEW x \in Int,
         NEW after, after = before \ {x} \/ after = before \cup {x}
  PROVE  \/ RangesChanged(before, after)[1] = 1 /\ RangesChanged(before, after)[2] <= 2
         \/ RangesChanged(before, after)[2] = 1
<1> DEFINE Starts(free) == {s \in free : s - 1 \notin free}
<1>1. CASE after \subseteq before
  <2>1. IsFiniteSet(after) /\ (after = before \ {x} \/ after = before)
    BY <1>1, FS_RemoveElement
  <2>2. IsFiniteSet(Starts(before)) /\ IsFiniteSet(Starts(after))
    BY <2>1, FS_Subset
  <2>3. Starts(after) \subseteq Starts(before) \cup {x + 1}
    <3>1. ASSUME NEW s \in after, s - 1 \notin after, s # x + 1 PROVE s - 1 \notin before
      <4>0. s \in before
        BY <2>1
      <4>1. s \in Int /\ s - 1 # x
        BY <3>1, <4>0
      <4> QED BY <2>1, <3>1, <4>1
    <3> QED BY <2>1, <3>1
  <2> HIDE DEF Starts
  <2>4. Cardinality(Starts(before)) \in Nat /\ Cardinality(Starts(after)) \in Nat
    BY <2>2, FS_CardinalityType
  <2>5. /\ IsFiniteSet(Starts(before) \cup {x + 1})
        /\ Cardinality(Starts(before) \cup {x + 1}) \in {Cardinality(Starts(before)), Cardinality(Starts(before)) + 1}
    BY <2>2, FS_AddElement
  <2>6. Cardinality(Starts(after)) <= Cardinality(Starts(before) \cup {x + 1})
    BY <2>3, <2>5, FS_Subset
  <2>7. Ranges(before) = Cardinality(Starts(before)) /\ Ranges(after) = Cardinality(Starts(after))
    BY DEF Ranges, Starts
  <2>8. Ranges(after) - Ranges(before) + 1 <= 2
    BY <2>4, <2>5, <2>6, <2>7
  <2> QED BY <1>1, <2>8 DEF RangesChanged
<1>2. CASE ~(after \subseteq before)
  BY <1>2 DEF RangesChanged
<1> QED BY <1>1, <1>2

\* The reserves that the trees leave, how many units they have if there were enough,
\* and that there are any.
LEMMA TreesAfford ==
  ASSUME NEW r \in Reserves, NodesSound(r), NEW before \in SUBSET Int, IsFiniteSet(before), NEW x \in Int,
         NEW after, after = before \ {x} \/ after = before \cup {x}
  PROVE  /\ PhysicalTrees(r, before, after) \subseteq KinOf(r)
         /\ LinearTrees(r, before, after) \subseteq KinOf(r)
         /\ \A b \in Nat : Units(r) >= b + 1 =>
              /\ PhysicalTrees(r, before, after) # {}
              /\ \A s \in PhysicalTrees(r, before, after) : Units(s) >= b
         /\ \A b \in Nat : Units(r) >= b + 2 =>
              /\ LinearTrees(r, before, after) # {}
              /\ \A s \in LinearTrees(r, before, after) : Units(s) >= b
<1> DEFINE n == RangesChanged(before, after)
           i == n[1]
           j == n[2]
<1>1. i \in Nat /\ j \in Nat /\ ((i = 1 /\ j <= 2) \/ j = 1)
  BY RangesCounted, RangesFew
<1>2. r \in KinOf(r) /\ "avl" \in Heaps /\ "aslr" \in Heaps /\ NodesPerUnit \in Nat /\ NodesPerUnit >= 3
      /\ Units(r) \in Nat
  BY UnitsCount, ReserveAssumption DEF KinOf, Heaps
<1> DEFINE One == {r}
           G == Repeat(2 * i, "give", One, "avl")
           G1 == Repeat(i, "give", One, "aslr")
           G2 == Repeat(i, "give", G1, "avl")
           T1 == Repeat(j, "take", G2, "aslr")
<1>3. /\ PhysicalTrees(r, before, after) = Repeat(2 * j, "take", G, "avl")
      /\ LinearTrees(r, before, after) = Repeat(j, "take", T1, "avl")
  BY DEF PhysicalTrees, LinearTrees
<1> HIDE DEF n, i, j
<1>4. 2 * i \in Nat /\ 2 * j \in Nat /\ j <= 2
  BY <1>1
<1>5. \A s \in KinOf(r) : s.nodes["avl"] \in Nat /\ s.nodes["aslr"] \in Nat
  BY <1>2 DEF KinOf, NodesSound
<1>6. G \subseteq KinOf(r) /\ G1 \subseteq KinOf(r)
  <2>1. One \subseteq KinOf(r)
    BY <1>2
  <2> HIDE DEF One
  <2> QED BY <1>1, <1>2, <1>4, <2>1, RepeatKin
<1>7. G2 \subseteq KinOf(r)
  <2> HIDE DEF G1
  <2> QED BY <1>1, <1>2, <1>6, RepeatKin
<1>8. T1 \subseteq KinOf(r)
  <2> HIDE DEF G2
  <2> QED BY <1>1, <1>2, <1>7, RepeatKin
<1>9. Repeat(2 * j, "take", G, "avl") \subseteq KinOf(r) /\ Repeat(j, "take", T1, "avl") \subseteq KinOf(r)
  <2> HIDE DEF G, T1
  <2> QED BY <1>1, <1>2, <1>4, <1>6, <1>8, RepeatKin
<1>10. ASSUME NEW b \in Nat, Units(r) >= b + 1
       PROVE  /\ Repeat(2 * j, "take", G, "avl") # {}
              /\ \A s \in Repeat(2 * j, "take", G, "avl") : Units(s) >= b
  <2>1. b + 1 \in Nat /\ One # {} /\ One \subseteq {s \in KinOf(r) : Units(s) >= b + 1}
    BY <1>2, <1>10
  <2> HIDE DEF One
  <2>2. G # {} /\ \A s \in G : s \in KinOf(r) /\ Units(s) >= b + 1 /\ (2 * i > 0 => s.nodes["avl"] >= 1)
    <3> DEFINE k == 2 * i
               u == b + 1
    <3> HIDE DEF k, u
    <3>1. k \in Nat /\ u \in Nat
      BY <1>4, <2>1 DEF k, u
    <3>2. One \subseteq {s \in KinOf(r) : Units(s) >= u}
      BY <2>1 DEF u
    <3>3. /\ Repeat(k, "give", One, "avl") # {}
          /\ \A s \in Repeat(k, "give", One, "avl") : s \in KinOf(r) /\ Units(s) >= u /\ (k > 0 => s.nodes["avl"] >= 1)
      BY <1>2, <2>1, <3>1, <3>2, RepeatGives
    <3> QED BY <3>3 DEF k, u
  <2> HIDE DEF G
  <2>3. \A s \in G : 2 * j <= NodesPerUnit + s.nodes["avl"]
    <3> TAKE s \in G
    <3>1. s.nodes["avl"] \in Nat /\ (i > 0 => s.nodes["avl"] >= 1)
      BY <1>1, <1>5, <2>2
    <3> QED BY <1>1, <1>2, <3>1
  <2>4. G \subseteq {s \in KinOf(r) : Units(s) >= b + 1 /\ 2 * j <= NodesPerUnit + s.nodes["avl"]}
    BY <2>2, <2>3
  <2> DEFINE k == 2 * j
  <2>5. k \in Nat /\ G \subseteq {s \in KinOf(r) : Units(s) >= b + 1 /\ k <= NodesPerUnit + s.nodes["avl"]}
    BY <1>4, <2>4
  <2> HIDE DEF k
  <2>6. Repeat(k, "take", G, "avl") # {} /\ \A s \in Repeat(k, "take", G, "avl") : Units(s) >= b
    BY <1>2, <2>2, <2>5, RepeatTakes
  <2> QED BY <2>6 DEF k
<1>11. ASSUME NEW b \in Nat, Units(r) >= b + 2
       PROVE  /\ Repeat(j, "take", T1, "avl") # {}
              /\ \A s \in Repeat(j, "take", T1, "avl") : Units(s) >= b
  <2> DEFINE u == b + 2
             v == b + 1
  <2>1. u \in Nat /\ v \in Nat /\ u = v + 1 /\ v = b + 1 /\ One # {} /\ One \subseteq {s \in KinOf(r) : Units(s) >= u}
    BY <1>2, <1>11
  <2> HIDE DEF One
  <2> HIDE DEF u, v
  <2>2. G1 # {} /\ G1 \subseteq {s \in KinOf(r) : Units(s) >= u}
    <3>1. G1 # {} /\ \A s \in G1 : s \in KinOf(r) /\ Units(s) >= u
      BY <1>1, <1>2, <2>1, RepeatGives
    <3> QED BY <3>1
  <2>3. G2 # {} /\ G2 \subseteq {s \in KinOf(r) : Units(s) >= u}
    <3> HIDE DEF G1
    <3>1. G2 # {} /\ \A s \in G2 : s \in KinOf(r) /\ Units(s) >= u
      BY <1>1, <1>2, <2>1, <2>2, RepeatGives
    <3> QED BY <3>1
  <2>4. T1 # {} /\ T1 \subseteq {s \in KinOf(r) : Units(s) >= v}
    <3> HIDE DEF G2
    <3>1. G2 \subseteq {s \in KinOf(r) : Units(s) >= v + 1 /\ j <= NodesPerUnit + s.nodes["aslr"]}
      <4>1. ASSUME NEW s \in KinOf(r) PROVE j <= NodesPerUnit + s.nodes["aslr"]
        BY <1>1, <1>2, <1>4, <1>5
      <4> QED BY <2>1, <2>3, <4>1
    <3>2. T1 # {} /\ \A s \in T1 : s \in KinOf(r) /\ Units(s) >= v
      BY <1>1, <1>2, <2>1, <2>3, <3>1, RepeatTakes
    <3> QED BY <3>2
  <2> HIDE DEF T1
  <2>5. T1 \subseteq {s \in KinOf(r) : Units(s) >= b + 1 /\ j <= NodesPerUnit + s.nodes["avl"]}
    <3>1. ASSUME NEW s \in KinOf(r) PROVE j <= NodesPerUnit + s.nodes["avl"]
      BY <1>1, <1>2, <1>4, <1>5
    <3> QED BY <2>1, <2>4, <3>1
  <2> QED BY <1>1, <1>2, <2>4, <2>5, RepeatTakes
<1> HIDE DEF G, T1
<1> QED BY <1>3, <1>9, <1>10, <1>11
-----------------------------------------------------------------------------
(***************************************************************************)
(* What follows a step: the reserve may renew or trim itself.              *)
(***************************************************************************)
\* What a call that is pushed on the stack adds to it.
LEMMA Shape ==
  ASSUME NEW q \in Seq(CallSet), NEW c \in CallSet, NEW p, p = <<c>> \o q
  PROVE  /\ p \in Seq(CallSet) /\ p # <<>> /\ p[1] = c /\ Len(p) = Len(q) + 1 /\ Len(q) \in Nat
         /\ Len(q) = 0 <=> q = <<>>
         /\ DeadTables(p) = DeadOf(c) \cup DeadTables(q)
         /\ Mapped(p) = Mapped(q) \cup MappedOf(c)
         /\ NoGiveBack(p) <=> c.at # "giveBack" /\ NoGiveBack(q)
         /\ Nesting(p) <=> (Len(q) = 0 /\ c.by = "user") \/ (Len(q) = 1 /\ Within(c, q[1]))
         /\ Len(q) = 0 => Inner(p) = 0
         /\ Len(q) = 1 => Inner(p) = 1
         /\ \A r, links : Len(q) = 1 => (Enough(r, links, p) <=> Units(r) >= Need(c, links))
         /\ \A r, links : Len(q) # 1 => (Enough(r, links, p) <=> Units(r) >= MinUnits + 1)
<1>1. /\ \A k \in DOMAIN q : k + 1 \in DOMAIN p /\ p[k + 1] = q[k]
      /\ 1 \in DOMAIN p /\ p[1] = c
      /\ \A k \in DOMAIN p : k = 1 \/ (k - 1 \in DOMAIN q /\ p[k] = q[k - 1])
  BY Places
<1>2. /\ p \in Seq(CallSet) /\ p # <<>> /\ p[1] = c /\ Len(p) = Len(q) + 1 /\ Len(q) \in Nat
      /\ Len(q) = 1 => p[2] = q[1]
      /\ Len(q) = 0 <=> q = <<>>
  OBVIOUS
<1>3. Mapped(p) = Mapped(q) \cup MappedOf(c)
  BY PushAdds, ZenonT(40)
<1>4. DeadTables(p) = DeadOf(c) \cup DeadTables(q)
  <2>1. ASSUME NEW k \in DOMAIN p PROVE DeadOf(p[k]) \subseteq DeadOf(c) \cup DeadTables(q)
    BY <1>1 DEF DeadTables
  <2>2. DeadTables(p) \subseteq DeadOf(c) \cup DeadTables(q)
    BY <2>1 DEF DeadTables
  <2>3. ASSUME NEW k \in DOMAIN q PROVE DeadOf(q[k]) \subseteq DeadTables(p)
    BY <1>1 DEF DeadTables
  <2>4. DeadTables(q) \subseteq DeadTables(p)
    BY <2>3 DEF DeadTables
  <2>5. DeadOf(c) \subseteq DeadTables(p)
    BY <1>1 DEF DeadTables
  <2> QED BY <2>2, <2>4, <2>5
<1>5. NoGiveBack(p) <=> c.at # "giveBack" /\ NoGiveBack(q)
  <2>1. ASSUME NoGiveBack(p), NEW k \in DOMAIN q PROVE q[k].at # "giveBack"
    <3>1. k + 1 \in DOMAIN p /\ p[k + 1] = q[k]
      BY <1>1
    <3> QED BY <2>1, <3>1 DEF NoGiveBack
  <2>2. NoGiveBack(p) => c.at # "giveBack"
    BY <1>1 DEF NoGiveBack
  <2>3. ASSUME c.at # "giveBack", NoGiveBack(q), NEW k \in DOMAIN p PROVE p[k].at # "giveBack"
    BY <1>1, <2>3 DEF NoGiveBack
  <2>4. NoGiveBack(p) => NoGiveBack(q)
    BY <2>1 DEF NoGiveBack
  <2>5. c.at # "giveBack" /\ NoGiveBack(q) => NoGiveBack(p)
    BY <2>3 DEF NoGiveBack
  <2> QED BY <2>2, <2>4, <2>5
<1>6. Nesting(p) <=> (Len(q) = 0 /\ c.by = "user") \/ (Len(q) = 1 /\ Within(c, q[1]))
  BY <1>2 DEF Nesting
<1>7. (Len(q) = 0 => Inner(p) = 0) /\ (Len(q) = 1 => Inner(p) = 1)
  BY <1>2 DEF Inner
<1>8. Len(p) = 2 <=> Len(q) = 1
  BY <1>2
<1>9. \A r, links : Len(q) = 1 => (Enough(r, links, p) <=> Units(r) >= Need(c, links))
  BY <1>8 DEF Enough
<1>10. \A r, links : Len(q) # 1 => (Enough(r, links, p) <=> Units(r) >= MinUnits + 1)
  BY <1>8 DEF Enough
<1> QED BY <1>2, <1>3, <1>4, <1>5, <1>6, <1>7, <1>9, <1>10

\* A call that the reserve makes.
LEMMA ShapeInner ==
  ASSUME NEW q \in Seq(CallSet), Len(q) = 1, NEW c \in CallSet, c.at # "giveBack", DeadOf(c) = {},
         NEW p, p = <<c>> \o q
  PROVE  /\ DeadTables(p) = DeadTables(q) /\ Mapped(p) = Mapped(q) \cup MappedOf(c) /\ Inner(p) = 1
         /\ Nesting(p) <=> Within(c, q[1])
         /\ NoGiveBack(p) <=> NoGiveBack(q)
         /\ \A r, links : Enough(r, links, p) <=> Units(r) >= Need(c, links)
<1>1. /\ DeadTables(p) = DeadOf(c) \cup DeadTables(q)
      /\ Mapped(p) = Mapped(q) \cup MappedOf(c)
      /\ NoGiveBack(p) <=> c.at # "giveBack" /\ NoGiveBack(q)
      /\ Nesting(p) <=> (Len(q) = 0 /\ c.by = "user") \/ (Len(q) = 1 /\ Within(c, q[1]))
      /\ Len(q) = 1 => Inner(p) = 1
      /\ \A r, links : Len(q) = 1 => (Enough(r, links, p) <=> Units(r) >= Need(c, links))
  BY Shape
<1>2. DeadTables(p) = DeadTables(q)
  BY <1>1
<1>3. Len(q) # 0
  OBVIOUS
<1> QED BY <1>1, <1>2, <1>3

\* The lock does not matter to them.
LEMMA LockKin ==
  ASSUME NEW r \in Reserves
  PROVE  /\ \A c : Hosted(Locked(r), c) = Hosted(r, c) /\ Hosted(Unlocked(r), c) = Hosted(r, c)
         /\ Units(Locked(r)) = Units(r) /\ Units(Unlocked(r)) = Units(r)
         /\ Locked(r).lockCnt = r.lockCnt + 1 /\ Unlocked(r).lockCnt = r.lockCnt - 1
         /\ NodesSound(r) => NodesSound(Locked(r)) /\ NodesSound(Unlocked(r))
         /\ \A links : HomesSound(r, links) => HomesSound(Locked(r), links) /\ HomesSound(Unlocked(r), links)
         /\ Locked(r).home = r.home /\ Unlocked(r).home = r.home
         /\ \A links, users, q : Sound(r, links, users, q) =>
              Sound(Locked(r), links, users, q) /\ Sound(Unlocked(r), links, users, q)
<1>1. /\ Locked(r).home = r.home /\ Locked(r).nodeUnits = r.nodeUnits /\ Locked(r).nodes = r.nodes
      /\ Locked(r).chunks = r.chunks /\ Locked(r).lockCnt = r.lockCnt + 1 /\ Locked(r) \in Reserves
  BY DEF Locked, Reserves
<1>2. /\ Unlocked(r).home = r.home /\ Unlocked(r).nodeUnits = r.nodeUnits /\ Unlocked(r).nodes = r.nodes
      /\ Unlocked(r).chunks = r.chunks /\ Unlocked(r).lockCnt = r.lockCnt - 1 /\ Unlocked(r) \in Reserves
  BY DEF Unlocked, Reserves
<1>3. \A c : Hosted(Locked(r), c) = Hosted(r, c) /\ Hosted(Unlocked(r), c) = Hosted(r, c)
  BY <1>1, <1>2 DEF Hosted
<1>4. Units(Locked(r)) = Units(r) /\ Units(Unlocked(r)) = Units(r)
  BY <1>1, <1>2, <1>3 DEF Units
<1>5. NodesSound(r) => NodesSound(Locked(r)) /\ NodesSound(Unlocked(r))
  BY <1>1, <1>2 DEF NodesSound
<1>6. \A links : HomesSound(r, links) => HomesSound(Locked(r), links) /\ HomesSound(Unlocked(r), links)
  BY <1>1, <1>2 DEF HomesSound
<1>7. \A links, users, q : Sound(r, links, users, q) =>
              Sound(Locked(r), links, users, q) /\ Sound(Unlocked(r), links, users, q)
  BY <1>1, <1>2, <1>5, <1>6 DEF Sound
<1> QED BY <1>1, <1>2, <1>3, <1>4, <1>5, <1>6, <1>7

\* A chunk that hosts nothing is nowhere mentioned.
LEMMA HostsNothing ==
  ASSUME NEW r \in Reserves, NodesSound(r), NEW c \in Slots
  PROVE  Hosted(r, c) = 0 <=> (\A t \in Tables : r.home[t] # c) /\ \A h \in Heaps : r.nodeUnits[h][c] = 0
<1> DEFINE S == {t \in Tables : r.home[t] = c}
<1>1. IsFiniteSet(S) /\ Cardinality(S) \in Nat
  BY TablesFinite, FS_Subset, FS_CardinalityType
<1>2. Cardinality(S) = 0 <=> S = {}
  BY <1>1, FS_EmptySet
<1>3. Hosted(r, c) = Cardinality(S) + r.nodeUnits["avl"][c] + r.nodeUnits["aslr"][c]
  BY DEF Hosted
<1>4. r.nodeUnits["avl"][c] \in Nat /\ r.nodeUnits["aslr"][c] \in Nat
  BY DEF NodesSound, Heaps
<1> HIDE DEF S
<1>5. Hosted(r, c) = 0 <=> S = {} /\ r.nodeUnits["avl"][c] = 0 /\ r.nodeUnits["aslr"][c] = 0
  BY <1>1, <1>2, <1>3, <1>4
<1>6. (\A h \in Heaps : r.nodeUnits[h][c] = 0) <=> r.nodeUnits["avl"][c] = 0 /\ r.nodeUnits["aslr"][c] = 0
  BY DEF Heaps
<1>7. S = {} <=> \A t \in Tables : r.home[t] # c
  BY DEF S
<1> QED BY <1>5, <1>6, <1>7

\* A trim leaves more units than a renewal would start at, also when the chunk has been freed.
LEMMA TrimReady ==
  ASSUME AmpleReserve, NEW r, NEW links, NEW users, NEW leaks \in Nat, NEW q \in Seq(CallSet), Len(q) = 1,
         Sound(r, links, users, q), r.lockCnt = leaks + 1, leaks = 0 => NoGiveBack(q),
         NEW by \in {"trim", "trimInFree"}, by = "trimInFree" <=> Dead(q[1]),
         MustTrim(r), Trim(r, q, by)
  PROVE  Ready(reserve', links, users, leaks, stack')
<1>1. PICK x \in r.chunks : /\ Hosted(r, x) = 0 /\ reserve' = [r EXCEPT !.chunks = @ \ {x}]
                           /\ stack' = <<Call("free", by, "pageout", x)>> \o q
  BY DEF Trim, Settle, Empty
<1> DEFINE s == [r EXCEPT !.chunks = @ \ {x}]
           c == Call("free", by, "pageout", x)
           p == <<c>> \o q
<1>2. /\ r \in Reserves /\ NodesSound(r) /\ HomesSound(r, links) /\ Nesting(q)
      /\ TreeSound(r.home, links, DeadTables(q), users \cup r.chunks \cup Mapped(q))
  BY DEF Sound
<1>3. /\ s \in Reserves /\ s.chunks = r.chunks \ {x} /\ s.home = r.home /\ s.nodeUnits = r.nodeUnits
      /\ s.nodes = r.nodes /\ s.lockCnt = r.lockCnt /\ x \in Slots
  BY <1>2 DEF Reserves
<1>4. /\ c \in CallSet /\ c.by = by /\ c.by # "user" /\ c.call = "free" /\ c.at = "pageout" /\ c.at # "giveBack"
      /\ DeadOf(c) = {} /\ MappedOf(c) = {x}
  BY <1>3 DEF Call, CallSet, DeadOf, Dead, MappedOf
<1> HIDE DEF s, c
<1>14. p = <<c>> \o q
  OBVIOUS
<1> HIDE DEF p
<1>5. /\ DeadTables(p) = DeadTables(q) /\ Mapped(p) = Mapped(q) \cup {x} /\ Inner(p) = 1
      /\ Nesting(p) <=> Within(c, q[1])
      /\ NoGiveBack(p) <=> NoGiveBack(q)
      /\ Enough(s, links, p) <=> Units(s) >= Need(c, links)
  BY <1>4, <1>14, ShapeInner
<1>6. (\A t \in Tables : r.home[t] # x) /\ \A h \in Heaps : r.nodeUnits[h][x] = 0
  BY <1>1, <1>2, <1>3, HostsNothing
<1>7. NodesSound(s)
  BY <1>2, <1>3, <1>6 DEF NodesSound
<1>8. HomesSound(s, links)
  BY <1>2, <1>3, <1>6 DEF HomesSound
<1>9. Nesting(p)
  <2>1. q[1].by = "user"
    BY <1>2 DEF Nesting
  <2>2. c.call = "alloc" <=> c.by = "renew"
    BY <1>4
  <2> QED BY <1>4, <1>5, <2>1, <2>2 DEF Within
<1>10. Sound(s, links, users, p)
  <2>1. users \cup s.chunks \cup Mapped(p) = users \cup r.chunks \cup Mapped(q)
    BY <1>3, <1>5
  <2> QED BY <1>2, <1>3, <1>5, <1>7, <1>8, <1>9, <2>1 DEF Sound
<1>11. Units(s) >= MinUnits + 4
  <2>1. \A y : Hosted(s, y) = Hosted(r, y)
    BY <1>3 DEF Hosted
  <2>2. Units(s) >= Units(r) - ELength
    BY <1>2, <1>3, <2>1, UnitsTrimmed
  <2>3. Units(r) > MaxUnits /\ Units(s) \in Nat /\ Units(r) \in Nat
    BY <1>2, <1>3, UnitsCount DEF MustTrim
  <2> QED BY <2>2, <2>3, ReserveAssumption DEF AmpleReserve
<1>12. Need(c, links) = MinUnits + 4
  BY <1>4 DEF Need
<1>13. Ready(s, links, users, leaks, p)
  BY <1>3, <1>5, <1>10, <1>11, <1>12 DEF Ready
<1> QED BY <1>1, <1>13, <1>14 DEF s, c

\* At the end of unlock() the reserve is ready, if it has what a renewal needs.
LEMMA UnlockReady ==
  ASSUME AmpleReserve, NEW r, NEW links, NEW users, NEW leaks \in Nat, NEW q \in Seq(CallSet), q # <<>>,
         Sound(r, links, users, q), ~Dead(q[1]), r.lockCnt = leaks + Inner(q) + 1,
         leaks = 0 => NoGiveBack(q), leaks = 0 /\ Len(q) = 2 => Enough(r, links, q),
         leaks = 0 /\ Len(q) = 1 => Units(r) >= Levels + 3,
         Unlock(r, q)
  PROVE  Ready(reserve', links, users, leaks, stack')
<1>1. r \in Reserves /\ Nesting(q) /\ Units(r) \in Nat /\ MinUnits \in Nat
  BY UnitsCount, ReserveAssumption DEF Sound
<1> DEFINE n == Len(q)
<1>2. /\ (n = 1 /\ Inner(q) = 0) \/ (n = 2 /\ Inner(q) = 1)
      /\ n = 1 <=> Len(q) = 1
      /\ n = 2 <=> Len(q) = 2
  <2>1. n \in Nat /\ n # 0
    OBVIOUS
  <2>2. n > 1 => n = 2
    BY <1>1 DEF Nesting
  <2>3. Inner(q) = IF n = 2 THEN 1 ELSE 0
    BY DEF Inner
  <2>4. (n = 1 <=> Len(q) = 1) /\ (n = 2 <=> Len(q) = 2)
    OBVIOUS
  <2> HIDE DEF n
  <2>5. (n = 1 /\ Inner(q) = 0) \/ (n = 2 /\ Inner(q) = 1)
    BY <2>1, <2>2, <2>3
  <2> QED BY <2>4, <2>5
<1> HIDE DEF n
<1>3. ASSUME Settle(Unlocked(r), q), leaks = 0 => Enough(r, links, q)
      PROVE  Ready(reserve', links, users, leaks, stack')
  <2>1. reserve' = Unlocked(r) /\ stack' = q
    BY <1>3 DEF Settle
  <2>2. Units(Unlocked(r)) = Units(r) /\ Unlocked(r).lockCnt = leaks + Inner(q) /\ Sound(Unlocked(r), links, users, q)
    <3>1. Units(Unlocked(r)) = Units(r) /\ Unlocked(r).lockCnt = r.lockCnt - 1 /\ Sound(Unlocked(r), links, users, q)
      BY <1>1, LockKin
    <3> QED BY <1>2, <3>1
  <2>3. leaks = 0 => Enough(Unlocked(r), links, q)
    BY <1>3, <2>2 DEF Enough
  <2> QED BY <2>1, <2>2, <2>3 DEF Ready
<1>4. CASE r.lockCnt > 1 /\ Settle(Unlocked(r), q)
  <2>1. leaks = 0 => n = 2
    BY <1>2, <1>4
  <2>2. leaks = 0 => Enough(r, links, q)
    BY <1>2, <2>1
  <2> QED BY <1>3, <1>4, <2>2
<1>5. CASE r.lockCnt = 1 /\ Units(r) > MinUnits /\ Settle(Unlocked(r), q)
  <2>1. leaks = 0 => n = 1
    BY <1>2, <1>5
  <2>2. Units(r) >= MinUnits + 1
    BY <1>1, <1>5
  <2>3. leaks = 0 => Enough(r, links, q)
    BY <1>2, <2>1, <2>2 DEF Enough
  <2> QED BY <1>3, <1>5, <2>3
<1>6. CASE r.lockCnt = 1 /\ Units(r) > MinUnits /\ MustTrim(r) /\ Trim(r, q, "trim")
  <2>1. n = 1 /\ leaks = 0 /\ r.lockCnt = leaks + 1
    BY <1>2, <1>6
  <2>2. Len(q) = 1 /\ "trim" \in {"trim", "trimInFree"} /\ ("trim" = "trimInFree" <=> Dead(q[1]))
    BY <1>2, <2>1
  <2> QED BY <1>6, <2>1, <2>2, TrimReady
<1>7. CASE r.lockCnt = 1 /\ Settle(r, <<Call("alloc", "renew", "phys", 0)>> \o q)
  <2> DEFINE c == Call("alloc", "renew", "phys", 0)
             p == <<c>> \o q
  <2>0. n = 1 /\ leaks = 0 /\ r.lockCnt = leaks + 1
    BY <1>2, <1>7
  <2>1. Len(q) = 1 /\ leaks = 0 /\ r.lockCnt = leaks + 1
    BY <1>2, <2>0
  <2>2. /\ c \in CallSet /\ c.by = "renew" /\ c.call = "alloc" /\ c.at = "phys" /\ c.at # "giveBack"
        /\ DeadOf(c) = {} /\ MappedOf(c) = {}
    BY DEF Call, CallSet, DeadOf, Dead, MappedOf
  <2> HIDE DEF c
  <2>10. p = <<c>> \o q
    OBVIOUS
  <2> HIDE DEF p
  <2>3. /\ DeadTables(p) = DeadTables(q) /\ Mapped(p) = Mapped(q) \cup {} /\ Inner(p) = 1
        /\ Nesting(p) <=> Within(c, q[1])
        /\ NoGiveBack(p) <=> NoGiveBack(q)
        /\ Enough(r, links, p) <=> Units(r) >= Need(c, links)
    BY <2>1, <2>2, <2>10, ShapeInner
  <2>4. Nesting(p)
    <3>1. q[1].by = "user"
      BY <1>1, <2>1 DEF Nesting
    <3> QED BY <2>2, <2>3, <3>1 DEF Within
  <2>5. Sound(r, links, users, p)
    <3>1. Mapped(p) = Mapped(q)
      BY <2>3
    <3> QED BY <2>3, <2>4, <3>1 DEF Sound
  <2>6. Need(c, links) = Levels + 3
    BY <2>2 DEF Need
  <2>7. Enough(r, links, p) /\ NoGiveBack(p)
    BY <2>1, <2>3, <2>6
  <2>8. Ready(r, links, users, leaks, p)
    BY <2>1, <2>3, <2>5, <2>7 DEF Ready
  <2>9. reserve' = r /\ stack' = p
    BY <1>7, <2>10 DEF Settle, c
  <2> QED BY <2>8, <2>9
<1> QED BY <1>4, <1>5, <1>6, <1>7 DEF Unlock

\* In the middle of a pageout it is never so low that it would renew itself.
LEMMA TrimAndUnlockReady ==
  ASSUME AmpleReserve, NEW r, NEW links, NEW users, NEW leaks \in Nat, NEW q \in Seq(CallSet), Len(q) = 1,
         Sound(r, links, users, q), Dead(q[1]), r.lockCnt = leaks + 1,
         leaks = 0 => NoGiveBack(q) /\ Units(r) > MinUnits,
         TrimAndUnlock(r, q)
  PROVE  Ready(reserve', links, users, leaks, stack')
<1>1. r \in Reserves /\ Units(r) \in Nat /\ MinUnits \in Nat
  BY UnitsCount, ReserveAssumption DEF Sound
<1>2. CASE MustTrim(r) /\ Trim(r, q, "trimInFree")
  BY <1>2, TrimReady
<1>3. CASE ~MustTrim(r) /\ Unlock(r, q)
  <2>1. reserve' = Unlocked(r) /\ stack' = q
    <3>1. r.lockCnt = 1 => Units(r) > MinUnits /\ ~(Units(r) <= MinUnits)
      BY <1>1
    <3> QED BY <1>3, <3>1 DEF Unlock, Settle
  <2>2. Units(Unlocked(r)) = Units(r) /\ Unlocked(r).lockCnt = leaks + Inner(q) /\ Sound(Unlocked(r), links, users, q)
    <3>1. Units(Unlocked(r)) = Units(r) /\ Unlocked(r).lockCnt = r.lockCnt - 1 /\ Sound(Unlocked(r), links, users, q)
      BY <1>1, LockKin
    <3> QED BY <3>1 DEF Inner
  <2>3. leaks = 0 => Enough(Unlocked(r), links, q)
    <3>1. leaks = 0 => Units(r) >= MinUnits + 1
      BY <1>1
    <3> QED BY <2>2, <3>1 DEF Enough
  <2> QED BY <2>1, <2>2, <2>3 DEF Ready
<1> QED BY <1>2, <1>3 DEF TrimAndUnlock
-----------------------------------------------------------------------------
(***************************************************************************)
(* The steps.                                                              *)
(***************************************************************************)
\* How deep the calls are nested.
LEMMA Depth ==
  ASSUME NEW p, NEW k, Len(p) = k + 1
  PROVE  (k = 0 => Inner(p) = 0) /\ (k = 1 => Inner(p) = 1)
BY DEF Inner

\* What holds of the call that takes a step, and of those it is nested in.
LEMMA ReadyHere ==
  ASSUME IInv, ReadyInv, stack # <<>>
  PROVE  /\ stack = <<Top>> \o Rest /\ Rest \in Seq(CallSet) /\ Top \in CallSet /\ WellFormed(Top)
         /\ Nested(Rest)
         /\ reserve \in Reserves /\ NodesSound(reserve) /\ HomesSound(reserve, linked)
         /\ (Len(Rest) = 0 /\ Top.by = "user") \/ (Len(Rest) = 1 /\ Within(Top, Rest[1]))
         /\ TreeSound(reserve.home, linked, DeadOf(Top) \cup DeadTables(Rest),
                      user \cup reserve.chunks \cup (Mapped(Rest) \cup MappedOf(Top)))
         /\ leaked \in Nat /\ reserve.lockCnt = leaked + Len(Rest)
         /\ leaked = 0 => Top.at # "giveBack" /\ NoGiveBack(Rest)
         /\ leaked = 0 /\ Len(Rest) = 1 => Units(reserve) >= Need(Top, linked)
         /\ leaked = 0 /\ Len(Rest) = 0 => Units(reserve) >= MinUnits + 1
<1> DEFINE c == Top
           outer == Rest
<1>1. stack = <<c>> \o outer /\ outer \in Seq(CallSet) /\ c \in CallSet /\ WellFormed(c) /\ Nested(outer)
  BY Stacked
<1>2. /\ Sound(reserve, linked, user, stack) /\ leaked \in Nat /\ reserve.lockCnt = leaked + Inner(stack)
      /\ leaked = 0 => Enough(reserve, linked, stack) /\ NoGiveBack(stack)
  BY DEF ReadyInv, Ready
<1> HIDE DEF c, outer
<1>3. /\ Len(outer) \in Nat /\ Len(stack) = Len(outer) + 1
      /\ DeadTables(stack) = DeadOf(c) \cup DeadTables(outer)
      /\ Mapped(stack) = Mapped(outer) \cup MappedOf(c)
  BY <1>1, Shape
<1>10. NoGiveBack(stack) <=> c.at # "giveBack" /\ NoGiveBack(outer)
  BY <1>1, Shape
<1>11. Nesting(stack) <=> (Len(outer) = 0 /\ c.by = "user") \/ (Len(outer) = 1 /\ Within(c, outer[1]))
  BY <1>1, Shape
<1>12. (Len(outer) = 0 => Inner(stack) = 0) /\ (Len(outer) = 1 => Inner(stack) = 1)
  BY <1>3, Depth, Zenon
<1>4. /\ Len(outer) = 1 => (Enough(reserve, linked, stack) <=> Units(reserve) >= Need(c, linked))
      /\ Len(outer) # 1 => (Enough(reserve, linked, stack) <=> Units(reserve) >= MinUnits + 1)
  BY <1>1, Shape
<1>5. (Len(outer) = 0 /\ c.by = "user") \/ (Len(outer) = 1 /\ Within(c, outer[1]))
  BY <1>2, <1>11 DEF Sound
<1>6. Inner(stack) = Len(outer)
  BY <1>12, <1>5
<1>7. TreeSound(reserve.home, linked, DeadOf(c) \cup DeadTables(outer),
                user \cup reserve.chunks \cup (Mapped(outer) \cup MappedOf(c)))
  BY <1>2, <1>3 DEF Sound
<1>8. reserve \in Reserves /\ NodesSound(reserve) /\ HomesSound(reserve, linked)
  BY <1>2 DEF Sound
<1>9. /\ leaked \in Nat /\ reserve.lockCnt = leaked + Len(outer)
      /\ leaked = 0 => c.at # "giveBack" /\ NoGiveBack(outer)
      /\ leaked = 0 /\ Len(outer) = 1 => Units(reserve) >= Need(c, linked)
      /\ leaked = 0 /\ Len(outer) = 0 => Units(reserve) >= MinUnits + 1
  BY <1>2, <1>3, <1>4, <1>6, <1>10
<1> QED BY <1>1, <1>5, <1>7, <1>8, <1>9 DEF c, outer

\* The call that goes on is called by the same.
SameCall(c) == c \in CallSet /\ c.call = Top.call /\ c.by = Top.by

\* It goes on in the place of the one that took the step.
LEMMA GoesOnSound ==
  ASSUME IInv, ReadyInv, stack # <<>>, NEW c, SameCall(c),
         NEW r \in Reserves, NodesSound(r), NEW links, HomesSound(r, links), NEW users,
         TreeSound(r.home, links, DeadOf(c) \cup DeadTables(Rest),
                   users \cup r.chunks \cup (Mapped(Rest) \cup MappedOf(c)))
  PROVE  /\ Sound(r, links, users, <<c>> \o Rest) /\ Inner(<<c>> \o Rest) = Len(Rest)
         /\ (<<c>> \o Rest) \in Seq(CallSet) /\ (<<c>> \o Rest) # <<>> /\ (<<c>> \o Rest)[1] = c
         /\ Len(<<c>> \o Rest) = Len(Rest) + 1 /\ Len(Rest) \in {0, 1}
         /\ NoGiveBack(<<c>> \o Rest) <=> c.at # "giveBack" /\ NoGiveBack(Rest)
         /\ \A s, l : Len(Rest) = 1 => (Enough(s, l, <<c>> \o Rest) <=> Units(s) >= Need(c, l))
         /\ \A s, l : Len(Rest) = 0 => (Enough(s, l, <<c>> \o Rest) <=> Units(s) >= MinUnits + 1)
<1> DEFINE outer == Rest
           p == <<c>> \o outer
<1>1. /\ outer \in Seq(CallSet) /\ c \in CallSet /\ c.call = Top.call /\ c.by = Top.by
      /\ (Len(outer) = 0 /\ Top.by = "user") \/ (Len(outer) = 1 /\ Within(Top, outer[1]))
  BY ReadyHere DEF SameCall
<1>2. p = <<c>> \o outer
  OBVIOUS
<1>3. TreeSound(r.home, links, DeadOf(c) \cup DeadTables(outer),
                users \cup r.chunks \cup (Mapped(outer) \cup MappedOf(c)))
  OBVIOUS
<1> HIDE DEF p, outer
<1>4. /\ p \in Seq(CallSet) /\ p # <<>> /\ p[1] = c /\ Len(p) = Len(outer) + 1
      /\ DeadTables(p) = DeadOf(c) \cup DeadTables(outer)
      /\ Mapped(p) = Mapped(outer) \cup MappedOf(c)
  BY <1>1, <1>2, Shape
<1>10. NoGiveBack(p) <=> c.at # "giveBack" /\ NoGiveBack(outer)
  BY <1>1, <1>2, Shape
<1>12. Nesting(p) <=> (Len(outer) = 0 /\ c.by = "user") \/ (Len(outer) = 1 /\ Within(c, outer[1]))
  BY <1>1, <1>2, Shape
<1>13. (Len(outer) = 0 => Inner(p) = 0) /\ (Len(outer) = 1 => Inner(p) = 1)
  BY <1>4, Depth, Zenon
<1>11. /\ \A s, l : Len(outer) = 1 => (Enough(s, l, p) <=> Units(s) >= Need(c, l))
  BY <1>1, <1>2, Shape
<1>5. \A s, l : Len(outer) # 1 => (Enough(s, l, p) <=> Units(s) >= MinUnits + 1)
  BY <1>1, <1>2, Shape
<1>6. Nesting(p)
  BY <1>1, <1>12 DEF Within
<1>7. Inner(p) = Len(outer) /\ Len(outer) \in {0, 1}
  BY <1>1, <1>13
<1>8. Sound(r, links, users, p)
  BY <1>3, <1>4, <1>6 DEF Sound
<1>9. \A s, l : Len(outer) = 0 => (Enough(s, l, p) <=> Units(s) >= MinUnits + 1)
  BY <1>5
<1> QED BY <1>4, <1>7, <1>8, <1>9, <1>10, <1>11 DEF p, outer

\* It is the same for all that the tree of page tables is concerned with...
Quiet(c) ==
  SameCall(c) /\ ~Dead(Top) /\ ~Dead(c) /\ MappedOf(c) \subseteq MappedOf(Top) /\ (leaked = 0 => c.at # "giveBack")

\* ... and the reserve has other nodes: it unlocks it.
LEMMA UnderLockReady ==
  ASSUME AmpleReserve, IInv, ReadyInv, stack # <<>>, NEW c, Quiet(c),
         NEW R, R \subseteq KinOf(Locked(reserve)),
         leaked = 0 /\ Len(Rest) = 1 => \A r \in R : Units(r) >= Need(c, linked),
         leaked = 0 /\ Len(Rest) = 0 => \A r \in R : Units(r) >= Levels + 3,
         UnderLock(R, <<c>> \o Rest)
  PROVE  Ready(reserve', linked, user, leaked, stack')
<1> DEFINE p == <<c>> \o Rest
<1>1. PICK r \in R : Unlock(r, p)
  BY DEF UnderLock
<1>2. /\ reserve \in Reserves /\ NodesSound(reserve) /\ HomesSound(reserve, linked)
      /\ TreeSound(reserve.home, linked, DeadOf(Top) \cup DeadTables(Rest),
                   user \cup reserve.chunks \cup (Mapped(Rest) \cup MappedOf(Top)))
      /\ leaked \in Nat /\ reserve.lockCnt = leaked + Len(Rest)
      /\ leaked = 0 => NoGiveBack(Rest)
      /\ Rest \in Seq(CallSet)
  BY ReadyHere
<1>3. /\ r \in Reserves /\ NodesSound(r) /\ r.chunks = reserve.chunks /\ r.home = reserve.home
      /\ r.lockCnt = leaked + Len(Rest) + 1
  BY <1>2, LockKin, ReserveWith DEF KinOf
<1>4. HomesSound(r, linked)
  BY <1>2, <1>3 DEF HomesSound
<1>5. TreeSound(r.home, linked, DeadOf(c) \cup DeadTables(Rest),
                user \cup r.chunks \cup (Mapped(Rest) \cup MappedOf(c)))
  <2>1. DeadOf(c) = DeadOf(Top)
    BY DEF DeadOf, Quiet
  <2>2. MappedOf(c) \subseteq MappedOf(Top)
    BY DEF Quiet
  <2> QED BY <1>2, <1>3, <2>1, <2>2 DEF TreeSound
<1>6. SameCall(c) /\ ~Dead(Top) /\ ~Dead(c) /\ (leaked = 0 => c.at # "giveBack")
  BY DEF Quiet
<1>7. /\ Sound(r, linked, user, p) /\ Inner(p) = Len(Rest)
      /\ p \in Seq(CallSet) /\ p # <<>> /\ p[1] = c /\ Len(p) = Len(Rest) + 1 /\ Len(Rest) \in {0, 1}
      /\ NoGiveBack(p) <=> c.at # "giveBack" /\ NoGiveBack(Rest)
      /\ Len(Rest) = 1 => (Enough(r, linked, p) <=> Units(r) >= Need(c, linked))
  BY <1>3, <1>4, <1>5, <1>6, GoesOnSound
<1> HIDE DEF p
<1>8. /\ leaked = 0 => NoGiveBack(p)
      /\ leaked = 0 /\ Len(p) = 2 => Enough(r, linked, p)
      /\ leaked = 0 /\ Len(p) = 1 => Units(r) >= Levels + 3
  BY <1>2, <1>6, <1>7
<1> QED BY <1>1, <1>2, <1>3, <1>6, <1>7, <1>8, UnlockReady

\* The trees of a space manager change: at a cost of one unit or two.
LEMMA TreesReady ==
  ASSUME AmpleReserve, IInv, ReadyInv, stack # <<>>, NEW c, Quiet(c),
         NEW before \in {freeLin, freePhys}, NEW x \in Int,
         NEW after, after = before \ {x} \/ after = before \cup {x},
         NEW R, NEW cost \in {1, 2},
         cost = 1 => R = PhysicalTrees(Locked(reserve), before, after),
         cost = 2 => R = LinearTrees(Locked(reserve), before, after),
         leaked = 0 => Need(Top, linked) >= Need(c, linked) + cost,
         leaked = 0 => Need(Top, linked) \in Nat /\ Need(c, linked) \in Nat
  PROVE  /\ R = {} => leaked > 0
         /\ UnderLock(R, <<c>> \o Rest) => Ready(reserve', linked, user, leaked, stack')
<1> DEFINE r == Locked(reserve)
           u == Units(reserve)
           b == u - cost
<1>1. /\ reserve \in Reserves /\ NodesSound(reserve) /\ leaked \in Nat
      /\ (Len(Rest) = 0 /\ Top.by = "user") \/ (Len(Rest) = 1 /\ Within(Top, Rest[1]))
      /\ leaked = 0 /\ Len(Rest) = 1 => u >= Need(Top, linked)
      /\ leaked = 0 /\ Len(Rest) = 0 => u >= MinUnits + 1
  BY ReadyHere
<1>2. before \in SUBSET Int /\ IsFiniteSet(before)
  <2>1. freeLin \subseteq Slots /\ freePhys \subseteq Frames
    BY DEF IInv, Owned, Spaces
  <2>2. Slots \subseteq Int /\ Frames \subseteq Int
    BY NoZero
  <2>3. IsFiniteSet(Slots) /\ IsFiniteSet(Frames)
    BY SlotsAssumption
  <2> QED BY <2>1, <2>2, <2>3, FS_Subset
<1>3. r \in Reserves /\ NodesSound(r) /\ Units(r) = u /\ u \in Nat /\ MinUnits \in Nat /\ Levels \in Nat
  BY <1>1, LockKin, ReserveWith, UnitsCount, ReserveAssumption, TreeAssumption
<1> HIDE DEF r, u
<1>4. R \subseteq KinOf(r) /\ \A k \in Nat : u >= k + cost => R # {} /\ \A s \in R : Units(s) >= k
  <2>1. /\ PhysicalTrees(r, before, after) \subseteq KinOf(r)
        /\ LinearTrees(r, before, after) \subseteq KinOf(r)
        /\ \A k \in Nat : u >= k + 1 =>
              /\ PhysicalTrees(r, before, after) # {}
              /\ \A s \in PhysicalTrees(r, before, after) : Units(s) >= k
        /\ \A k \in Nat : u >= k + 2 =>
              /\ LinearTrees(r, before, after) # {}
              /\ \A s \in LinearTrees(r, before, after) : Units(s) >= k
    BY <1>2, <1>3, TreesAfford
  <2>2. (cost = 1 => R = PhysicalTrees(r, before, after)) /\ (cost = 2 => R = LinearTrees(r, before, after))
    BY DEF r
  <2>3. CASE cost = 1
    BY <2>1, <2>2, <2>3
  <2>4. CASE cost = 2
    BY <2>1, <2>2, <2>4
  <2> QED BY <2>3, <2>4
<1>5. leaked = 0 => /\ b \in Nat /\ u >= b + cost
                    /\ Len(Rest) = 1 => b >= Need(c, linked)
                    /\ Len(Rest) = 0 => b >= Levels + 3
  <2> SUFFICES ASSUME leaked = 0
               PROVE  /\ b \in Nat /\ u >= b + cost
                      /\ Len(Rest) = 1 => b >= Need(c, linked)
                      /\ Len(Rest) = 0 => b >= Levels + 3
    OBVIOUS
  <2> DEFINE n == Need(c, linked)
             m == Need(Top, linked)
  <2>1. m >= n + cost /\ n \in Nat /\ m \in Nat
    OBVIOUS
  <2>2. Len(Rest) = 1 => u >= m
    BY <1>1
  <2>3. MinUnits >= Levels + 4
    BY DEF AmpleReserve
  <2> HIDE DEF n, m
  <2>4. CASE Len(Rest) = 1
    BY <1>3, <2>1, <2>2, <2>4 DEF n
  <2>5. CASE Len(Rest) = 0
    <3>1. u >= MinUnits + 1
      BY <1>1, <2>5
    <3> QED BY <1>3, <2>3, <2>5, <3>1
  <2> QED BY <1>1, <2>4, <2>5
<1>6. leaked = 0 => R # {} /\ \A s \in R : Units(s) >= b
  BY <1>4, <1>5
<1>7. \A s \in R : Units(s) \in Nat
  BY <1>4, UnitsCount DEF KinOf
<1>8. /\ leaked = 0 /\ Len(Rest) = 1 => \A s \in R : Units(s) >= Need(c, linked)
      /\ leaked = 0 /\ Len(Rest) = 0 => \A s \in R : Units(s) >= Levels + 3
  <2> HIDE DEF b
  <2>1. ASSUME leaked = 0, Len(Rest) = 1, NEW s \in R PROVE Units(s) >= Need(c, linked)
    BY <1>5, <1>6, <1>7, <2>1
  <2>2. ASSUME leaked = 0, Len(Rest) = 0, NEW s \in R PROVE Units(s) >= Levels + 3
    BY <1>3, <1>5, <1>6, <1>7, <2>2
  <2> QED BY <2>1, <2>2
<1>9. R = {} => leaked > 0
  BY <1>1, <1>6
<1>10. UnderLock(R, <<c>> \o Rest) => Ready(reserve', linked, user, leaked, stack')
  BY <1>4, <1>8, UnderLockReady DEF r
<1> QED BY <1>9, <1>10

\* The trees of the physical memory change.
LEMMA PhysicalReady ==
  ASSUME AmpleReserve, IInv, ReadyInv, stack # <<>>, NEW c, Quiet(c),
         NEW x \in Int, NEW after, after = freePhys \ {x} \/ after = freePhys \cup {x},
         NEW R, R = PhysicalTrees(Locked(reserve), freePhys, after),
         leaked = 0 => Need(Top, linked) >= Need(c, linked) + 1,
         leaked = 0 => Need(Top, linked) \in Nat /\ Need(c, linked) \in Nat
  PROVE  /\ R = {} => leaked > 0
         /\ UnderLock(R, <<c>> \o Rest) => Ready(reserve', linked, user, leaked, stack')
<1>1. 1 \in {1, 2} /\ freePhys \in {freeLin, freePhys} /\ (1 = 2 => R = LinearTrees(Locked(reserve), freePhys, after))
  OBVIOUS
<1> QED BY <1>1, TreesReady

\* The trees of the linear memory change.
LEMMA LinearReady ==
  ASSUME AmpleReserve, IInv, ReadyInv, stack # <<>>, NEW c, Quiet(c),
         NEW x \in Int, NEW after, after = freeLin \ {x} \/ after = freeLin \cup {x},
         NEW R, R = LinearTrees(Locked(reserve), freeLin, after),
         leaked = 0 => Need(Top, linked) >= Need(c, linked) + 2,
         leaked = 0 => Need(Top, linked) \in Nat /\ Need(c, linked) \in Nat
  PROVE  /\ R = {} => leaked > 0
         /\ UnderLock(R, <<c>> \o Rest) => Ready(reserve', linked, user, leaked, stack')
<1>1. 2 \in {1, 2} /\ freeLin \in {freeLin, freePhys} /\ (2 = 1 => R = PhysicalTrees(Locked(reserve), freeLin, after))
  OBVIOUS
<1> QED BY <1>1, TreesReady

\* The machine stops: nothing else changes.
LEMMA HaltReady ==
  ASSUME ReadyInv, NEW why, Halt(why), why = "dry" => leaked > 0
  PROVE  ReadyInv'
BY DEF Halt, ReadyInv

\* Slots and frames are numbers.
LEMMA Numbers ==
  ASSUME NEW c \in CallSet
  PROVE  c.slot \in Int /\ c.frame \in Int
<1>1. (\A s \in Slots \cup {0} : s \in Int) /\ \A f \in Frames \cup {0} : f \in Int
  BY NoZero
<1> QED BY <1>1 DEF CallSet

\* The call that goes on elsewhere.
LEMMA CallMoves ==
  ASSUME IInv, stack # <<>>, NEW at \in {"phys", "lin", "pagein", "giveBack", "pageout", "return"}
  PROVE  /\ SameCall([Top EXCEPT !.at = at])
         /\ \A f \in Frames \cup {0} : SameCall([Top EXCEPT !.at = at, !.frame = f])
         /\ \A s \in Slots : SameCall([Top EXCEPT !.at = at, !.slot = s])
BY Stacked DEF SameCall, CallSet

\* alloc takes its physical memory.
LEMMA ReadyAllocPhysical == AmpleReserve /\ IInv /\ ReadyInv /\ AllocPhysical => ReadyInv'
<1> SUFFICES ASSUME AmpleReserve, IInv, ReadyInv, AllocPhysical PROVE ReadyInv'
  OBVIOUS
<1> DEFINE f == BestFit(freePhys)
           c == [Top EXCEPT !.at = "lin", !.frame = f]
           R == PhysicalTrees(Locked(reserve), freePhys, freePhys \ {f})
<1>1. At("alloc", "phys") /\ stack # <<>> /\ freePhys # {} /\ machine # "dry"
  BY DEF AllocPhysical, At
<1>2. f \in Frames /\ f \in Int
  <2>1. freePhys \subseteq Frames /\ Frames \subseteq Nat /\ IsFiniteSet(Frames)
    BY NoZero, SlotsAssumption DEF IInv, Owned, Spaces
  <2>2. freePhys \in SUBSET Nat /\ IsFiniteSet(freePhys)
    BY <2>1, FS_Subset
  <2>3. f \in freePhys
    BY <1>1, <2>2, BestFitFree
  <2> HIDE DEF f
  <2> QED BY <2>1, <2>3
<1>3. (R = {} /\ Halt("dry")) \/ (UnderLock(R, <<c>> \o Rest) /\ UNCHANGED <<linked, user, leaked, machine>>)
  BY DEF AllocPhysical
<1> HIDE DEF f
<1>4. Quiet(c) /\ Need(Top, linked) = Levels + 3 /\ Need(c, linked) = Levels + 2
  <2>1. SameCall(c)
    BY <1>1, <1>2, CallMoves
  <2>2. Top.call = "alloc" /\ Top.at = "phys" /\ c.call = "alloc" /\ c.at = "lin"
    <3>1. Top \in CallSet
      BY <1>1, Stacked
    <3> QED BY <1>1, <3>1 DEF At, CallSet
  <2> HIDE DEF c
  <2>3. ~Dead(Top) /\ ~Dead(c) /\ MappedOf(c) = {} /\ c.at # "giveBack"
    BY <2>2 DEF Dead, MappedOf
  <2>4. Need(Top, linked) = Levels + 3 /\ Need(c, linked) = Levels + 2
    BY <2>2 DEF Need
  <2> QED BY <2>1, <2>3, <2>4 DEF Quiet
<1> HIDE DEF c
<1>5. /\ R = {} => leaked > 0
      /\ UnderLock(R, <<c>> \o Rest) => Ready(reserve', linked, user, leaked, stack')
  <2>1. /\ Need(Top, linked) >= Need(c, linked) + 1
        /\ Need(Top, linked) \in Nat /\ Need(c, linked) \in Nat
    BY <1>4, TreeAssumption
  <2> DEFINE after == freePhys \ {f}
  <2>2. R = PhysicalTrees(Locked(reserve), freePhys, after) /\ after = freePhys \ {f}
    OBVIOUS
  <2> HIDE DEF after, R
  <2> QED BY <1>1, <1>2, <1>4, <2>1, <2>2, PhysicalReady
<1> HIDE DEF R
<1> QED BY <1>1, <1>3, <1>5, HaltReady DEF ReadyInv

\* The slots that have a path have a number of tables on it that are missing.
LEMMA MissingFew ==
  ASSUME NEW s \in Slots, NEW links
  PROVE  /\ IsFiniteSet(Path(s) \ links) /\ Cardinality(Path(s) \ links) \in Nat
         /\ Cardinality(Path(s) \ links) <= Levels
<1>1. IsFiniteSet(Path(s)) /\ Cardinality(Path(s)) \in Nat /\ Cardinality(Path(s)) <= Levels
  BY OnPath
<1>2. IsFiniteSet(Path(s) \ links) /\ Cardinality(Path(s) \ links) <= Cardinality(Path(s))
  BY <1>1, FS_Subset
<1>3. Cardinality(Path(s) \ links) \in Nat
  BY <1>2, FS_CardinalityType
<1> QED BY <1>1, <1>2, <1>3, TreeAssumption

\* alloc takes its linear memory.
LEMMA ReadyAllocLinear == ASSUME NEW s \in Slots, AmpleReserve, IInv, ReadyInv, AllocLinear(s) PROVE ReadyInv'
<1> DEFINE c == [Top EXCEPT !.at = "pagein", !.slot = s]
           after == freeLin \ {s}
           R == LinearTrees(Locked(reserve), freeLin, after)
<1>1. At("alloc", "lin") /\ stack # <<>> /\ machine # "dry"
  BY DEF AllocLinear, At
<1>2. s \in Int
  BY NoZero
<1>3. (R = {} /\ Halt("dry")) \/ (UnderLock(R, <<c>> \o Rest) /\ UNCHANGED <<linked, user, leaked, machine>>)
  BY DEF AllocLinear
<1>4. Quiet(c) /\ Need(Top, linked) = Levels + 2 /\ Need(c, linked) = Cardinality(Path(s) \ linked)
  <2>1. SameCall(c)
    BY <1>1, CallMoves
  <2>2. Top.call = "alloc" /\ Top.at = "lin" /\ c.call = "alloc" /\ c.at = "pagein" /\ c.slot = s
    <3>1. Top \in CallSet
      BY <1>1, Stacked
    <3> QED BY <1>1, <3>1 DEF At, CallSet
  <2> HIDE DEF c
  <2>3. ~Dead(Top) /\ ~Dead(c) /\ MappedOf(c) = {} /\ c.at # "giveBack"
    BY <2>2 DEF Dead, MappedOf
  <2>4. Need(Top, linked) = Levels + 2 /\ Need(c, linked) = Cardinality(Path(s) \ linked)
    BY <2>2 DEF Need
  <2> QED BY <2>1, <2>3, <2>4 DEF Quiet
<1> HIDE DEF c
<1>5. /\ R = {} => leaked > 0
      /\ UnderLock(R, <<c>> \o Rest) => Ready(reserve', linked, user, leaked, stack')
  <2>1. /\ Need(Top, linked) >= Need(c, linked) + 2
        /\ Need(Top, linked) \in Nat /\ Need(c, linked) \in Nat
    <3> DEFINE k == Cardinality(Path(s) \ linked)
    <3>1. k \in Nat /\ k <= Levels
      BY MissingFew
    <3>2. Need(c, linked) = k
      BY <1>4
    <3> HIDE DEF k
    <3> QED BY <1>4, <3>1, <3>2, TreeAssumption
  <2>2. R = LinearTrees(Locked(reserve), freeLin, after) /\ after = freeLin \ {s}
    OBVIOUS
  <2> HIDE DEF after, R
  <2> QED BY <1>1, <1>2, <1>4, <2>1, <2>2, LinearReady
<1> HIDE DEF R
<1> QED BY <1>1, <1>3, <1>5, HaltReady DEF ReadyInv

\* alloc gives its frame back: only after a failure.
LEMMA ReadyGiveBack == AmpleReserve /\ IInv /\ ReadyInv /\ GiveBack => ReadyInv'
<1> SUFFICES ASSUME AmpleReserve, IInv, ReadyInv, GiveBack PROVE ReadyInv'
  OBVIOUS
<1> DEFINE x == Top.frame
           c == [Top EXCEPT !.at = "return", !.frame = 0]
           after == freePhys \cup {x}
           R == PhysicalTrees(Locked(reserve), freePhys, after)
<1>1. At("alloc", "giveBack") /\ stack # <<>> /\ machine # "dry"
  BY DEF GiveBack, At
<1>2. /\ Top \in CallSet /\ WellFormed(Top) /\ leaked \in Nat
      /\ leaked = 0 => Top.at # "giveBack"
  BY <1>1, ReadyHere
<1>3. leaked > 0 /\ leaked # 0
  BY <1>1, <1>2 DEF At
<1>4. x \in Int
  BY <1>2, Numbers
<1>5. (R = {} /\ Halt("dry")) \/ (UnderLock(R, <<c>> \o Rest) /\ UNCHANGED <<linked, user, leaked, machine>>)
  BY DEF GiveBack
<1>6. Quiet(c)
  <2>1. SameCall(c)
    BY <1>1, CallMoves
  <2>2. Top.call = "alloc" /\ c.call = "alloc" /\ c.at = "return" /\ c.slot = 0
    BY <1>1, <1>2 DEF At, CallSet, WellFormed
  <2> HIDE DEF c
  <2>3. ~Dead(Top) /\ ~Dead(c) /\ MappedOf(c) = {} /\ c.at # "giveBack"
    BY <2>2 DEF Dead, MappedOf
  <2> QED BY <2>1, <2>3 DEF Quiet
<1> HIDE DEF c, x
<1>7. UnderLock(R, <<c>> \o Rest) => Ready(reserve', linked, user, leaked, stack')
  <2>1. R = PhysicalTrees(Locked(reserve), freePhys, after) /\ after = freePhys \cup {x}
    OBVIOUS
  <2> HIDE DEF after, R
  <2> QED BY <1>1, <1>3, <1>4, <1>6, <2>1, PhysicalReady
<1> HIDE DEF R
<1> QED BY <1>1, <1>3, <1>5, <1>7, HaltReady DEF ReadyInv

\* free gives its physical memory back.
LEMMA ReadyFreePhysical == AmpleReserve /\ IInv /\ ReadyInv /\ FreePhysical => ReadyInv'
<1> SUFFICES ASSUME AmpleReserve, IInv, ReadyInv, FreePhysical PROVE ReadyInv'
  OBVIOUS
<1> DEFINE x == Top.frame
           c == [Top EXCEPT !.at = "lin"]
           after == freePhys \cup {x}
           R == PhysicalTrees(Locked(reserve), freePhys, after)
<1>1. At("free", "phys") /\ stack # <<>> /\ machine # "dry"
  BY DEF FreePhysical, At
<1>2. Top \in CallSet
  BY <1>1, Stacked
<1>3. x \in Int
  BY <1>2, Numbers
<1>4. (R = {} /\ Halt("dry")) \/ (UnderLock(R, <<c>> \o Rest) /\ UNCHANGED <<linked, user, leaked, machine>>)
  BY DEF FreePhysical, GoesOn
<1>5. Quiet(c) /\ Need(Top, linked) = MinUnits + 4 /\ Need(c, linked) = MinUnits + 3
  <2>1. SameCall(c)
    BY <1>1, CallMoves
  <2>2. Top.call = "free" /\ Top.at = "phys" /\ c.call = "free" /\ c.at = "lin"
    BY <1>1, <1>2 DEF At, CallSet
  <2> HIDE DEF c
  <2>3. ~Dead(Top) /\ ~Dead(c) /\ MappedOf(c) = {} /\ c.at # "giveBack"
    BY <2>2 DEF Dead, MappedOf
  <2>4. Need(Top, linked) = MinUnits + 4 /\ Need(c, linked) = MinUnits + 3
    BY <2>2 DEF Need
  <2> QED BY <2>1, <2>3, <2>4 DEF Quiet
<1> HIDE DEF c, x
<1>6. /\ R = {} => leaked > 0
      /\ UnderLock(R, <<c>> \o Rest) => Ready(reserve', linked, user, leaked, stack')
  <2>1. /\ Need(Top, linked) >= Need(c, linked) + 1
        /\ Need(Top, linked) \in Nat /\ Need(c, linked) \in Nat
    BY <1>5, ReserveAssumption
  <2>2. R = PhysicalTrees(Locked(reserve), freePhys, after) /\ after = freePhys \cup {x}
    OBVIOUS
  <2> HIDE DEF after, R
  <2> QED BY <1>1, <1>3, <1>5, <2>1, <2>2, PhysicalReady
<1> HIDE DEF R
<1> QED BY <1>1, <1>4, <1>6, HaltReady DEF ReadyInv

\* free gives its linear memory back.
LEMMA ReadyFreeLinear == AmpleReserve /\ IInv /\ ReadyInv /\ FreeLinear => ReadyInv'
<1> SUFFICES ASSUME AmpleReserve, IInv, ReadyInv, FreeLinear PROVE ReadyInv'
  OBVIOUS
<1> DEFINE x == Top.slot
           c == [Top EXCEPT !.at = "return"]
           after == freeLin \cup {x}
           R == LinearTrees(Locked(reserve), freeLin, after)
<1>1. At("free", "lin") /\ stack # <<>> /\ machine # "dry"
  BY DEF FreeLinear, At
<1>2. Top \in CallSet
  BY <1>1, Stacked
<1>3. x \in Int
  BY <1>2, Numbers
<1>4. (R = {} /\ Halt("dry")) \/ (UnderLock(R, <<c>> \o Rest) /\ UNCHANGED <<linked, user, leaked, machine>>)
  BY DEF FreeLinear, GoesOn
<1>5. Quiet(c) /\ Need(Top, linked) = MinUnits + 3 /\ Need(c, linked) = MinUnits + 1
  <2>1. SameCall(c)
    BY <1>1, CallMoves
  <2>2. Top.call = "free" /\ Top.at = "lin" /\ c.call = "free" /\ c.at = "return"
    BY <1>1, <1>2 DEF At, CallSet
  <2> HIDE DEF c
  <2>3. ~Dead(Top) /\ ~Dead(c) /\ MappedOf(c) = {} /\ c.at # "giveBack"
    BY <2>2 DEF Dead, MappedOf
  <2>4. Need(Top, linked) = MinUnits + 3 /\ Need(c, linked) = MinUnits + 1
    BY <2>2 DEF Need
  <2> QED BY <2>1, <2>3, <2>4 DEF Quiet
<1> HIDE DEF c, x
<1>6. /\ R = {} => leaked > 0
      /\ UnderLock(R, <<c>> \o Rest) => Ready(reserve', linked, user, leaked, stack')
  <2>1. /\ Need(Top, linked) >= Need(c, linked) + 2
        /\ Need(Top, linked) \in Nat /\ Need(c, linked) \in Nat
    BY <1>5, ReserveAssumption
  <2>2. R = LinearTrees(Locked(reserve), freeLin, after) /\ after = freeLin \cup {x}
    OBVIOUS
  <2> HIDE DEF after, R
  <2> QED BY <1>1, <1>3, <1>5, <2>1, <2>2, LinearReady
<1> HIDE DEF R
<1> QED BY <1>1, <1>4, <1>6, HaltReady DEF ReadyInv

\* The call goes on, and the reserve is what the step made of it.
LEMMA SettleGoesOn ==
  ASSUME IInv, ReadyInv, stack # <<>>, NEW c, SameCall(c),
         NEW r \in Reserves, NodesSound(r), NEW links, HomesSound(r, links), NEW users,
         TreeSound(r.home, links, DeadOf(c) \cup DeadTables(Rest),
                   users \cup r.chunks \cup (Mapped(Rest) \cup MappedOf(c))),
         NEW leaks \in Nat, r.lockCnt = leaks + Len(Rest),
         leaks = 0 => c.at # "giveBack" /\ NoGiveBack(Rest),
         leaks = 0 /\ Len(Rest) = 1 => Units(r) >= Need(c, links),
         leaks = 0 /\ Len(Rest) = 0 => Units(r) >= MinUnits + 1
  PROVE  Ready(r, links, users, leaks, <<c>> \o Rest)
<1> DEFINE p == <<c>> \o Rest
<1>1. /\ Sound(r, links, users, p) /\ Inner(p) = Len(Rest) /\ Len(Rest) \in {0, 1}
      /\ NoGiveBack(p) <=> c.at # "giveBack" /\ NoGiveBack(Rest)
      /\ \A s, l : Len(Rest) = 1 => (Enough(s, l, p) <=> Units(s) >= Need(c, l))
      /\ \A s, l : Len(Rest) = 0 => (Enough(s, l, p) <=> Units(s) >= MinUnits + 1)
  BY GoesOnSound
<1> HIDE DEF p
<1>2. leaks = 0 => NoGiveBack(p) /\ Enough(r, links, p)
  BY <1>1
<1>3. r.lockCnt = leaks + Inner(p)
  BY <1>1
<1>4. Ready(r, links, users, leaks, p)
  BY <1>1, <1>2, <1>3 DEF Ready
<1> QED BY <1>4 DEF p

\* A call of a space manager fails and leaves the lock taken.
LEMMA LeakReady ==
  ASSUME IInv, ReadyInv, stack # <<>>, NEW c, SameCall(c), ~Dead(Top), ~Dead(c),
         MappedOf(c) \subseteq MappedOf(Top)
  PROVE  Ready(Locked(reserve), linked, user, leaked + 1, <<c>> \o Rest)
<1>1. /\ reserve \in Reserves /\ NodesSound(reserve) /\ HomesSound(reserve, linked)
      /\ TreeSound(reserve.home, linked, DeadOf(Top) \cup DeadTables(Rest),
                   user \cup reserve.chunks \cup (Mapped(Rest) \cup MappedOf(Top)))
      /\ leaked \in Nat /\ reserve.lockCnt = leaked + Len(Rest) /\ Len(Rest) \in Nat
  BY ReadyHere
<1> DEFINE r == Locked(reserve)
<1>2. /\ r \in Reserves /\ NodesSound(r) /\ HomesSound(r, linked) /\ r.home = reserve.home /\ r.chunks = reserve.chunks
      /\ r.lockCnt = reserve.lockCnt + 1
  BY <1>1, LockKin, ReserveWith
<1> HIDE DEF r
<1>3. TreeSound(r.home, linked, DeadOf(c) \cup DeadTables(Rest),
                user \cup r.chunks \cup (Mapped(Rest) \cup MappedOf(c)))
  <2>1. DeadOf(c) = DeadOf(Top)
    BY DEF DeadOf
  <2> QED BY <1>1, <1>2, <2>1 DEF TreeSound
<1> DEFINE leaks == leaked + 1
<1>4. leaks \in Nat /\ leaks # 0 /\ r.lockCnt = leaks + Len(Rest)
  BY <1>1, <1>2
<1> HIDE DEF leaks
<1>5. Ready(r, linked, user, leaks, <<c>> \o Rest)
  BY <1>2, <1>3, <1>4, SettleGoesOn
<1> QED BY <1>5 DEF r, leaks

\* The caller asked for more physical memory than there is, or the reserve did.
LEMMA ReadyAllocNoPhysical == IInv /\ ReadyInv /\ AllocNoPhysical => ReadyInv'
<1> SUFFICES ASSUME IInv, ReadyInv, AllocNoPhysical PROVE ReadyInv'
  OBVIOUS
<1> DEFINE c == [Top EXCEPT !.at = "return"]
<1>1. /\ At("alloc", "phys") /\ stack # <<>> /\ machine # "dry"
      /\ leaked' = leaked + 1 /\ reserve' = Locked(reserve) /\ stack' = <<c>> \o Rest
      /\ UNCHANGED <<linked, user, machine>>
  BY DEF AllocNoPhysical, At, Settle, GoesOn
<1>2. SameCall(c)
  BY <1>1, CallMoves
<1>3. Top.call = "alloc" /\ Top.at = "phys" /\ c.call = "alloc" /\ c.at = "return" /\ c.slot = 0
  <2>1. Top \in CallSet /\ WellFormed(Top)
    BY <1>1, Stacked
  <2> QED BY <1>1, <2>1 DEF At, CallSet, WellFormed
<1> HIDE DEF c
<1>4. ~Dead(Top) /\ ~Dead(c) /\ MappedOf(c) = {}
  BY <1>3 DEF Dead, MappedOf
<1>5. Ready(Locked(reserve), linked, user, leaked + 1, <<c>> \o Rest)
  BY <1>1, <1>2, <1>4, LeakReady
<1> QED BY <1>1, <1>5 DEF ReadyInv

\* There is no linear memory.
LEMMA ReadyAllocNoLinear == IInv /\ ReadyInv /\ AllocNoLinear => ReadyInv'
<1> SUFFICES ASSUME IInv, ReadyInv, AllocNoLinear PROVE ReadyInv'
  OBVIOUS
<1> DEFINE c == [Top EXCEPT !.at = "giveBack"]
<1>1. /\ At("alloc", "lin") /\ stack # <<>> /\ machine # "dry"
      /\ leaked' = leaked + 1 /\ reserve' = Locked(reserve) /\ stack' = <<c>> \o Rest
      /\ UNCHANGED <<linked, user, machine>>
  BY DEF AllocNoLinear, At, Settle, GoesOn
<1>2. SameCall(c)
  BY <1>1, CallMoves
<1>3. Top.call = "alloc" /\ Top.at = "lin" /\ c.call = "alloc" /\ c.at = "giveBack"
  <2>1. Top \in CallSet
    BY <1>1, Stacked
  <2> QED BY <1>1, <2>1 DEF At, CallSet
<1> HIDE DEF c
<1>4. ~Dead(Top) /\ ~Dead(c) /\ MappedOf(c) = {}
  BY <1>3 DEF Dead, MappedOf
<1>5. Ready(Locked(reserve), linked, user, leaked + 1, <<c>> \o Rest)
  BY <1>1, <1>2, <1>4, LeakReady
<1> QED BY <1>1, <1>5 DEF ReadyInv

\* Nothing is allocated while a pageout has freed a table and not unlinked it.
LEMMA NoneDead ==
  ASSUME IInv, ReadyInv, stack # <<>>, Top.call = "alloc"
  PROVE  DeadOf(Top) = {} /\ DeadTables(Rest) = {}
<1>1. (Len(Rest) = 0 /\ Top.by = "user") \/ (Len(Rest) = 1 /\ Within(Top, Rest[1]))
  BY ReadyHere
<1>2. Rest \in Seq(CallSet)
  BY Stacked
<1>3. DeadOf(Top) = {}
  BY DEF DeadOf, Dead
<1>4. CASE Len(Rest) = 0
  <2>1. DOMAIN Rest = {}
    BY <1>2, <1>4
  <2> QED BY <1>3, <2>1 DEF DeadTables
<1>5. CASE Len(Rest) = 1
  <2>1. DOMAIN Rest = {1}
    BY <1>2, <1>5
  <2>2. ~Dead(Rest[1])
    BY <1>1, <1>5 DEF Within
  <2>3. DeadOf(Rest[1]) = {}
    BY <2>2 DEF DeadOf
  <2> QED BY <1>3, <2>1, <2>3 DEF DeadTables
<1> QED BY <1>1, <1>4, <1>5

\* The page is mapped: all the tables on the way to it are there.
LEMMA ReadyPageinPage == IInv /\ ReadyInv /\ PageinPage => ReadyInv'
<1> SUFFICES ASSUME IInv, ReadyInv, PageinPage PROVE ReadyInv'
  OBVIOUS
<1> DEFINE c == [Top EXCEPT !.at = "return"]
<1>1. /\ At("alloc", "pagein") /\ stack # <<>> /\ machine # "dry"
      /\ Path(Top.slot) \subseteq linked
      /\ reserve' = reserve /\ stack' = <<c>> \o Rest
      /\ UNCHANGED <<linked, user, leaked, machine>>
  BY DEF PageinPage, At, Settle, GoesOn, Missing
<1>2. /\ Rest \in Seq(CallSet) /\ Top \in CallSet
      /\ reserve \in Reserves /\ NodesSound(reserve) /\ HomesSound(reserve, linked)
      /\ TreeSound(reserve.home, linked, DeadOf(Top) \cup DeadTables(Rest),
                   user \cup reserve.chunks \cup (Mapped(Rest) \cup MappedOf(Top)))
      /\ leaked \in Nat /\ reserve.lockCnt = leaked + Len(Rest)
      /\ leaked = 0 => NoGiveBack(Rest)
      /\ leaked = 0 /\ Len(Rest) = 0 => Units(reserve) >= MinUnits + 1
  BY <1>1, ReadyHere
<1>3. SameCall(c)
  BY <1>1, CallMoves
<1>4. Top.call = "alloc" /\ c.call = "alloc" /\ c.at = "return" /\ c.slot = Top.slot
  BY <1>1, <1>2 DEF At, CallSet
<1>5. DeadOf(Top) = {} /\ DeadTables(Rest) = {}
  BY <1>1, <1>4, NoneDead
<1> HIDE DEF c
<1>6. DeadOf(c) = {} /\ MappedOf(c) \subseteq {Top.slot} /\ Need(c, linked) = 0 /\ c.at # "giveBack"
  BY <1>4 DEF DeadOf, Dead, MappedOf, Need
<1>7. TreeSound(reserve.home, linked, DeadOf(c) \cup DeadTables(Rest),
                user \cup reserve.chunks \cup (Mapped(Rest) \cup MappedOf(c)))
  BY <1>1, <1>2, <1>5, <1>6 DEF TreeSound
<1>8. Units(reserve) >= Need(c, linked)
  BY <1>2, <1>6, UnitsCount
<1>9. Ready(reserve, linked, user, leaked, <<c>> \o Rest)
  BY <1>1, <1>2, <1>3, <1>6, <1>7, <1>8, SettleGoesOn
<1> QED BY <1>1, <1>9 DEF ReadyInv

\* What the depth says of the calls outside.
LEMMA PlusOne ==
  ASSUME NEW k, NEW n \in Nat, k = n + 1
  PROVE  (k = 2 => n = 1) /\ (k = 1 => n = 0)
OBVIOUS

\* A table that is missing is allocated and linked: one less is missing.
LEMMA ReadyPageinTable == AmpleReserve /\ IInv /\ ReadyInv /\ PageinTable => ReadyInv'
<1> SUFFICES ASSUME AmpleReserve, IInv, ReadyInv, PageinTable PROVE ReadyInv'
  OBVIOUS
<1>1. At("alloc", "pagein") /\ stack # <<>> /\ machine # "dry"
  BY DEF PageinTable, At
<1>2. PICK t \in Missing(Top.slot) :
        LET R == {[Locked(reserve) EXCEPT !.home[t] = c] : c \in Sources(reserve)}
        IN  \/ R = {} /\ Halt("dry")
            \/ linked' = linked \cup {t} /\ UnderLock(R, stack) /\ UNCHANGED <<user, leaked, machine>>
  BY DEF PageinTable
<1>3. /\ stack = <<Top>> \o Rest /\ Rest \in Seq(CallSet) /\ Top \in CallSet /\ WellFormed(Top)
      /\ reserve \in Reserves /\ NodesSound(reserve) /\ HomesSound(reserve, linked)
      /\ TreeSound(reserve.home, linked, DeadOf(Top) \cup DeadTables(Rest),
                   user \cup reserve.chunks \cup (Mapped(Rest) \cup MappedOf(Top)))
      /\ leaked \in Nat /\ reserve.lockCnt = leaked + Len(Rest)
      /\ leaked = 0 => Top.at # "giveBack" /\ NoGiveBack(Rest)
      /\ leaked = 0 /\ Len(Rest) = 1 => Units(reserve) >= Need(Top, linked)
      /\ leaked = 0 /\ Len(Rest) = 0 => Units(reserve) >= MinUnits + 1
      /\ (Len(Rest) = 0 /\ Top.by = "user") \/ (Len(Rest) = 1 /\ Within(Top, Rest[1]))
  BY <1>1, ReadyHere
<1> DEFINE slot == Top.slot
           k == Cardinality(Path(slot) \ linked)
           links == linked \cup {t}
<1>4. /\ Top.call = "alloc" /\ Top.at = "pagein" /\ slot \in Slots /\ ~Dead(Top)
      /\ Need(Top, linked) = k /\ Need(Top, links) = Cardinality(Path(slot) \ links)
      /\ SameCall(Top)
  <2>1. Top.call = "alloc" /\ Top.at = "pagein"
    BY <1>1 DEF At
  <2>2. slot \in Slots
    BY <1>3, <2>1 DEF WellFormed, CallSet
  <2> QED BY <1>3, <2>1, <2>2 DEF Dead, Need, SameCall
<1>5. t \in Path(slot) /\ t \notin linked /\ t \in Tables
  BY <1>2, <1>4, OnPath DEF Missing
<1>6. k \in Nat /\ k >= 1 /\ Cardinality(Path(slot) \ links) = k - 1
  <2>1. IsFiniteSet(Path(slot) \ linked)
    BY <1>4, MissingFew
  <2>2. t \in Path(slot) \ linked /\ (Path(slot) \ linked) \ {t} = Path(slot) \ links
    BY <1>5
  <2> DEFINE M == Path(slot) \ linked
  <2>3. Cardinality(M \ {t}) = Cardinality(M) - 1 /\ Cardinality(M) \in Nat /\ Cardinality(M \ {t}) \in Nat
    <3> HIDE DEF M
    <3>1. IsFiniteSet(M) /\ t \in M
      BY <2>1, <2>2 DEF M
    <3> QED BY <3>1, FS_RemoveElement, FS_CardinalityType
  <2> QED BY <2>2, <2>3
<1>7. DeadOf(Top) = {} /\ DeadTables(Rest) = {}
  BY <1>1, <1>4, NoneDead
<1>8. reserve.home[t] = 0
  BY <1>3, <1>5 DEF HomesSound
<1>9. Units(reserve) \in Nat /\ MinUnits \in Nat /\ Levels \in Nat /\ MinUnits >= Levels + 4
  BY <1>3, UnitsCount, ReserveAssumption, TreeAssumption DEF AmpleReserve
<1> HIDE DEF k, links, slot
<1>10. leaked = 0 => Units(reserve) >= 1
  BY <1>3, <1>4, <1>6, <1>9
<1>11. ASSUME NEW r, NEW x \in Sources(reserve), r = [Locked(reserve) EXCEPT !.home[t] = x]
       PROVE  /\ Sound(r, links, user, stack) /\ Units(r) >= Units(reserve) - 1 /\ Units(r) \in Nat
              /\ r.lockCnt = reserve.lockCnt + 1
  <2>1. x \in reserve.chunks /\ x \in Slots /\ x # 0
    <3>1. x \in reserve.chunks
      BY <1>11 DEF Sources, Empty
    <3> QED BY <1>3, <3>1, NoZero DEF Reserves
  <2> DEFINE q == Locked(reserve)
  <2>2. /\ q \in Reserves /\ NodesSound(q) /\ Units(q) = Units(reserve) /\ q.home = reserve.home
        /\ q.chunks = reserve.chunks /\ q.lockCnt = reserve.lockCnt + 1
    BY <1>3, LockKin, ReserveWith
  <2> HIDE DEF q
  <2>3. /\ r \in Reserves /\ r.chunks = q.chunks /\ r.nodeUnits = q.nodeUnits /\ r.nodes = q.nodes
        /\ r.lockCnt = q.lockCnt /\ r.home = [q.home EXCEPT ![t] = x]
    <3>1. r = [q EXCEPT !.home[t] = x]
      BY <1>11 DEF q
    <3>2. r \in Reserves
      BY <2>1, <2>2, <3>1, HomeWith
    <3> QED BY <2>2, <3>1, <3>2 DEF Reserves
  <2>4. NodesSound(r)
    BY <2>2, <2>3 DEF NodesSound
  <2>5. q.home \in [Tables -> Slots \cup {0}] /\ \A u \in Tables : r.home[u] = IF u = t THEN x ELSE q.home[u]
    BY <2>2, <2>3 DEF Reserves
  <2>6. HomesSound(r, links)
    BY <1>3, <2>1, <2>2, <2>3, <2>5 DEF HomesSound, links
  <2>7. TreeSound(r.home, links, DeadOf(Top) \cup DeadTables(Rest),
                  user \cup r.chunks \cup (Mapped(Rest) \cup MappedOf(Top)))
    <3>1. links \subseteq Tables
      BY <1>3, <1>5 DEF TreeSound, links
    <3>2. \A u \in links : r.home[u] # 0
      BY <1>3, <1>5, <1>7, <2>1, <2>2, <2>5 DEF TreeSound, links
    <3>3. \A s \in user \cup r.chunks \cup (Mapped(Rest) \cup MappedOf(Top)) : s = 1 \/ Path(s) \subseteq links
      BY <1>3, <2>2, <2>3 DEF TreeSound, links
    <3> QED BY <1>7, <3>1, <3>2, <3>3 DEF TreeSound
  <2>8. Sound(r, links, user, stack)
    <3>1. Sound(r, links, user, <<Top>> \o Rest)
      BY <1>1, <1>4, <2>3, <2>4, <2>6, <2>7, GoesOnSound
    <3> QED BY <1>3, <3>1
  <2>9. Units(r) >= Units(q) - 1
    <3> DEFINE At0(y) == {u \in Tables : q.home[u] = y}
               At1(y) == {u \in Tables : r.home[u] = y}
    <3>1. \A y \in Slots : /\ IsFiniteSet(At0(y)) /\ IsFiniteSet(At1(y))
                          /\ Cardinality(At0(y)) \in Nat /\ Cardinality(At1(y)) \in Nat
      BY TablesFinite, FS_Subset, FS_CardinalityType
    <3>2. ASSUME NEW y \in Slots
          PROVE  Cardinality(At1(y)) <= IF y = x THEN Cardinality(At0(y)) + 1 ELSE Cardinality(At0(y))
      <4>1. At1(y) \subseteq IF y = x THEN At0(y) \cup {t} ELSE At0(y)
        BY <2>5
      <4>2. IsFiniteSet(At0(y)) /\ Cardinality(At0(y)) \in Nat /\ Cardinality(At1(y)) \in Nat
        BY <3>1
      <4> HIDE DEF At0, At1
      <4>3. IsFiniteSet(At0(y) \cup {t}) /\ Cardinality(At0(y) \cup {t}) \in {Cardinality(At0(y)), Cardinality(At0(y)) + 1}
        BY <4>2, FS_AddElement
      <4>4. CASE y = x
        <5>1. At1(y) \subseteq At0(y) \cup {t}
          BY <4>1, <4>4
        <5>2. Cardinality(At1(y)) <= Cardinality(At0(y) \cup {t})
          BY <4>3, <5>1, FS_Subset
        <5> QED BY <4>2, <4>3, <4>4, <5>2
      <4>5. CASE y # x
        <5>1. At1(y) \subseteq At0(y)
          BY <4>1, <4>5
        <5>2. Cardinality(At1(y)) <= Cardinality(At0(y))
          BY <4>2, <5>1, FS_Subset
        <5> QED BY <4>5, <5>2
      <4> QED BY <4>4, <4>5
    <3>3. ASSUME NEW y \in Slots
          PROVE  Hosted(r, y) <= IF y = x THEN Hosted(q, y) + 1 ELSE Hosted(q, y)
      <4> DEFINE a == q.nodeUnits["avl"][y]
                 b == q.nodeUnits["aslr"][y]
      <4>1. Hosted(q, y) = Cardinality(At0(y)) + a + b
        BY DEF Hosted
      <4>2. Hosted(r, y) = Cardinality(At1(y)) + a + b
        BY <2>3 DEF Hosted
      <4>3. a \in Nat /\ b \in Nat
        BY <2>2 DEF NodesSound, Heaps
      <4>4. Cardinality(At0(y)) \in Nat /\ Cardinality(At1(y)) \in Nat
        BY <3>1
      <4> HIDE DEF a, b, At0, At1
      <4> QED BY <3>2, <4>1, <4>2, <4>3, <4>4
    <3>4. \A y \in q.chunks : y \in Slots
      BY <2>2 DEF Reserves
    <3>5. Hosted(r, x) <= Hosted(q, x) + 1 /\ \A y \in q.chunks : y # x => Hosted(r, y) <= Hosted(q, y)
      BY <2>1, <3>3, <3>4
    <3> QED BY <2>1, <2>2, <2>3, <2>4, <3>5, UnitsOneLess
  <2>10. Units(r) \in Nat
    BY <2>3, UnitsCount
  <2> QED BY <2>2, <2>3, <2>8, <2>9, <2>10
<1> DEFINE R == {[Locked(reserve) EXCEPT !.home[t] = c] : c \in Sources(reserve)}
<1>12. R = {} => leaked > 0
  <2>1. R = {} => Sources(reserve) = {}
    OBVIOUS
  <2>2. Units(reserve) >= 1 => Sources(reserve) # {}
    BY <1>3, UnitsGive
  <2> HIDE DEF R
  <2>3. leaked \in Nat
    BY <1>3
  <2> QED BY <1>10, <2>1, <2>2, <2>3
<1>13. CASE R = {} /\ Halt("dry")
  BY <1>12, <1>13, HaltReady
<1>14. CASE linked' = links /\ UnderLock(R, stack) /\ UNCHANGED <<user, leaked, machine>>
  <2>1. PICK r \in R : Unlock(r, stack)
    BY <1>14 DEF UnderLock
  <2>2. PICK x \in Sources(reserve) : r = [Locked(reserve) EXCEPT !.home[t] = x]
    OBVIOUS
  <2>3. /\ Sound(r, links, user, stack) /\ Units(r) >= Units(reserve) - 1 /\ Units(r) \in Nat
        /\ r.lockCnt = reserve.lockCnt + 1
    BY <1>11, <2>2
  <2> HIDE DEF R
  <2>4. /\ Inner(stack) = Len(Rest) /\ stack[1] = Top /\ stack \in Seq(CallSet) /\ Len(stack) = Len(Rest) + 1
        /\ Len(Rest) \in Nat
        /\ NoGiveBack(stack) <=> Top.at # "giveBack" /\ NoGiveBack(Rest)
    <3>1. stack[1] = Top /\ stack \in Seq(CallSet) /\ Len(stack) = Len(Rest) + 1 /\ Len(Rest) \in Nat
      BY <1>3, Shape
    <3>4. NoGiveBack(stack) <=> Top.at # "giveBack" /\ NoGiveBack(Rest)
      BY <1>3, Shape
    <3>2. Len(stack) = Len(Rest) + 1
      BY <3>1
    <3>3. (Len(Rest) = 0 => Inner(stack) = 0) /\ (Len(Rest) = 1 => Inner(stack) = 1)
      BY <3>2, Depth, Zenon
    <3> QED BY <1>3, <3>1, <3>3, <3>4
  <2>11. (Len(stack) = 2 => Len(Rest) = 1) /\ (Len(stack) = 1 => Len(Rest) = 0)
    BY <2>4, PlusOne, Zenon
  <2>5. r.lockCnt = leaked + Inner(stack) + 1
    BY <1>3, <2>3, <2>4, ZenonT(40)
  <2>6. leaked = 0 => NoGiveBack(stack)
    BY <1>3, <2>4
  <2>7. leaked = 0 /\ Len(stack) = 2 => Enough(r, links, stack)
    <3>1. Len(Rest) = 1 => (Enough(r, links, stack) <=> Units(r) >= Need(Top, links))
      BY <1>3, Shape, ZenonT(40)
    <3>2. leaked = 0 /\ Len(Rest) = 1 => Units(r) >= k - 1
      BY <1>3, <1>4, <1>6, <1>9, <2>3
    <3>3. Need(Top, links) = k - 1
      BY <1>4, <1>6
    <3> QED BY <2>11, <3>1, <3>2, <3>3
  <2>8. leaked = 0 /\ Len(stack) = 1 => Units(r) >= Levels + 3
    <3>1. leaked = 0 /\ Len(Rest) = 0 => Units(r) >= Levels + 3
      BY <1>3, <1>9, <2>3
    <3> QED BY <2>11, <3>1
  <2>9. ~Dead(stack[1])
    BY <1>4, <2>4
  <2>10. Ready(reserve', links, user, leaked, stack')
    BY <1>1, <1>3, <2>1, <2>3, <2>4, <2>5, <2>6, <2>7, <2>8, <2>9, UnlockReady
  <2> QED BY <1>1, <1>14, <2>10 DEF ReadyInv
<1> QED BY <1>2, <1>13, <1>14 DEF links

\* The call returns to the one it is nested in, or to the kernel.
LEMMA PopReady ==
  ASSUME IInv, ReadyInv, stack # <<>>,
         NEW r \in Reserves, NodesSound(r), NEW links, HomesSound(r, links), NEW users,
         TreeSound(r.home, links, DeadTables(Rest), users \cup r.chunks \cup Mapped(Rest))
  PROVE  /\ Sound(r, links, users, Rest)
         /\ r.lockCnt = leaked /\ (leaked = 0 => Units(r) >= MinUnits + 1) => Ready(r, links, users, leaked, Rest)
<1> DEFINE outer == Rest
<1>1. /\ (Len(outer) = 0 /\ Top.by = "user") \/ (Len(outer) = 1 /\ Within(Top, outer[1]))
      /\ outer \in Seq(CallSet) /\ leaked \in Nat
      /\ leaked = 0 => NoGiveBack(outer)
  BY ReadyHere
<1> HIDE DEF outer
<1>2. Nesting(outer)
  BY <1>1 DEF Nesting, Within
<1>3. Len(outer) # 2
  <2> DEFINE n == Len(outer)
  <2>1. n = 0 \/ n = 1
    BY <1>1
  <2> HIDE DEF n
  <2>2. n # 2
    BY <2>1
  <2> QED BY <2>2 DEF n
<1>4. Inner(outer) = 0 /\ (Enough(r, links, outer) <=> Units(r) >= MinUnits + 1)
  BY <1>3 DEF Inner, Enough
<1>5. Sound(r, links, users, outer)
  BY <1>2 DEF Sound, outer
<1>6. r.lockCnt = leaked => r.lockCnt = leaked + Inner(outer)
  BY <1>1, <1>4
<1>7. ASSUME r.lockCnt = leaked, leaked = 0 => Units(r) >= MinUnits + 1
      PROVE  Ready(r, links, users, leaked, outer)
  BY <1>1, <1>4, <1>5, <1>6, <1>7 DEF Ready
<1> QED BY <1>5, <1>7 DEF outer

\* A slot that is not a chunk hosts nothing, and does not when it becomes one.
LEMMA ChunkEmbraced ==
  ASSUME NEW q \in Reserves, NodesSound(q), NEW links, HomesSound(q, links), NEW x \in Slots, x \notin q.chunks,
         NEW r, r = Unlocked([q EXCEPT !.chunks = @ \cup {x}])
  PROVE  /\ r \in Reserves /\ NodesSound(r) /\ HomesSound(r, links) /\ r.home = q.home
         /\ r.chunks = q.chunks \cup {x} /\ r.lockCnt = q.lockCnt - 1 /\ Units(r) >= MinUnits + 1
<1>1. /\ r \in Reserves /\ r.home = q.home /\ r.nodeUnits = q.nodeUnits /\ r.nodes = q.nodes
      /\ r.chunks = q.chunks \cup {x} /\ r.lockCnt = q.lockCnt - 1
  <2> DEFINE e == [q EXCEPT !.chunks = @ \cup {x}]
  <2>1. /\ e \in Reserves /\ e.home = q.home /\ e.nodeUnits = q.nodeUnits /\ e.nodes = q.nodes
        /\ e.chunks = q.chunks \cup {x} /\ e.lockCnt = q.lockCnt
    BY DEF Reserves
  <2> HIDE DEF e
  <2>2. r = Unlocked(e)
    BY DEF e
  <2> QED BY <2>1, <2>2 DEF Unlocked, Reserves
<1>2. NodesSound(r)
  BY <1>1 DEF NodesSound
<1>3. HomesSound(r, links)
  BY <1>1 DEF HomesSound
<1>4. Hosted(q, x) = 0
  <2>1. \A t \in Tables : q.home[t] # x
    <3>1. x # 0
      BY NoZero
    <3> QED BY <3>1 DEF HomesSound
  <2>2. \A h \in Heaps : q.nodeUnits[h][x] = 0
    BY DEF NodesSound
  <2> QED BY <2>1, <2>2, HostsNothing
<1>5. Hosted(r, x) = 0
  BY <1>1, <1>4 DEF Hosted
<1>6. Units(r) >= ELength /\ Units(r) \in Nat
  BY <1>1, <1>5, UnitsEmbraced, UnitsCount
<1>7. Units(r) >= MinUnits + 1
  BY <1>6, ReserveAssumption
<1> QED BY <1>1, <1>2, <1>3, <1>7

\* alloc answers: the caller has its slot, or the reserve embraces it.
LEMMA ReadyAllocReturns == IInv /\ ReadyInv /\ AllocReturns => ReadyInv'
<1> SUFFICES ASSUME IInv, ReadyInv, AllocReturns PROVE ReadyInv'
  OBVIOUS
<1>1. At("alloc", "return") /\ stack # <<>> /\ machine # "dry"
  BY DEF AllocReturns, At
<1>2. /\ Rest \in Seq(CallSet) /\ Top \in CallSet /\ WellFormed(Top)
      /\ reserve \in Reserves /\ NodesSound(reserve) /\ HomesSound(reserve, linked)
      /\ TreeSound(reserve.home, linked, DeadOf(Top) \cup DeadTables(Rest),
                   user \cup reserve.chunks \cup (Mapped(Rest) \cup MappedOf(Top)))
      /\ leaked \in Nat /\ reserve.lockCnt = leaked + Len(Rest)
      /\ leaked = 0 /\ Len(Rest) = 0 => Units(reserve) >= MinUnits + 1
      /\ (Len(Rest) = 0 /\ Top.by = "user") \/ (Len(Rest) = 1 /\ Within(Top, Rest[1]))
  BY <1>1, ReadyHere
<1>3. Top.call = "alloc" /\ Top.at = "return"
  BY <1>1 DEF At
<1>4. DeadOf(Top) = {} /\ DeadTables(Rest) = {}
  BY <1>1, <1>3, NoneDead
<1>5. Top.frame # 0 => MappedOf(Top) = {Top.slot} /\ SlotOf(Top) = {Top.slot} /\ Top.slot \in Slots
  BY <1>2, <1>3 DEF WellFormed, CallSet, MappedOf, SlotOf
<1>6. CASE /\ Top.by = "user"
           /\ user' = IF Top.frame = 0 THEN user ELSE user \cup {Top.slot}
           /\ Settle(reserve, Rest)
           /\ UNCHANGED <<freeLin, freePhys, map, linked, leaked, machine>>
  <2>1. Len(Rest) = 0
    BY <1>2, <1>6 DEF Within
  <2>2. \A s \in user' \cup reserve.chunks \cup Mapped(Rest) :
          s \in user \cup reserve.chunks \cup (Mapped(Rest) \cup MappedOf(Top))
    BY <1>5, <1>6
  <2>3. TreeSound(reserve.home, linked, DeadTables(Rest), user' \cup reserve.chunks \cup Mapped(Rest))
    <3> DEFINE live == user' \cup reserve.chunks \cup Mapped(Rest)
               older == user \cup reserve.chunks \cup (Mapped(Rest) \cup MappedOf(Top))
    <3>1. live \subseteq older
      BY <2>2
    <3>2. TreeSound(reserve.home, linked, DeadTables(Rest), older)
      BY <1>2, <1>4
    <3> HIDE DEF live, older
    <3>3. TreeSound(reserve.home, linked, DeadTables(Rest), live)
      BY <3>1, <3>2 DEF TreeSound
    <3> QED BY <3>3 DEF live
  <2>4. reserve.lockCnt = leaked
    BY <1>2, <2>1
  <2>5. Ready(reserve, linked, user', leaked, Rest)
    BY <1>1, <1>2, <2>1, <2>3, <2>4, PopReady
  <2> QED BY <1>1, <1>6, <2>5 DEF ReadyInv, Settle
<1>7. CASE /\ Top.by = "renew" /\ Top.frame # 0
           /\ Settle(Unlocked([reserve EXCEPT !.chunks = @ \cup {Top.slot}]), Rest)
           /\ UNCHANGED <<freeLin, freePhys, map, linked, user, leaked, machine>>
  <2> DEFINE r == Unlocked([reserve EXCEPT !.chunks = @ \cup {Top.slot}])
  <2>1. Len(Rest) = 1
    BY <1>2, <1>7
  <2>2. Top.slot \in Slots /\ Top.slot \notin reserve.chunks
    BY <1>1, <1>5, <1>7, Stacked DEF Spaces
  <2>3. /\ r \in Reserves /\ NodesSound(r) /\ HomesSound(r, linked) /\ r.home = reserve.home
        /\ r.chunks = reserve.chunks \cup {Top.slot} /\ r.lockCnt = reserve.lockCnt - 1 /\ Units(r) >= MinUnits + 1
    BY <1>2, <2>2, ChunkEmbraced
  <2> HIDE DEF r
  <2>4. TreeSound(r.home, linked, DeadTables(Rest), user \cup r.chunks \cup Mapped(Rest))
    <3>1. user \cup r.chunks \cup Mapped(Rest) = user \cup reserve.chunks \cup (Mapped(Rest) \cup MappedOf(Top))
      BY <1>5, <1>7, <2>3
    <3>2. DeadOf(Top) \cup DeadTables(Rest) = DeadTables(Rest)
      BY <1>4
    <3> QED BY <1>2, <2>3, <3>1, <3>2
  <2>7. reserve.lockCnt = leaked + 1
    BY <1>2, <2>1
  <2>5. r.lockCnt = leaked
    BY <1>2, <2>3, <2>7
  <2>6. Ready(r, linked, user, leaked, Rest)
    BY <1>1, <2>3, <2>4, <2>5, PopReady
  <2> QED BY <1>1, <1>7, <2>6 DEF ReadyInv, Settle, r
<1>8. CASE Top.by = "renew" /\ Top.frame = 0 /\ Halt("fault")
  BY <1>8, HaltReady
<1> QED BY <1>6, <1>7, <1>8 DEF AllocReturns

\* free answers: the reserve looks whether it has to trim again.
LEMMA ReadyFreeReturns == AmpleReserve /\ IInv /\ ReadyInv /\ FreeReturns => ReadyInv'
<1> SUFFICES ASSUME AmpleReserve, IInv, ReadyInv, FreeReturns PROVE ReadyInv'
  OBVIOUS
<1>1. At("free", "return") /\ stack # <<>> /\ machine # "dry" /\ UNCHANGED <<linked, user, leaked, machine>>
  BY DEF FreeReturns, At
<1>2. /\ Rest \in Seq(CallSet) /\ Top \in CallSet
      /\ reserve \in Reserves /\ NodesSound(reserve) /\ HomesSound(reserve, linked)
      /\ TreeSound(reserve.home, linked, DeadOf(Top) \cup DeadTables(Rest),
                   user \cup reserve.chunks \cup (Mapped(Rest) \cup MappedOf(Top)))
      /\ leaked \in Nat /\ reserve.lockCnt = leaked + Len(Rest)
      /\ leaked = 0 => NoGiveBack(Rest)
      /\ leaked = 0 /\ Len(Rest) = 1 => Units(reserve) >= Need(Top, linked)
      /\ leaked = 0 /\ Len(Rest) = 0 => Units(reserve) >= MinUnits + 1
      /\ (Len(Rest) = 0 /\ Top.by = "user") \/ (Len(Rest) = 1 /\ Within(Top, Rest[1]))
  BY <1>1, ReadyHere
<1>3. DeadOf(Top) = {} /\ MappedOf(Top) = {} /\ Need(Top, linked) = MinUnits + 1
  BY <1>1 DEF At, DeadOf, Dead, MappedOf, Need
<1>4. TreeSound(reserve.home, linked, DeadTables(Rest), user \cup reserve.chunks \cup Mapped(Rest))
  <2>1. DeadOf(Top) \cup DeadTables(Rest) = DeadTables(Rest) /\ Mapped(Rest) \cup MappedOf(Top) = Mapped(Rest)
    BY <1>3
  <2> QED BY <1>2, <2>1
<1>5. Sound(reserve, linked, user, Rest)
  BY <1>1, <1>2, <1>4, PopReady
<1>6. Units(reserve) \in Nat /\ MinUnits \in Nat
  BY <1>2, UnitsCount, ReserveAssumption
<1>7. leaked = 0 => Units(reserve) >= MinUnits + 1
  BY <1>2, <1>3
<1>8. CASE Top.by = "user" /\ Settle(reserve, Rest)
  <2>1. reserve.lockCnt = leaked
    BY <1>2, <1>8 DEF Within
  <2>2. Ready(reserve, linked, user, leaked, Rest)
    BY <1>1, <1>2, <1>4, <1>7, <2>1, PopReady
  <2> QED BY <1>1, <1>8, <2>2 DEF ReadyInv, Settle
<1>9. ASSUME Top.by # "user"
      PROVE  Len(Rest) = 1 /\ reserve.lockCnt = leaked + 1 /\ (Top.by = "trimInFree" <=> Dead(Rest[1]))
  BY <1>2, <1>9 DEF Within
<1>10. CASE Top.by = "trim" /\ MustTrim(reserve) /\ Trim(reserve, Rest, "trim")
  <2>1. Len(Rest) = 1 /\ reserve.lockCnt = leaked + 1 /\ ("trim" = "trimInFree" <=> Dead(Rest[1]))
    BY <1>9, <1>10
  <2>2. Ready(reserve', linked, user, leaked, stack')
    BY <1>2, <1>5, <1>10, <2>1, TrimReady
  <2> QED BY <1>1, <2>2 DEF ReadyInv
<1>11. CASE Top.by = "trim" /\ Settle(Unlocked(reserve), Rest)
  <2> DEFINE r == Unlocked(reserve)
  <2>1. Len(Rest) = 1 /\ reserve.lockCnt = leaked + 1
    BY <1>9, <1>11
  <2>2. /\ r \in Reserves /\ NodesSound(r) /\ HomesSound(r, linked) /\ r.home = reserve.home
        /\ r.chunks = reserve.chunks /\ r.lockCnt = reserve.lockCnt - 1 /\ Units(r) = Units(reserve)
    BY <1>2, LockKin, ReserveWith
  <2> HIDE DEF r
  <2>3. r.lockCnt = leaked /\ (leaked = 0 => Units(r) >= MinUnits + 1)
    BY <1>2, <1>7, <2>1, <2>2
  <2>4. TreeSound(r.home, linked, DeadTables(Rest), user \cup r.chunks \cup Mapped(Rest))
    BY <1>4, <2>2
  <2>5. Ready(r, linked, user, leaked, Rest)
    BY <1>1, <2>2, <2>3, <2>4, PopReady
  <2> QED BY <1>1, <1>11, <2>5 DEF ReadyInv, Settle, r
<1>12. CASE Top.by = "trimInFree" /\ TrimAndUnlock(reserve, Rest)
  <2>1. Len(Rest) = 1 /\ reserve.lockCnt = leaked + 1 /\ Dead(Rest[1])
    BY <1>9, <1>12
  <2>2. leaked = 0 => NoGiveBack(Rest) /\ Units(reserve) > MinUnits
    BY <1>2, <1>6, <1>7
  <2>3. Ready(reserve', linked, user, leaked, stack')
    BY <1>2, <1>5, <1>12, <2>1, <2>2, TrimAndUnlockReady
  <2> QED BY <1>1, <2>3 DEF ReadyInv
<1> QED BY <1>8, <1>10, <1>11, <1>12 DEF FreeReturns

\* Between calls, the reserve is not locked and the page tree is whole.
LEMMA ReadyAtRest ==
  ASSUME IInv, ReadyInv, stack = <<>>
  PROVE  /\ reserve \in Reserves /\ NodesSound(reserve) /\ HomesSound(reserve, linked)
         /\ TreeSound(reserve.home, linked, {}, user \cup reserve.chunks)
         /\ leaked \in Nat /\ reserve.lockCnt = leaked
         /\ leaked = 0 => Units(reserve) >= MinUnits + 1
<1> DEFINE q == stack
<1>1. /\ Sound(reserve, linked, user, q) /\ leaked \in Nat /\ reserve.lockCnt = leaked + Inner(q)
      /\ leaked = 0 => Enough(reserve, linked, q)
  BY DEF ReadyInv, Ready
<1>2. Len(q) # 2 /\ DOMAIN q = {}
  OBVIOUS
<1> HIDE DEF q
<1>3. Inner(q) = 0 /\ (Enough(reserve, linked, q) <=> Units(reserve) >= MinUnits + 1)
  BY <1>2 DEF Inner, Enough
<1>4. DeadTables(q) = {} /\ Mapped(q) = {}
  BY <1>2 DEF DeadTables, Mapped
<1>5. user \cup reserve.chunks \cup {} = user \cup reserve.chunks
  OBVIOUS
<1> QED BY <1>1, <1>3, <1>4, <1>5 DEF Sound

\* A call of the kernel begins.
LEMMA CallBegins ==
  ASSUME IInv, ReadyInv, stack = <<>>, NEW c \in CallSet, c.by = "user", ~Dead(c), c.at # "giveBack",
         NEW users, users \cup MappedOf(c) \subseteq user
  PROVE  Ready(reserve, linked, users, leaked, <<c>>)
<1>1. /\ reserve \in Reserves /\ NodesSound(reserve) /\ HomesSound(reserve, linked)
      /\ TreeSound(reserve.home, linked, {}, user \cup reserve.chunks)
      /\ leaked \in Nat /\ reserve.lockCnt = leaked
      /\ leaked = 0 => Units(reserve) >= MinUnits + 1
  BY ReadyAtRest
<1> DEFINE p == <<c>>
<1>2. Len(p) = 1 /\ DOMAIN p = {1} /\ p[1] = c /\ Len(p) # 2 /\ ~(Len(p) > 1)
  OBVIOUS
<1> HIDE DEF p
<1>3. Inner(p) = 0 /\ (Enough(reserve, linked, p) <=> Units(reserve) >= MinUnits + 1) /\ Nesting(p)
  BY <1>2 DEF Inner, Enough, Nesting
<1>4. DeadTables(p) = {} /\ Mapped(p) = MappedOf(c) /\ NoGiveBack(p)
  BY <1>2 DEF DeadTables, Mapped, DeadOf, NoGiveBack
<1>5. TreeSound(reserve.home, linked, DeadTables(p), users \cup reserve.chunks \cup Mapped(p))
  <2> DEFINE live == users \cup reserve.chunks \cup Mapped(p)
             older == user \cup reserve.chunks
  <2>1. live \subseteq older
    BY <1>4
  <2>2. TreeSound(reserve.home, linked, DeadTables(p), older)
    BY <1>1, <1>4
  <2> HIDE DEF live, older
  <2>3. TreeSound(reserve.home, linked, DeadTables(p), live)
    BY <2>1, <2>2 DEF TreeSound
  <2> QED BY <2>3 DEF live
<1>6. Sound(reserve, linked, users, p)
  BY <1>1, <1>3, <1>5 DEF Sound
<1>7. reserve.lockCnt = leaked + Inner(p)
  BY <1>1, <1>3
<1>8. Ready(reserve, linked, users, leaked, p)
  BY <1>1, <1>3, <1>4, <1>6, <1>7 DEF Ready
<1> QED BY <1>8 DEF p

\* A client calls alloc.
LEMMA ReadyUserAlloc == IInv /\ ReadyInv /\ UserAlloc => ReadyInv'
<1> SUFFICES ASSUME IInv, ReadyInv, UserAlloc PROVE ReadyInv'
  OBVIOUS
<1> DEFINE c == Call("alloc", "user", "phys", 0)
<1>1. /\ stack = <<>> /\ stack' = <<c>> /\ UNCHANGED <<reserve, linked, user, leaked, machine>>
      /\ machine # "dry"
  BY DEF UserAlloc
<1>2. c \in CallSet /\ c.by = "user" /\ ~Dead(c) /\ c.at # "giveBack" /\ MappedOf(c) = {}
  BY DEF Call, CallSet, Dead, MappedOf
<1> HIDE DEF c
<1>3. Ready(reserve, linked, user, leaked, <<c>>)
  BY <1>1, <1>2, CallBegins
<1> QED BY <1>1, <1>3 DEF ReadyInv

\* A client calls free.
LEMMA ReadyUserFree == ASSUME NEW s, IInv, ReadyInv, UserFree(s) PROVE ReadyInv'
<1> DEFINE c == Call("free", "user", "pageout", s)
           users == user \ {s}
<1>1. /\ stack = <<>> /\ stack' = <<c>> /\ UNCHANGED <<reserve, linked, leaked, machine>>
      /\ machine # "dry" /\ s \in user /\ user' = users
  BY DEF UserFree
<1>2. s \in Slots
  BY <1>1 DEF IInv, Owned, Spaces
<1>3. c \in CallSet /\ c.by = "user" /\ ~Dead(c) /\ c.at # "giveBack" /\ MappedOf(c) = {s}
  BY <1>2 DEF Call, CallSet, Dead, MappedOf
<1>4. users \cup MappedOf(c) \subseteq user
  BY <1>1, <1>3
<1> HIDE DEF c, users
<1>5. Ready(reserve, linked, users, leaked, <<c>>)
  BY <1>1, <1>3, <1>4, CallBegins
<1> QED BY <1>1, <1>5 DEF ReadyInv

\* The initial reserve is one chunk, less a unit for each heap of nodes.
LEMMA InitReady == Init /\ IInv => ReadyInv
<1> SUFFICES ASSUME Init, IInv PROVE ReadyInv
  OBVIOUS
<1>1. /\ linked = {} /\ user = {} /\ stack = <<>> /\ leaked = 0 /\ machine = "running"
      /\ reserve.chunks = {1} /\ reserve.home = [t \in Tables |-> 0] /\ reserve.lockCnt = 0
      /\ reserve.nodeUnits = [h \in Heaps |-> [s \in Slots |-> IF s = 1 THEN 1 ELSE 0]]
      /\ reserve.nodes = [avl |-> NodesPerUnit - 3, aslr |-> NodesPerUnit - 1]
      /\ reserve \in Reserves
  BY DEF Init, IInv
<1>2. NodesSound(reserve)
  <2>1. ASSUME NEW h \in Heaps
        PROVE  reserve.nodes[h] \in Nat
    BY <1>1, ReserveAssumption DEF Heaps
  <2>2. ASSUME NEW h \in Heaps, NEW s \in Slots
        PROVE  reserve.nodeUnits[h][s] \in Nat /\ (s \notin reserve.chunks => reserve.nodeUnits[h][s] = 0)
    BY <1>1
  <2> QED BY <2>1, <2>2 DEF NodesSound
<1>3. HomesSound(reserve, linked)
  BY <1>1 DEF HomesSound
<1>4. 1 \in Slots
  BY <1>1 DEF Reserves
<1>5. Units(reserve) >= MinUnits + 1
  <2>1. Hosted(reserve, 1) = 2
    <3>1. {t \in Tables : reserve.home[t] = 1} = {}
      BY <1>1
    <3>2. reserve.nodeUnits["avl"][1] = 1 /\ reserve.nodeUnits["aslr"][1] = 1
      BY <1>1, <1>4 DEF Heaps
    <3> QED BY <3>1, <3>2, FS_EmptySet DEF Hosted
  <2>2. ELength \in Nat /\ ELength - 2 > MinUnits /\ MinUnits \in Nat
    BY ReserveAssumption
  <2> DEFINE X == {1}
             I == 3 .. ELength
  <2>3. IsFiniteSet(X) /\ Cardinality(X) = 1
    BY FS_Singleton
  <2>4. IsFiniteSet(I) /\ Cardinality(I) = ELength - 2
    BY <2>2, FS_Interval
  <2>5. X \X I \subseteq Free(reserve)
    <3>1. I \subseteq 1 .. ELength /\ \A i \in I : i > 2
      BY <2>2
    <3> HIDE DEF I
    <3>2. ASSUME NEW i \in I PROVE <<1, i>> \in Free(reserve)
      <4>1. 1 \in reserve.chunks /\ i \in 1 .. ELength /\ i > Hosted(reserve, 1)
        BY <1>1, <2>1, <3>1
      <4> QED BY <4>1 DEF Free
    <3> QED BY <3>2
  <2> HIDE DEF X, I
  <2>6. IsFiniteSet(X \X I) /\ Cardinality(X \X I) = Cardinality(X) * Cardinality(I)
    BY <2>3, <2>4, FS_Product
  <2>7. Cardinality(X \X I) = ELength - 2
    BY <2>2, <2>3, <2>4, <2>6
  <2>8. Cardinality(X \X I) <= Cardinality(Free(reserve))
    BY <1>1, <2>5, UnitsCount, FS_Subset
  <2>9. Units(reserve) = Cardinality(Free(reserve)) /\ Units(reserve) \in Nat
    BY <1>1, UnitsCount
  <2> QED BY <2>2, <2>7, <2>8, <2>9
<1> DEFINE q == stack
<1>6. Len(q) # 2 /\ Len(q) = 0 /\ DOMAIN q = {} /\ ~(Len(q) > 1) /\ Len(q) # 1
  BY <1>1
<1> HIDE DEF q
<1>7. Inner(q) = 0 /\ Enough(reserve, linked, q) /\ Nesting(q)
  BY <1>5, <1>6 DEF Inner, Enough, Nesting
<1>8. DeadTables(q) = {} /\ Mapped(q) = {} /\ NoGiveBack(q)
  BY <1>6 DEF DeadTables, Mapped, NoGiveBack
<1>9. TreeSound(reserve.home, linked, DeadTables(q), user \cup reserve.chunks \cup Mapped(q))
  BY <1>1, <1>8 DEF TreeSound
<1>10. Ready(reserve, linked, user, leaked, q)
  BY <1>1, <1>2, <1>3, <1>7, <1>8, <1>9 DEF Ready, Sound
<1> QED BY <1>1, <1>10 DEF ReadyInv, q

\* A table that was freed is on the way to no slot that is mapped: it has no child, and the
\* table of a slot is the one of the call that unmapped it.
LEMMA LiveAvoidsDead ==
  ASSUME NEW home, NEW links, NEW dead, NEW live, TreeSound(home, links, dead, live),
         NEW t \in dead, NEW s \in live, s \in Slots, t[1] = 0 => t[2] \notin live
  PROVE  t \notin Path(s)
<1> SUFFICES ASSUME t \in Path(s) PROVE FALSE
  OBVIOUS
<1> DEFINE h == t[1]
<1>1. h \in 0 .. Levels - 1 /\ t = TableOf(s, h) /\ t[2] # 0
  BY OnPath
<1>2. CASE h = 0
  <2>1. t = <<0, s>>
    BY <1>1, <1>2, TableIndex
  <2> QED BY <2>1
<1>3. CASE h # 0
  <2> DEFINE g == h - 1
             u == TableOf(s, g)
  <2>1. g \in 0 .. Levels - 1 /\ g \in 0 .. Levels /\ h = g + 1 /\ h \in 1 .. Levels /\ g = t[1] - 1
    BY <1>1, <1>3, TreeAssumption
  <2>2. t = TableOf(s, g + 1)
    BY <1>1, <2>1
  <2>3. s # 1
    BY <1>1, <2>1, PathOfOne
  <2> HIDE DEF g, h
  <2>4. u[1] = g /\ t[2] = u[2] \div Fan
    BY <2>1, <2>2, TableIndex
  <2>5. u[2] # 0
    BY <1>1, <2>1, <2>2, StaticAbove
  <2>6. u \in Path(s)
    BY <2>1, <2>5, OnPath DEF Static
  <2>7. u \in links
    BY <2>3, <2>6 DEF TreeSound
  <2> HIDE DEF u
  <2>8. u \in Children(t, links)
    BY <2>1, <2>4, <2>7 DEF Children
  <2> QED BY <2>8 DEF TreeSound
<1> QED BY <1>2, <1>3

\* The slot that a call unmaps is in its hands alone.
LEMMA DeadNotLive ==
  ASSUME IInv, NEW t \in DeadTables(stack), t[1] = 0
  PROVE  t[2] \notin user \cup reserve.chunks \cup Mapped(stack)
<1>1. PICK k \in DOMAIN stack : t \in DeadOf(stack[k])
  BY DEF DeadTables
<1> DEFINE c == stack[k]
<1>2. Dead(c) /\ t = TableOf(c.slot, c.height - 1)
  BY <1>1 DEF DeadOf
<1>3. /\ Nested(stack)
      /\ Spaces(freeLin, freePhys, map, reserve.chunks, user, Held(stack), InHand(stack), Mapped(stack), Named(stack))
  BY DEF IInv, Owned
<1>4. WellFormed(c) /\ c.slot \in Slots
  BY <1>2, <1>3 DEF Nested, WellFormed, CallSet, Dead
<1>5. t[2] = c.slot
  <2>1. t[1] = c.height - 1
    BY <1>2 DEF TableOf
  <2>2. t = TableOf(c.slot, 0)
    BY <1>2, <2>1
  <2> QED BY <1>4, <2>2, TableIndex
<1>6. SlotOf(c) = {c.slot} /\ MappedOf(c) = {}
  BY <1>2 DEF SlotOf, MappedOf, Dead
<1>7. c.slot \in Held(stack)
  BY <1>6 DEF Held
<1>8. ASSUME NEW j \in DOMAIN stack, c.slot \in MappedOf(stack[j]) PROVE FALSE
  <2>1. j # k
    BY <1>6, <1>8
  <2>2. SlotOf(stack[j]) \cap SlotOf(stack[k]) = {}
    BY <1>3, <2>1 DEF Nested
  <2>3. c.slot \in SlotOf(stack[j])
    <3>1. WellFormed(stack[j])
      BY <1>3 DEF Nested
    <3> QED BY <1>8, <3>1 DEF WellFormed, MappedOf, SlotOf, CallSet
  <2> QED BY <1>6, <2>2, <2>3
<1>9. c.slot \notin Mapped(stack)
  BY <1>8 DEF Mapped
<1> QED BY <1>3, <1>5, <1>7, <1>9 DEF Spaces

\* Whoever has a slot that is mapped does not meet a table that was freed.
LEMMA LiveStays ==
  ASSUME IInv, ReadyInv, NEW t \in DeadTables(stack), NEW s \in user \cup reserve.chunks \cup Mapped(stack)
  PROVE  t \notin Path(s)
<1> DEFINE live == user \cup reserve.chunks \cup Mapped(stack)
<1>1. TreeSound(reserve.home, linked, DeadTables(stack), live)
  BY DEF ReadyInv, Ready, Sound
<1>2. s \in Slots
  <2>1. user \subseteq Slots /\ reserve.chunks \subseteq Slots
    BY DEF IInv, Owned, Spaces
  <2>2. \A k \in DOMAIN stack : MappedOf(stack[k]) \subseteq Slots
    <3>1. \A k \in DOMAIN stack : WellFormed(stack[k])
      BY DEF IInv, Owned, Nested
    <3> QED BY <3>1 DEF WellFormed, MappedOf, CallSet
  <2> QED BY <2>1, <2>2 DEF Mapped
<1>3. t[1] = 0 => t[2] \notin live
  BY DeadNotLive
<1> HIDE DEF live
<1>4. s \in live
  BY DEF live
<1> QED BY <1>1, <1>2, <1>3, <1>4, LiveAvoidsDead

\* The table is freed: if nothing has locked the reserve, it looks whether it must trim.
LEMMA TableFreed ==
  ASSUME AmpleReserve, IInv, ReadyInv, At("free", "pageout"), NEW c, SameCall(c), c.at = "pageout", Dead(c),
         NEW t \in Tables, NEW r, r = [reserve EXCEPT !.home[t] = 0], NEW links, HomesSound(r, links),
         TreeSound(r.home, links, DeadOf(c) \cup DeadTables(Rest),
                   user \cup r.chunks \cup (Mapped(Rest) \cup MappedOf(c))),
         UnitFreed(r, <<c>> \o Rest)
  PROVE  Ready(reserve', links, user, leaked, stack')
<1> DEFINE p == <<c>> \o Rest
<1>1. /\ reserve \in Reserves /\ NodesSound(reserve)
      /\ leaked \in Nat /\ reserve.lockCnt = leaked + Len(Rest)
      /\ leaked = 0 => NoGiveBack(Rest)
      /\ leaked = 0 /\ Len(Rest) = 1 => Units(reserve) >= Need(Top, linked)
      /\ leaked = 0 /\ Len(Rest) = 0 => Units(reserve) >= MinUnits + 1
      /\ stack # <<>> /\ Top.call = "free" /\ Top.at = "pageout"
  BY ReadyHere DEF At
<1>2. c.call = "free" /\ Need(Top, linked) = MinUnits + 4 /\ Need(c, links) = MinUnits + 4
  BY <1>1 DEF SameCall, Need
<1>3. r \in Reserves /\ r.chunks = reserve.chunks
  BY <1>1, HomeWith
<1>4. /\ r.nodeUnits = reserve.nodeUnits /\ r.nodes = reserve.nodes /\ r.lockCnt = reserve.lockCnt
      /\ \A u \in Tables : r.home[u] = reserve.home[u] \/ r.home[u] = 0
  BY <1>1 DEF Reserves
<1>5. NodesSound(r)
  BY <1>1, <1>3, <1>4 DEF NodesSound
<1>6. Units(r) >= Units(reserve) /\ Units(r) \in Nat /\ Units(reserve) \in Nat /\ MinUnits \in Nat
  <2>1. ASSUME NEW x \in reserve.chunks PROVE Hosted(r, x) <= Hosted(reserve, x)
    <3> DEFINE A == {u \in Tables : r.home[u] = x}
               B == {u \in Tables : reserve.home[u] = x}
               a == reserve.nodeUnits["avl"][x]
               b == reserve.nodeUnits["aslr"][x]
    <3>1. x # 0 /\ x \in Slots
      BY <1>1, NoZero DEF Reserves
    <3>2. A \subseteq B
      BY <1>4, <3>1
    <3>3. IsFiniteSet(B)
      BY TablesFinite, FS_Subset
    <3>4. Hosted(reserve, x) = Cardinality(B) + a + b
      BY DEF Hosted
    <3>5. Hosted(r, x) = Cardinality(A) + a + b
      BY <1>4 DEF Hosted
    <3>6. a \in Nat /\ b \in Nat
      BY <1>1, <3>1 DEF NodesSound, Heaps
    <3> HIDE DEF A, B, a, b
    <3>7. IsFiniteSet(A) /\ Cardinality(A) <= Cardinality(B) /\ Cardinality(A) \in Nat /\ Cardinality(B) \in Nat
      BY <3>2, <3>3, FS_Subset, FS_CardinalityType
    <3> QED BY <3>4, <3>5, <3>6, <3>7
  <2>2. Units(r) >= Units(reserve)
    BY <1>1, <1>3, <1>5, <2>1, UnitsMore
  <2> QED BY <1>1, <1>3, <2>2, UnitsCount, ReserveAssumption
<1>7. /\ Sound(r, links, user, p) /\ p \in Seq(CallSet) /\ p[1] = c
      /\ Len(p) = Len(Rest) + 1 /\ Len(Rest) \in {0, 1}
      /\ NoGiveBack(p) <=> c.at # "giveBack" /\ NoGiveBack(Rest)
  BY <1>1, <1>3, <1>5, GoesOnSound
<1>8. CASE Settle(r, <<c>> \o Rest)
  <2>1. leaked = 0 /\ Len(Rest) = 1 => Units(r) >= Need(c, links)
    BY <1>1, <1>2, <1>6
  <2>2. leaked = 0 /\ Len(Rest) = 0 => Units(r) >= MinUnits + 1
    BY <1>1, <1>6
  <2>3. r.lockCnt = leaked + Len(Rest) /\ c.at # "giveBack"
    BY <1>1, <1>4
  <2>4. Ready(r, links, user, leaked, <<c>> \o Rest)
    BY <1>1, <1>3, <1>5, <2>1, <2>2, <2>3, SettleGoesOn
  <2> QED BY <1>8, <2>4 DEF Settle
<1>9. CASE r.lockCnt = 0 /\ TrimAndUnlock(Locked(r), <<c>> \o Rest)
  <2> HIDE DEF p
  <2>1. leaked = 0 /\ Len(Rest) = 0
    BY <1>1, <1>4, <1>7, <1>9
  <2>2. Len(p) = 1
    BY <1>7, <2>1
  <2>3. Units(r) > MinUnits
    BY <1>1, <1>6, <2>1
  <2> DEFINE s == Locked(r)
  <2>4. Sound(s, links, user, p) /\ s.lockCnt = leaked + 1 /\ Units(s) = Units(r)
    BY <1>3, <1>7, <1>9, <2>1, LockKin
  <2>5. leaked = 0 => NoGiveBack(p) /\ Units(s) > MinUnits
    BY <1>1, <1>7, <2>3, <2>4
  <2>6. TrimAndUnlock(s, p) /\ Dead(p[1])
    BY <1>7, <1>9 DEF p
  <2> HIDE DEF s
  <2> QED BY <1>1, <1>7, <2>2, <2>4, <2>5, <2>6, TrimAndUnlockReady
<1> QED BY <1>8, <1>9 DEF UnitFreed

\* pageout clears the page, and frees the table it was in.
LEMMA ReadyPageoutPage == AmpleReserve /\ IInv /\ ReadyInv /\ PageoutPage => ReadyInv'
<1> SUFFICES ASSUME AmpleReserve, IInv, ReadyInv, PageoutPage PROVE ReadyInv'
  OBVIOUS
<1> DEFINE s == Top.slot
           t == TableOf(s, 0)
           c == [Top EXCEPT !.frame = map[s], !.height = 1]
           r == [reserve EXCEPT !.home[t] = 0]
<1>1. /\ At("free", "pageout") /\ Top.height = 0 /\ stack # <<>> /\ machine # "dry"
      /\ UNCHANGED <<linked, user, leaked, machine>>
      /\ \/ t \in linked /\ UnitFreed(r, <<c>> \o Rest)
         \/ t \notin linked /\ Settle(reserve, <<c>> \o Rest)
  BY DEF PageoutPage, At
<1>2. /\ Top \in CallSet /\ WellFormed(Top)
      /\ reserve \in Reserves /\ NodesSound(reserve) /\ HomesSound(reserve, linked)
      /\ TreeSound(reserve.home, linked, DeadOf(Top) \cup DeadTables(Rest),
                   user \cup reserve.chunks \cup (Mapped(Rest) \cup MappedOf(Top)))
      /\ leaked \in Nat /\ reserve.lockCnt = leaked + Len(Rest)
      /\ leaked = 0 => NoGiveBack(Rest)
      /\ leaked = 0 /\ Len(Rest) = 1 => Units(reserve) >= Need(Top, linked)
      /\ leaked = 0 /\ Len(Rest) = 0 => Units(reserve) >= MinUnits + 1
  BY <1>1, ReadyHere
<1>3. Top.call = "free" /\ Top.at = "pageout" /\ s \in Slots
  BY <1>1, <1>2 DEF At, WellFormed, CallSet
<1>4. map[s] \in Frames \cup {0}
  BY <1>3 DEF IInv, Owned, Spaces
<1>5. SameCall(c) /\ c.call = "free" /\ c.at = "pageout" /\ c.slot = s /\ c.height = 1
  BY <1>2, <1>3, <1>4 DEF SameCall, CallSet
<1>6. t = <<0, s>> /\ t \in Tables
  BY <1>3, TableIndex, OnPath
<1> HIDE DEF c
<1>7. Dead(c) /\ MappedOf(c) = {} /\ DeadOf(Top) = {} /\ Need(c, linked) = Need(Top, linked)
  BY <1>1, <1>3, <1>5 DEF Dead, MappedOf, DeadOf, Need
<1>8. DeadOf(c) = {t}
  <2>1. c.height - 1 = 0
    BY <1>5
  <2> QED BY <1>5, <1>7, <2>1 DEF DeadOf
<1>9. Children(t, linked) = {}
  <2>1. \A u \in Tables : u[1] \in 0 .. Levels - 1
    BY OnPath DEF Tables
  <2>2. \A u \in linked : u[1] # 0 - 1
    BY <1>2, <2>1, TreeAssumption DEF TreeSound
  <2>3. t[1] = 0
    BY <1>6
  <2> HIDE DEF t
  <2> QED BY <2>2, <2>3 DEF Children
<1> HIDE DEF t
<1>10. CASE t \in linked /\ UnitFreed(r, <<c>> \o Rest)
  <2>1. r \in Reserves /\ r.chunks = reserve.chunks
    BY <1>2, HomeWith
  <2>2. \A u \in Tables : r.home[u] = IF u = t THEN 0 ELSE reserve.home[u]
    BY <1>2 DEF Reserves
  <2> HIDE DEF r
  <2>3. HomesSound(r, linked)
    BY <1>2, <2>1, <2>2 DEF HomesSound
  <2>4. TreeSound(r.home, linked, DeadOf(c) \cup DeadTables(Rest),
                  user \cup r.chunks \cup (Mapped(Rest) \cup MappedOf(c)))
    <3>1. \A u \in linked : r.home[u] = 0 => u \in DeadOf(c) \cup DeadTables(Rest)
      BY <1>2, <1>7, <1>8, <2>2 DEF TreeSound
    <3>2. \A u \in DeadOf(c) \cup DeadTables(Rest) : u \in Tables /\ r.home[u] = 0 /\ Children(u, linked) = {}
      BY <1>2, <1>6, <1>8, <1>9, <2>2 DEF TreeSound
    <3>3. \A x \in user \cup r.chunks \cup (Mapped(Rest) \cup MappedOf(c)) : x = 1 \/ Path(x) \subseteq linked
      BY <1>2, <1>7, <2>1 DEF TreeSound
    <3>4. linked \subseteq Tables
      BY <1>2 DEF TreeSound
    <3> QED BY <3>1, <3>2, <3>3, <3>4 DEF TreeSound
  <2>5. r = [reserve EXCEPT !.home[t] = 0]
    BY DEF r
  <2>6. Ready(reserve', linked, user, leaked, stack')
    BY <1>1, <1>5, <1>6, <1>7, <1>10, <2>3, <2>4, <2>5, TableFreed
  <2> QED BY <1>1, <2>6 DEF ReadyInv
<1>11. CASE t \notin linked /\ Settle(reserve, <<c>> \o Rest)
  <2>1. reserve.home[t] = 0
    BY <1>2, <1>6, <1>11 DEF HomesSound
  <2>2. TreeSound(reserve.home, linked, DeadOf(c) \cup DeadTables(Rest),
                  user \cup reserve.chunks \cup (Mapped(Rest) \cup MappedOf(c)))
    <3>1. \A u \in linked : reserve.home[u] = 0 => u \in DeadOf(c) \cup DeadTables(Rest)
      BY <1>2, <1>7 DEF TreeSound
    <3>2. \A u \in DeadOf(c) \cup DeadTables(Rest) : u \in Tables /\ reserve.home[u] = 0 /\ Children(u, linked) = {}
      BY <1>2, <1>6, <1>8, <1>9, <2>1 DEF TreeSound
    <3>3. \A x \in user \cup reserve.chunks \cup (Mapped(Rest) \cup MappedOf(c)) : x = 1 \/ Path(x) \subseteq linked
      BY <1>2, <1>7 DEF TreeSound
    <3>4. linked \subseteq Tables
      BY <1>2 DEF TreeSound
    <3> QED BY <3>1, <3>2, <3>3, <3>4 DEF TreeSound
  <2>3. leaked = 0 /\ Len(Rest) = 1 => Units(reserve) >= Need(c, linked)
    BY <1>2, <1>7
  <2>4. c.at # "giveBack"
    BY <1>5
  <2>5. Ready(reserve, linked, user, leaked, <<c>> \o Rest)
    BY <1>1, <1>2, <1>5, <2>2, <2>3, <2>4, SettleGoesOn
  <2> QED BY <1>1, <1>11, <2>5 DEF ReadyInv, Settle
<1> QED BY <1>1, <1>10, <1>11

\* pageout unlinks the table it freed, and frees the next one if that has no child left.
LEMMA ReadyPageoutTable == AmpleReserve /\ IInv /\ ReadyInv /\ PageoutTable => ReadyInv'
<1> SUFFICES ASSUME AmpleReserve, IInv, ReadyInv, PageoutTable PROVE ReadyInv'
  OBVIOUS
<1> DEFINE s == Top.slot
           n == Top.height
           d == TableOf(s, n - 1)
           t == TableOf(s, n)
           links == linked \ {d}
           up == [Top EXCEPT !.height = @ + 1]
           done == [Top EXCEPT !.at = "phys"]
           r == [reserve EXCEPT !.home[t] = 0]
<1>1. /\ At("free", "pageout") /\ n > 0 /\ stack # <<>> /\ machine # "dry" /\ linked' = links
      /\ UNCHANGED <<user, leaked, machine>>
      /\ \/ Settle(reserve, <<done>> \o Rest)
         \/ n # Levels /\ ~Static(t) /\ Children(t, links) = {} /\ UnitFreed(r, <<up>> \o Rest)
  BY DEF PageoutTable, At, GoesOn
<1>2. /\ stack = <<Top>> \o Rest /\ Rest \in Seq(CallSet) /\ Top \in CallSet /\ WellFormed(Top)
      /\ reserve \in Reserves /\ NodesSound(reserve) /\ HomesSound(reserve, linked)
      /\ TreeSound(reserve.home, linked, DeadOf(Top) \cup DeadTables(Rest),
                   user \cup reserve.chunks \cup (Mapped(Rest) \cup MappedOf(Top)))
      /\ leaked \in Nat /\ reserve.lockCnt = leaked + Len(Rest)
      /\ leaked = 0 => NoGiveBack(Rest)
      /\ leaked = 0 /\ Len(Rest) = 1 => Units(reserve) >= Need(Top, linked)
      /\ leaked = 0 /\ Len(Rest) = 0 => Units(reserve) >= MinUnits + 1
  BY <1>1, ReadyHere
<1>3. Top.call = "free" /\ Top.at = "pageout" /\ s \in Slots /\ n \in Nat
  BY <1>1, <1>2 DEF At, WellFormed, CallSet
<1>4. Dead(Top) /\ DeadOf(Top) = {d} /\ MappedOf(Top) = {} /\ Need(Top, linked) = MinUnits + 4
  BY <1>1, <1>3 DEF Dead, DeadOf, MappedOf, Need
<1>5. d \in Tables /\ reserve.home[d] = 0
  BY <1>2, <1>4 DEF TreeSound
<1>6. SameCall(up) /\ up.call = "free" /\ up.at = "pageout" /\ up.slot = s /\ up.height = n + 1
  <2> DEFINE m == n + 1
  <2>1. m \in Nat
    BY <1>3
  <2>2. up = [Top EXCEPT !.height = m]
    OBVIOUS
  <2> HIDE DEF m, up
  <2>3. SameCall(up) /\ up.call = "free" /\ up.at = "pageout" /\ up.slot = s /\ up.height = m
    BY <1>2, <1>3, <2>1, <2>2 DEF SameCall, CallSet
  <2> QED BY <2>3 DEF m
<1>7. SameCall(done) /\ done.call = "free" /\ done.at = "phys"
  BY <1>2, <1>3 DEF SameCall, CallSet
<1> HIDE DEF d, up, done
<1>8. HomesSound(reserve, links)
  BY <1>2, <1>5 DEF HomesSound
<1>9. ASSUME NEW x \in user \cup reserve.chunks \cup Mapped(Rest)
      PROVE  x = 1 \/ Path(x) \subseteq links
  <2>1. DeadTables(stack) = DeadOf(Top) \cup DeadTables(Rest) /\ Mapped(stack) = Mapped(Rest) \cup MappedOf(Top)
    BY <1>2, Shape
  <2>2. d \in DeadTables(stack) /\ x \in user \cup reserve.chunks \cup Mapped(stack)
    BY <1>4, <1>9, <2>1
  <2>3. d \notin Path(x)
    BY <2>2, LiveStays
  <2>4. x = 1 \/ Path(x) \subseteq linked
    BY <1>2, <1>9 DEF TreeSound
  <2> QED BY <2>3, <2>4
<1>10. links \subseteq Tables /\ \A u \in links : reserve.home[u] = 0 => u \in DeadTables(Rest)
  BY <1>2, <1>4 DEF TreeSound
<1>11. \A u \in DeadTables(Rest) : u \in Tables /\ reserve.home[u] = 0 /\ Children(u, links) = {}
  BY <1>2 DEF TreeSound, Children
<1>12. CASE Settle(reserve, <<done>> \o Rest)
  <2>1. DeadOf(done) = {} /\ MappedOf(done) = {} /\ Need(done, links) = MinUnits + 4 /\ done.at # "giveBack"
    BY <1>7 DEF DeadOf, Dead, MappedOf, Need
  <2>2. TreeSound(reserve.home, links, DeadOf(done) \cup DeadTables(Rest),
                  user \cup reserve.chunks \cup (Mapped(Rest) \cup MappedOf(done)))
    <3>1. /\ DeadOf(done) \cup DeadTables(Rest) = DeadTables(Rest)
          /\ Mapped(Rest) \cup MappedOf(done) = Mapped(Rest)
      BY <2>1
    <3>2. TreeSound(reserve.home, links, DeadTables(Rest), user \cup reserve.chunks \cup Mapped(Rest))
      BY <1>9, <1>10, <1>11 DEF TreeSound
    <3> QED BY <3>1, <3>2
  <2>3. leaked = 0 /\ Len(Rest) = 1 => Units(reserve) >= Need(done, links)
    BY <1>2, <1>4, <2>1
  <2>4. Ready(reserve, links, user, leaked, <<done>> \o Rest)
    BY <1>1, <1>2, <1>7, <1>8, <2>1, <2>2, <2>3, SettleGoesOn
  <2> QED BY <1>1, <1>12, <2>4 DEF ReadyInv, Settle
<1>13. CASE n # Levels /\ ~Static(t) /\ Children(t, links) = {} /\ UnitFreed(r, <<up>> \o Rest)
  <2>1. Dead(up) /\ MappedOf(up) = {}
    BY <1>3, <1>6 DEF Dead, MappedOf
  <2>2. DeadOf(up) = {t}
    <3>1. up.height - 1 = n
      BY <1>3, <1>6
    <3> QED BY <1>6, <2>1, <3>1 DEF DeadOf
  <2>3. t \in Tables
    <3>1. d[1] = n - 1
      BY DEF d, TableOf
    <3>2. d[1] \in 0 .. Levels - 1
      BY <1>5, OnPath DEF Tables
    <3>3. n \in 0 .. Levels - 1
      BY <1>3, <1>13, <3>1, <3>2, TreeAssumption
    <3> QED BY <1>3, <1>13, <3>3, OnPath
  <2> HIDE DEF t
  <2>4. r \in Reserves /\ r.chunks = reserve.chunks
    BY <1>2, HomeWith
  <2>5. \A u \in Tables : r.home[u] = IF u = t THEN 0 ELSE reserve.home[u]
    BY <1>2 DEF Reserves
  <2> HIDE DEF r, links
  <2>6. HomesSound(r, links)
    BY <1>8, <2>4, <2>5 DEF HomesSound
  <2>7. TreeSound(r.home, links, DeadOf(up) \cup DeadTables(Rest),
                  user \cup r.chunks \cup (Mapped(Rest) \cup MappedOf(up)))
    <3>1. \A u \in links : r.home[u] = 0 => u \in DeadOf(up) \cup DeadTables(Rest)
      BY <1>10, <2>2, <2>5
    <3>2. \A u \in DeadOf(up) \cup DeadTables(Rest) : u \in Tables /\ r.home[u] = 0 /\ Children(u, links) = {}
      BY <1>11, <1>13, <2>2, <2>3, <2>5
    <3>3. \A x \in user \cup r.chunks \cup (Mapped(Rest) \cup MappedOf(up)) : x = 1 \/ Path(x) \subseteq links
      BY <1>9, <2>1, <2>4
    <3> QED BY <1>10, <3>1, <3>2, <3>3 DEF TreeSound
  <2>8. r = [reserve EXCEPT !.home[t] = 0]
    BY DEF r
  <2>9. Ready(reserve', links, user, leaked, stack')
    BY <1>1, <1>6, <1>13, <2>1, <2>3, <2>6, <2>7, <2>8, TableFreed
  <2> QED BY <1>1, <2>9 DEF ReadyInv, links
<1> QED BY <1>1, <1>12, <1>13

\* Whatever happens, the reserve stays ready.
LEMMA StepReady == AmpleReserve /\ IInv /\ ReadyInv /\ [Next]_vars => ReadyInv'
<1> SUFFICES ASSUME AmpleReserve, IInv, ReadyInv, [Next]_vars PROVE ReadyInv'
  OBVIOUS
<1>1. CASE UNCHANGED vars
  BY <1>1 DEF vars, ReadyInv
<1>2. CASE Step
  BY <1>2, ReadyAllocPhysical, ReadyAllocNoPhysical, ReadyAllocLinear, ReadyAllocNoLinear, ReadyGiveBack,
     ReadyPageinTable, ReadyPageinPage, ReadyPageoutPage, ReadyPageoutTable, ReadyFreePhysical,
     ReadyFreeLinear, ReadyAllocReturns, ReadyFreeReturns DEF Step
<1>3. CASE UserAlloc
  BY <1>3, ReadyUserAlloc
<1>4. CASE \E s \in Slots : UserFree(s)
  BY <1>4, ReadyUserFree
<1> QED BY <1>1, <1>2, <1>3, <1>4 DEF Next

\* The reserve's accounts, the depth of its lock and the units it holds fit the calls that
\* are under way (MemoryReserveManager::alloc, free, lock, unlock, Pager::pagein, pageout),
\* provided its limits leave the room that a renewal and a trim need.
THEOREM ReserveReady == AmpleReserve => (Spec => []ReadyInv)
<1> SUFFICES ASSUME AmpleReserve PROVE Spec => []ReadyInv
  OBVIOUS
<1>1. Init => IInv /\ ReadyInv
  BY InitOwned, InitReady
<1>2. (IInv /\ ReadyInv) /\ [Next]_vars => (IInv /\ ReadyInv)'
  BY StepOwned, StepReady
<1> QED BY <1>1, <1>2, PTL DEF Spec

\* As long as no lock was leaked, no call finds the reserve empty, however it is nested, and
\* between calls it is unlocked and above the number of units it renews itself at.
THEOREM NeverRunsDry == AmpleReserve => (Spec => []NeverDry)
<1> SUFFICES ASSUME AmpleReserve PROVE Spec => []NeverDry
  OBVIOUS
<1>1. IInv /\ ReadyInv => NeverDry
  <2> SUFFICES ASSUME IInv, ReadyInv PROVE NeverDry
    OBVIOUS
  <2>1. machine = "dry" => leaked > 0
    BY DEF ReadyInv
  <2>2. ASSUME stack = <<>>, leaked = 0 PROVE reserve.lockCnt = 0 /\ Units(reserve) > MinUnits
    <3>1. reserve \in Reserves /\ reserve.lockCnt = leaked /\ (leaked = 0 => Units(reserve) >= MinUnits + 1)
      BY <2>2, ReadyAtRest
    <3> QED BY <2>2, <3>1, UnitsCount, ReserveAssumption
  <2> QED BY <2>1, <2>2 DEF NeverDry, RestsReady
<1> QED BY <1>1, OwnedOnce, ReserveReady, PTL

\* No walk to a slot that is mapped, or that is being mapped, reads a page table whose memory
\* has been given back, though pageout frees a table before it unlinks it and the reserve may
\* start another call in between.
THEOREM TablesStayAlive == AmpleReserve => (Spec => []WalksLiveTables)
<1> SUFFICES ASSUME AmpleReserve PROVE Spec => []WalksLiveTables
  OBVIOUS
<1>1. IInv /\ ReadyInv => WalksLiveTables
  <2> SUFFICES ASSUME IInv, ReadyInv,
                      NEW s \in Walks \cup user \cup reserve.chunks, NEW t \in Tables, t \in Path(s) \cap linked
               PROVE  reserve.home[t] \in reserve.chunks
    BY DEF WalksLiveTables
  <2>1. /\ HomesSound(reserve, linked)
        /\ TreeSound(reserve.home, linked, DeadTables(stack), user \cup reserve.chunks \cup Mapped(stack))
    BY DEF ReadyInv, Ready, Sound
  <2>2. SUFFICES ASSUME t \in DeadTables(stack) PROVE FALSE
    BY <2>1 DEF HomesSound, TreeSound
  <2>3. CASE s \in user \cup reserve.chunks
    BY <2>2, <2>3, LiveStays
  <2>4. ASSUME s \in Walks, stack # <<>> PROVE FALSE
    <3>1. /\ DeadTables(stack) = DeadOf(Top) \cup DeadTables(Rest)
          /\ Mapped(stack) = Mapped(Rest) \cup MappedOf(Top)
      <4>1. stack = <<Top>> \o Rest /\ Rest \in Seq(CallSet) /\ Top \in CallSet
        BY <2>4, Stacked
      <4> QED BY <4>1, Shape
    <3>2. CASE At("alloc", "pagein")
      BY <2>2, <2>4, <3>1, <3>2, NoneDead DEF At
    <3>3. CASE At("free", "pageout")
      <4>1. s \in MappedOf(Top)
        BY <2>4, <3>3 DEF Walks, At, MappedOf
      <4> QED BY <2>2, <3>1, <4>1, LiveStays
    <3> QED BY <2>4, <3>2, <3>3 DEF Walks
  <2>5. s \in Walks => stack # <<>>
    BY DEF Walks, At
  <2> QED BY <2>3, <2>4, <2>5
<1> QED BY <1>1, OwnedOnce, ReserveReady, PTL
=============================================================================
