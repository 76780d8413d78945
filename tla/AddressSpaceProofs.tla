------------------------ MODULE AddressSpaceProofs ------------------------
(***************************************************************************)
(* Facts about AddressSpaceManager that both managers' proofs rest on: a   *)
(* search in a tree finds a bound when there is one, taking a sub-range    *)
(* and merging a freed one keep SpaceInv, and what they do to FreeBytes.   *)
(***************************************************************************)
EXTENDS AddressSpaceManager, WellFoundedInduction, FiniteSetTheorems, TLAPS

\* Every set of natural numbers that is not empty has a least element.
LEMMA NatMin ==
  ASSUME NEW T \in SUBSET Nat, T # {}
  PROVE  \E m \in T : \A n \in T : m <= n
<1> DEFINE Lt == {ss \in Nat \X Nat : ss[1] < ss[2]}
<1>1. IsWellFoundedOn(Lt, Nat)
  BY NatLessThanWellFounded, Zenon DEF OpToRel
<1>2. \A a, b \in Nat : a < b => <<a, b>> \in Lt
  OBVIOUS
<1> HIDE DEF Lt
<1>3. PICK m \in T : \A n \in T : ~ (<<n, m>> \in Lt)
  BY <1>1, WFMin
<1>4. ASSUME NEW n \in T PROVE m <= n
  <2>1. ~ (n < m)
    BY <1>2, <1>3, Zenon
  <2> QED BY <2>1
<1> QED BY <1>4

\* A tree with an element that is not above the key has a greatest such one.
LEMMA UpperBoundFound ==
  ASSUME NEW tree \in SUBSET RangePair, NEW key \in RangePair,
         \A p, q \in tree : p.x = q.x => p = q,
         NEW r \in tree, LessEq(r, key)
  PROVE  UpperBound(tree, key) # {}
<1> DEFINE Low == {p \in tree : LessEq(p, key)}
           Gaps == {key.x - p.x : p \in Low}
<1>1. Low # {} /\ Gaps \in SUBSET Nat /\ Gaps # {}
  BY DEF LessEq, RangePair
<1>2. PICK gap \in Gaps : \A g \in Gaps : gap <= g
  BY <1>1, NatMin
<1>3. PICK p \in Low : gap = key.x - p.x
  BY <1>2
<1>4. ASSUME NEW q \in Low PROVE LessEq(q, p)
  <2>1. key.x - p.x <= key.x - q.x
    BY <1>2, <1>3
  <2>2. q.x < p.x \/ q.x = p.x
    BY <2>1 DEF RangePair
  <2> QED BY <2>2 DEF LessEq, RangePair
<1> QED BY <1>3, <1>4 DEF UpperBound

\* A tree with an element that is not below the key has a least such one.
LEMMA LowerBoundFound ==
  ASSUME NEW tree \in SUBSET RangePair, NEW key \in RangePair,
         NEW r \in tree, LessEq(key, r)
  PROVE  LowerBound(tree, key) # {}
<1> DEFINE High == {p \in tree : LessEq(key, p)}
           Xs == {p.x : p \in High}
<1>1. High # {} /\ Xs \in SUBSET Nat /\ Xs # {}
  BY DEF RangePair
<1>2. PICK x \in Xs : \A a \in Xs : x <= a
  BY <1>1, NatMin
<1> DEFINE Ys == {p.y : p \in {q \in High : q.x = x}}
<1>3. Ys \in SUBSET Nat /\ Ys # {}
  BY <1>2 DEF RangePair
<1>4. PICK y \in Ys : \A b \in Ys : y <= b
  BY <1>3, NatMin
<1>5. PICK p \in High : p.x = x /\ p.y = y
  BY <1>4
<1>6. ASSUME NEW q \in High PROVE LessEq(p, q)
  <2>1. x <= q.x
    BY <1>2
  <2>2. q.x = x => y <= q.y
    BY <1>4
  <2> QED BY <1>5, <2>1, <2>2 DEF LessEq, RangePair
<1> QED BY <1>5, <1>6 DEF LowerBound
-----------------------------------------------------------------------------
\* Two free ranges that begin at the same address are one.
LEMMA StartsDiffer ==
  ASSUME treeStart \subseteq RangePair, Apart
  PROVE  \A p, q \in treeStart : p.x = q.x => p = q
BY DEF Apart, RangePair

\* What free() finds below the range: every free range that begins below it
\* ends at or before its start, and the one it merges is the one that touches.
LEMMA BelowIsFound ==
  ASSUME treeStart \subseteq RangePair, Apart,
         NEW start \in Nat, NEW length \in Nat, ~AlreadyFree(start, length)
  PROVE  /\ \A p \in treeStart : p.x < start => p.x + p.y <= start
         /\ MergedBefore(start) = {p \in treeStart : p.x + p.y = start}
<1> DEFINE key == [x |-> start, y |-> 0]
<1>k. key \in RangePair
  BY DEF RangePair
<1>1. \A p \in treeStart : LessEq(p, key) <=> p.x < start
  BY DEF LessEq, RangePair, Apart
<1>2. \A p \in Before(start) :
        p \in treeStart /\ p.x < start /\ p.x + p.y <= start
  BY <1>1 DEF AlreadyFree, Before, UpperBound, RangePair
<1>3. ASSUME NEW r \in treeStart, r.x < start
      PROVE  r.x + r.y <= start /\ (r.x + r.y = start => r \in Before(start))
  <2>1. LessEq(r, key)
    BY <1>1, <1>3
  <2>2. PICK p \in Before(start) : TRUE
    <3> HIDE DEF key
    <3> QED BY <1>k, <2>1, StartsDiffer, UpperBoundFound DEF Before, key
  <2>3. LessEq(r, p)
    BY <2>1, <2>2 DEF Before, UpperBound
  <2>4. r.x <= p.x /\ p \in treeStart /\ p.x + p.y <= start
    BY <2>3, <1>2 DEF LessEq, RangePair
  <2>5. r = p \/ r.x + r.y < p.x
    BY <2>4 DEF Apart, RangePair
  <2> QED BY <2>2, <2>4, <2>5 DEF RangePair
<1>4. \A p \in treeStart : p.x + p.y = start => p.x < start
  BY DEF Apart, RangePair
<1> QED BY <1>2, <1>3, <1>4 DEF MergedBefore

\* What free() finds above the range: every free range that begins at or after
\* its start begins at or after its end, and the one it merges touches it.
LEMMA AboveIsFound ==
  ASSUME treeStart \subseteq RangePair, Apart,
         NEW start \in Nat, NEW length \in Nat, ~AlreadyFree(start, length)
  PROVE  /\ \A p \in treeStart : p.x >= start => p.x >= start + length
         /\ MergedAfter(start, length) =
              {p \in treeStart : p.x >= start /\ p.x = start + length}
<1> DEFINE key == [x |-> start, y |-> 0]
           rest == treeStart \ MergedBefore(start)
<1>k. key \in RangePair
  BY DEF RangePair
<1>1. \A p \in treeStart : LessEq(key, p) <=> p.x >= start
  BY DEF LessEq, RangePair
<1>2. \A p \in treeStart : p.x >= start => p \in rest
  BY DEF MergedBefore, Before, UpperBound, Apart, RangePair
<1>3. \A p \in After(start) : p \in rest /\ p.x >= start /\ p.x >= start + length
  BY <1>1 DEF AlreadyFree, After, LowerBound, RangePair
<1>4. ASSUME NEW r \in treeStart, r.x >= start
      PROVE  r.x >= start + length /\ (r.x = start + length => r \in After(start))
  <2>1. LessEq(key, r) /\ r \in rest
    BY <1>1, <1>2, <1>4
  <2>2. PICK p \in After(start) : TRUE
    <3> HIDE DEF key
    <3> QED BY <1>k, <2>1, LowerBoundFound DEF After, key
  <2>3. LessEq(p, r) /\ p \in treeStart
    BY <2>1, <2>2 DEF After, LowerBound
  <2>4. p.x <= r.x /\ p.x >= start + length
    BY <2>3, <1>3 DEF LessEq, RangePair
  <2>5. p = r \/ p.x < r.x
    BY <2>3, <2>4, StartsDiffer DEF RangePair
  <2> QED BY <2>2, <2>3, <2>4, <2>5 DEF RangePair
<1> QED BY <1>3, <1>4 DEF MergedAfter

\* The range free() puts into the trees covers the freed bytes and the merged
\* ranges, nothing else, and touches no range that stays.
LEMMA MergedRangeIs ==
  ASSUME treeStart \subseteq RangePair, Apart,
         NEW start \in Nat, NEW length \in Nat \ {0}, ~AlreadyFree(start, length)
  PROVE  LET range  == MergedRange(start, length)
             merged == MergedBefore(start) \cup MergedAfter(start, length)
         IN  /\ range \in RangePair
             /\ range.y > 0
             /\ \A a \in Nat :
                  a \in Bytes(range.x, range.y) <=>
                    a \in Bytes(start, length) \/ \E p \in merged : a \in Bytes(p.x, p.y)
             /\ \A q \in treeStart \ merged :
                  q.x + q.y < range.x \/ range.x + range.y < q.x
<1> DEFINE first == IF MergedBefore(start) = {} THEN start
                    ELSE (CHOOSE p \in MergedBefore(start) : TRUE).x
           end   == IF MergedAfter(start, length) = {} THEN start + length
                    ELSE LET p == CHOOSE p \in MergedAfter(start, length) : TRUE
                         IN  p.x + p.y
           range == [x |-> first, y |-> end - first]
<1>1. MergedRange(start, length) = range
  BY DEF MergedRange
<1>2. /\ MergedBefore(start) = {p \in treeStart : p.x + p.y = start}
      /\ \A p \in treeStart : p.x < start => p.x + p.y <= start
      /\ MergedAfter(start, length) =
           {p \in treeStart : p.x >= start /\ p.x = start + length}
      /\ \A p \in treeStart : p.x >= start => p.x >= start + length
  BY BelowIsFound, AboveIsFound
<1>3. /\ first \in Nat /\ first <= start
      /\ \A a \in Nat : a >= first /\ a < start <=>
                       \E p \in MergedBefore(start) : a \in Bytes(p.x, p.y)
      /\ \A q \in treeStart \ MergedBefore(start) : q.x < start => q.x + q.y < first
  <2>1. CASE MergedBefore(start) = {}
    BY <2>1, <1>2 DEF RangePair, Apart
  <2>2. CASE MergedBefore(start) # {}
    <3>1. PICK p \in MergedBefore(start) : first = p.x
      BY <2>2
    <3>2. p \in treeStart /\ p.x + p.y = start /\ p.x \in Nat /\ p.y \in Nat /\ p.y > 0
      BY <1>2, <3>1 DEF RangePair, Apart
    <3>3. \A q \in treeStart \ {p} : q.x < start => q.x + q.y < p.x
      BY <3>2, <1>2 DEF Apart, RangePair
    <3>4. MergedBefore(start) = {p}
      BY <3>2, <3>3, <1>2 DEF RangePair, Apart
    <3> HIDE DEF first
    <3> QED BY <3>1, <3>2, <3>3, <3>4 DEF Bytes
  <2> QED BY <2>1, <2>2
<1>4. /\ end \in Nat /\ end >= start + length
      /\ \A a \in Nat : a >= start + length /\ a < end <=>
                       \E p \in MergedAfter(start, length) : a \in Bytes(p.x, p.y)
      /\ \A q \in treeStart \ MergedAfter(start, length) : q.x >= start => end < q.x
  <2>1. CASE MergedAfter(start, length) = {}
    BY <2>1, <1>2 DEF RangePair, Apart
  <2>2. CASE MergedAfter(start, length) # {}
    <3>1. PICK p \in MergedAfter(start, length) : end = p.x + p.y
      BY <2>2
    <3>2. p \in treeStart /\ p.x = start + length /\ p.x \in Nat /\ p.y \in Nat /\ p.y > 0
      BY <1>2, <3>1 DEF RangePair, Apart
    <3>3. \A q \in treeStart \ {p} : q.x >= start => p.x + p.y < q.x
      BY <3>2, <1>2 DEF Apart, RangePair
    <3>4. MergedAfter(start, length) = {p}
      BY <3>1, <3>2, <1>2, StartsDiffer DEF RangePair
    <3> HIDE DEF end
    <3> QED BY <3>1, <3>2, <3>3, <3>4 DEF Bytes
  <2> QED BY <2>1, <2>2
<1> HIDE DEF first, end
<1>5. range \in RangePair /\ range.y > 0
  BY <1>3, <1>4 DEF RangePair
<1>6. ASSUME NEW a \in Nat
      PROVE  a \in Bytes(range.x, range.y) <=>
               \/ a \in Bytes(start, length)
               \/ \E p \in MergedBefore(start) \cup MergedAfter(start, length) :
                    a \in Bytes(p.x, p.y)
  <2>1. ASSUME a \in Bytes(range.x, range.y)
        PROVE  \/ a \in Bytes(start, length)
               \/ \E p \in MergedBefore(start) \cup MergedAfter(start, length) :
                    a \in Bytes(p.x, p.y)
    <3>1. first <= a /\ a < end
      BY <2>1, <1>3, <1>4 DEF Bytes
    <3>2. CASE a < start
      BY <3>1, <3>2, <1>3
    <3>3. CASE start <= a /\ a < start + length
      BY <3>3 DEF Bytes
    <3>4. CASE start + length <= a
      BY <3>1, <3>4, <1>4
    <3> QED BY <3>2, <3>3, <3>4
  <2>2. ASSUME a \in Bytes(start, length)
        PROVE  a \in Bytes(range.x, range.y)
    BY <2>2, <1>3, <1>4 DEF Bytes
  <2>3. ASSUME NEW p \in MergedBefore(start), a \in Bytes(p.x, p.y)
        PROVE  a \in Bytes(range.x, range.y)
    <3>1. a >= first /\ a < start
      BY <2>3, <1>3
    <3> QED BY <3>1, <1>3, <1>4 DEF Bytes
  <2>4. ASSUME NEW p \in MergedAfter(start, length), a \in Bytes(p.x, p.y)
        PROVE  a \in Bytes(range.x, range.y)
    <3>1. a >= start + length /\ a < end
      BY <2>4, <1>4
    <3> QED BY <3>1, <1>3, <1>4 DEF Bytes
  <2> HIDE DEF range
  <2> QED BY <2>1, <2>2, <2>3, <2>4
<1>7. ASSUME NEW q \in treeStart \ (MergedBefore(start) \cup MergedAfter(start, length))
      PROVE  q.x + q.y < range.x \/ range.x + range.y < q.x
  BY <1>3, <1>4 DEF RangePair
<1> HIDE DEF range
<1> QED BY <1>1, <1>5, <1>6, <1>7, Zenon

\* A legal free() adds exactly the freed bytes to the free ones, none of which
\* was free, and keeps the two trees mirrored and their ranges apart.
LEMMA FreeRangeKeeps ==
  ASSUME treeStart \subseteq RangePair, Mirror, Apart,
         NEW start \in Nat, NEW length \in Nat \ {0}, ~AlreadyFree(start, length),
         FreeRange(start, length)
  PROVE  /\ treeStart' \subseteq RangePair
         /\ Mirror'
         /\ Apart'
         /\ FreeBytes' = FreeBytes \cup Bytes(start, length)
         /\ FreeBytes \cap Bytes(start, length) = {}
<1> DEFINE range  == MergedRange(start, length)
           merged == MergedBefore(start) \cup MergedAfter(start, length)
<1>1. /\ range \in RangePair
      /\ range.y > 0
      /\ \A a \in Nat :
           a \in Bytes(range.x, range.y) <=>
             a \in Bytes(start, length) \/ \E p \in merged : a \in Bytes(p.x, p.y)
      /\ \A q \in treeStart \ merged :
           q.x + q.y < range.x \/ range.x + range.y < q.x
  BY MergedRangeIs
<1>2. /\ treeStart' = (treeStart \ merged) \cup {range}
      /\ treeLength' = (treeLength \ {Flip(p) : p \in merged}) \cup {Flip(range)}
  BY DEF FreeRange
<1>3. merged \subseteq treeStart
  BY DEF MergedBefore, MergedAfter, Before, After, UpperBound, LowerBound
<1>4. \A p \in treeStart : p.x < start => p.x + p.y <= start
  BY BelowIsFound
<1>5. \A p \in treeStart : p.x >= start => p.x >= start + length
  BY AboveIsFound
<1> HIDE DEF range, merged
<1>6. treeStart' \subseteq RangePair
  BY <1>1, <1>2
<1>7. Mirror'
  <2>1. \A p, q \in RangePair : Flip(p) = Flip(q) => p = q
    BY DEF Flip, RangePair
  <2> QED BY <2>1, <1>2, <1>3 DEF Mirror
<1>8. Apart'
  <2>1. \A p \in treeStart' : p.y > 0
    BY <1>1, <1>2 DEF Apart
  <2>2. \A p, q \in treeStart' : p # q => p.x + p.y < q.x \/ q.x + q.y < p.x
    BY <1>1, <1>2 DEF Apart
  <2> QED BY <2>1, <2>2 DEF Apart
<1>9. FreeBytes' = FreeBytes \cup Bytes(start, length)
  <2>1. \A a : a \in FreeBytes' <=> \/ \E p \in treeStart \ merged : a \in Bytes(p.x, p.y)
                                   \/ a \in Bytes(range.x, range.y)
    BY <1>2 DEF FreeBytes
  <2>2. \A a : a \in FreeBytes <=> \/ \E p \in treeStart \ merged : a \in Bytes(p.x, p.y)
                                  \/ \E p \in merged : a \in Bytes(p.x, p.y)
    BY <1>3 DEF FreeBytes
  <2>3. \A p \in RangePair : Bytes(p.x, p.y) \subseteq Nat
    BY DEF Bytes, RangePair
  <2>4. Bytes(start, length) \subseteq Nat
    BY DEF Bytes
  <2> QED BY <2>1, <2>2, <2>3, <2>4, <1>1, <1>3, Zenon
<1>10. FreeBytes \cap Bytes(start, length) = {}
  BY <1>4, <1>5 DEF FreeBytes, Bytes, RangePair
<1> QED BY <1>6, <1>7, <1>8, <1>9, <1>10
-----------------------------------------------------------------------------
\* Taking a run out of a free range takes exactly its bytes, all of them free
\* before, and keeps the two trees mirrored and their ranges apart.
LEMMA AllocSubrangeKeeps ==
  ASSUME treeStart \subseteq RangePair, Mirror, Apart,
         NEW super \in treeLength,
         NEW start \in Nat, NEW length \in Nat \ {0}, Fits(start, length, super),
         AllocSubrange([x |-> length, y |-> start], super)
  PROVE  /\ treeStart' \subseteq RangePair
         /\ Mirror'
         /\ Apart'
         /\ FreeBytes' = FreeBytes \ Bytes(start, length)
         /\ Bytes(start, length) \subseteq FreeBytes
<1> DEFINE left  == [x |-> super.y, y |-> start - super.y]
           right == [x |-> start + length, y |-> super.y + super.x - (start + length)]
           lefts  == IF super.y < start THEN {left} ELSE {}
           rights == IF super.y + super.x > start + length THEN {right} ELSE {}
           kept == treeStart \ {Flip(super)}
<1>1. PICK whole \in treeStart : whole = Flip(super) /\ super = Flip(whole)
  BY DEF Mirror, Flip, RangePair
<1>2. /\ whole.x \in Nat /\ whole.y \in Nat /\ whole.y > 0
      /\ super.x = whole.y /\ super.y = whole.x
      /\ super.y <= start /\ start + length <= super.y + super.x
  BY <1>1 DEF Flip, RangePair, Fits, Apart
<1>3. /\ lefts \subseteq RangePair /\ rights \subseteq RangePair
      /\ \A p \in lefts \cup rights : p.y > 0
  BY <1>2 DEF RangePair
<1> DEFINE leftovers == Leftovers([x |-> length, y |-> start], super)
<1>a. leftovers = (IF super.y < start THEN {Flip(left)} ELSE {})
                  \cup (IF super.y + super.x > start + length THEN {Flip(right)} ELSE {})
  <2>1. leftovers = (IF super.y < start THEN {[x |-> start - super.y, y |-> super.y]} ELSE {})
                    \cup (IF super.y + super.x > start + length
                          THEN {[x |-> super.y + super.x - (start + length),
                                 y |-> start + length]}
                          ELSE {})
    <3> DEFINE sub == [x |-> length, y |-> start]
    <3>1. sub.x = length /\ sub.y = start
      OBVIOUS
    <3>2. leftovers = Leftovers(sub, super)
      OBVIOUS
    <3> HIDE DEF sub, leftovers
    <3> QED BY <3>1, <3>2, <1>2 DEF Leftovers
  <2>2. Flip(left) = [x |-> start - super.y, y |-> super.y]
    BY DEF Flip
  <2>3. Flip(right) = [x |-> super.y + super.x - (start + length), y |-> start + length]
    BY DEF Flip
  <2> HIDE DEF leftovers, left, right
  <2> QED BY <2>1, <2>2, <2>3
<1>b. Flip(Flip(left)) = left /\ Flip(Flip(right)) = right
  BY DEF Flip
<1>4. {Flip(p) : p \in leftovers} = lefts \cup rights
  <2> HIDE DEF left, right, leftovers
  <2> QED BY <1>a, <1>b
<1>5. leftovers = {Flip(p) : p \in lefts \cup rights}
  <2> HIDE DEF left, right, leftovers
  <2> QED BY <1>a
<1>6. treeStart' = kept \cup lefts \cup rights
  BY <1>4 DEF AllocSubrange
<1>7. treeLength' = (treeLength \ {super}) \cup {Flip(p) : p \in lefts \cup rights}
  BY <1>5 DEF AllocSubrange
<1>8. treeStart' \subseteq RangePair
  BY <1>3, <1>6
<1>9. Mirror'
  <2>1. \A p, q \in RangePair : Flip(p) = Flip(q) => p = q
    BY DEF Flip, RangePair
  <2>2. treeLength \ {super} = {Flip(p) : p \in kept}
    BY <2>1, <1>1 DEF Mirror
  <2> HIDE DEF lefts, rights, kept
  <2> QED BY <2>2, <1>6, <1>7 DEF Mirror
<1>10. Apart'
  <2>1. \A p \in lefts : p.x = whole.x /\ p.y > 0 /\ p.x + p.y = start
    BY <1>2
  <2>2. \A p \in rights : p.x = start + length /\ p.y > 0 /\ p.x + p.y = whole.x + whole.y
    BY <1>2
  <2>3. \A q \in kept : q.x + q.y < whole.x \/ whole.x + whole.y < q.x
    BY <1>1 DEF Apart
  <2>4. \A p, q \in kept : p # q => p.x + p.y < q.x \/ q.x + q.y < p.x
    BY DEF Apart
  <2>5. \A p, q \in lefts : p = q
    OBVIOUS
  <2>6. \A p, q \in rights : p = q
    OBVIOUS
  <2>7. \A p \in kept : p.y > 0 /\ p \in RangePair
    BY DEF Apart
  <2> HIDE DEF lefts, rights, kept
  <2>8. ASSUME NEW p \in treeStart' PROVE p.y > 0
    BY <2>1, <2>2, <2>7, <1>6
  <2>9. ASSUME NEW p \in treeStart', NEW q \in treeStart', p # q
        PROVE  p.x + p.y < q.x \/ q.x + q.y < p.x
    <3>1. CASE p \in kept
      BY <3>1, <2>9, <2>1, <2>2, <2>3, <2>4, <1>2, <1>3, <1>6, <2>7 DEF RangePair
    <3>2. CASE q \in kept
      BY <3>2, <2>9, <2>1, <2>2, <2>3, <2>4, <1>2, <1>3, <1>6, <2>7 DEF RangePair
    <3>3. CASE p \notin kept /\ q \notin kept
      BY <3>3, <2>9, <2>1, <2>2, <2>5, <2>6, <1>2, <1>3, <1>6 DEF RangePair
    <3> QED BY <3>1, <3>2, <3>3
  <2> QED BY <2>8, <2>9 DEF Apart
<1>11. Bytes(start, length) \subseteq Bytes(whole.x, whole.y)
  BY <1>2 DEF Bytes
<1>12. Bytes(start, length) \subseteq FreeBytes
  BY <1>11 DEF FreeBytes
<1>13. FreeBytes' = FreeBytes \ Bytes(start, length)
  <2>1. \A a : a \in FreeBytes <=> \/ \E p \in kept : a \in Bytes(p.x, p.y)
                                  \/ a \in Bytes(whole.x, whole.y)
    BY <1>1 DEF FreeBytes
  <2>2. \A a : a \in FreeBytes' <=> \/ \E p \in kept : a \in Bytes(p.x, p.y)
                                   \/ \E p \in lefts \cup rights : a \in Bytes(p.x, p.y)
    BY <1>6 DEF FreeBytes
  <2>3. \A a : (\E p \in lefts \cup rights : a \in Bytes(p.x, p.y))
                <=> a \in Bytes(whole.x, whole.y) /\ a \notin Bytes(start, length)
    <3>1. \A a : (\E p \in lefts : a \in Bytes(p.x, p.y)) <=> a \in whole.x .. start - 1
      <4>1. CASE super.y < start
        <5>1. lefts = {left} /\ Bytes(left.x, left.y) = whole.x .. start - 1
          BY <4>1, <1>2 DEF Bytes
        <5> HIDE DEF lefts, left
        <5> QED BY <5>1
      <4>2. CASE ~(super.y < start)
        BY <4>2, <1>2
      <4> QED BY <4>1, <4>2
    <3>2. \A a : (\E p \in rights : a \in Bytes(p.x, p.y))
                  <=> a \in start + length .. whole.x + whole.y - 1
      <4>1. CASE super.y + super.x > start + length
        <5>1. /\ rights = {right}
              /\ Bytes(right.x, right.y) = start + length .. whole.x + whole.y - 1
          BY <4>1, <1>2 DEF Bytes
        <5> HIDE DEF rights, right
        <5> QED BY <5>1
      <4>2. CASE ~(super.y + super.x > start + length)
        BY <4>2, <1>2
      <4> QED BY <4>1, <4>2
    <3>3. \A a : a \in Bytes(whole.x, whole.y) /\ a \notin Bytes(start, length)
                  <=> a \in whole.x .. start - 1 \/ a \in start + length .. whole.x + whole.y - 1
      BY <1>2 DEF Bytes
    <3> HIDE DEF lefts, rights
    <3> QED BY <3>1, <3>2, <3>3
  <2>4. \A p \in kept : \A a \in Bytes(p.x, p.y) : a \notin Bytes(start, length)
    <3>1. \A p \in kept : p \in RangePair /\ (p.x + p.y < whole.x \/ whole.x + whole.y < p.x)
      BY <1>1 DEF Apart
    <3> QED BY <3>1, <1>2 DEF Bytes, RangePair
  <2> HIDE DEF kept, lefts, rights
  <2> QED BY <2>1, <2>2, <2>3, <2>4
<1> QED BY <1>8, <1>9, <1>10, <1>12, <1>13

\* A run of free bytes lies in one free range: no two free ranges touch.
LEMMA RunInOneRange ==
  ASSUME treeStart \subseteq RangePair, Apart,
         NEW start \in Nat, NEW length \in Nat \ {0},
         Bytes(start, length) \subseteq FreeBytes
  PROVE  \E p \in treeStart : p.x <= start /\ start + length <= p.x + p.y
<1>1. start \in Bytes(start, length)
  BY DEF Bytes
<1>2. PICK p \in treeStart : start \in Bytes(p.x, p.y)
  BY <1>1 DEF FreeBytes
<1>3. p.x \in Nat /\ p.y \in Nat /\ p.x <= start /\ start < p.x + p.y
  BY <1>2 DEF Bytes, RangePair
<1>4. CASE p.x + p.y < start + length
  <2>1. p.x + p.y \in Bytes(start, length)
    BY <1>3, <1>4 DEF Bytes
  <2>2. PICK q \in treeStart : p.x + p.y \in Bytes(q.x, q.y)
    BY <2>1 DEF FreeBytes
  <2>3. q.x \in Nat /\ q.y \in Nat /\ q.x <= p.x + p.y /\ p.x + p.y < q.x + q.y
    BY <2>2, <1>3 DEF Bytes, RangePair
  <2>4. p # q
    BY <2>3
  <2> QED BY <2>3, <2>4, <1>3 DEF Apart
<1> QED BY <1>3, <1>4

\* A free() that the kasserts refuse, if it is aligned, reaches into free bytes.
LEMMA AlreadyFreeIsFree ==
  ASSUME treeStart \subseteq RangePair, Apart,
         NEW start \in Nat, NEW length \in Nat \ {0}, AlreadyFree(start, length)
  PROVE  Bytes(start, length) \cap FreeBytes # {}
<1>1. ASSUME NEW p \in Before(start), p.x + p.y > start
      PROVE  start \in Bytes(start, length) /\ start \in FreeBytes
  <2>1. p \in treeStart /\ p.x \in Nat /\ p.y \in Nat /\ p.x <= start
    BY DEF Before, UpperBound, LessEq, RangePair
  <2> QED BY <1>1, <2>1 DEF FreeBytes, Bytes
<1>2. ASSUME NEW p \in After(start), p.x < start + length
      PROVE  p.x \in Bytes(start, length) /\ p.x \in FreeBytes
  <2>1. p \in treeStart /\ p.x \in Nat /\ p.y \in Nat /\ p.x >= start /\ p.y > 0
    BY DEF After, LowerBound, LessEq, RangePair, Apart
  <2> QED BY <1>2, <2>1 DEF FreeBytes, Bytes
<1> QED BY <1>1, <1>2 DEF AlreadyFree
=============================================================================
