------------------------- MODULE InitializerProofs -------------------------
(***************************************************************************)
(* The initializer, for any memory map the BIOS reports and any sizes that *)
(* fit each other: it gives away nothing but free memory; all of it, of    *)
(* the entries that begin at a page; and it finds a place for the initial  *)
(* reserve if and only if there is one, for addresses and rooms that       *)
(* compare as signed numbers as they do as unsigned ones.                  *)
(***************************************************************************)
EXTENDS MemoryManagerInitializer, WellFoundedInduction, TLAPS

(***************************************************************************)
(* What the theorems ask of the map, beyond the assumptions.               *)
(***************************************************************************)
\* initial_reserve.asm:32 and 49 take these for negative.
Negative == WORD \div 2 .. WORD - 1
Room(e) == e.base + e.size - Start(e)
ComparesRight == \A e \in BiosMap : e.free => e.base \notin Negative /\ Room(e) \notin Negative

(***************************************************************************)
(* The inductive invariant.                                                *)
(***************************************************************************)
Listed == {e \in BiosMap : Wanted(e)}
Page(p) == (PAGE * p) .. (PAGE * p + PAGE - 1)
Low1MB == 0 .. MB - 1

TypeInv ==
  /\ step \in {"detect", "reserve", "physical", "linear", "done"}
  /\ smap \in Seq(Listed) /\ entry \in Nat \ {0} /\ reserve \in Nat

\* The reserve is where the search says, and the machine hangs at the search only
\* when no entry has room.
ReserveInv ==
  /\ step \in {"detect", "reserve"} => reserve = 0 /\ given = {} /\ entry = 1
  /\ step \notin {"detect", "reserve"} /\ machine # "hang" => reserve # 0
  /\ reserve # 0 => \E i \in 1 .. Len(smap) : Suitable(smap[i]) /\ reserve = Start(smap[i])
  /\ machine = "hang" /\ step = "physical" => \A i \in 1 .. Len(smap) : ~Suitable(smap[i])

\* The entries before the next one have been given, page for page.
Due(e, p) ==
  /\ Page(p) \subseteq e.base .. e.base + e.size - 1
  /\ Page(p) \cap Low1MB = {} /\ Page(p) \cap Reserve = {}
EntryGiven(e) == e.base % PAGE = 0 => \A p \in Nat : Due(e, p) => Page(p) \subseteq given
LinearGiven == linear = (MB .. Linear - 1) \ (CHUNK .. 2 * CHUNK - 1)

PagesInv ==
  machine # "kassert" =>
    /\ step \in {"physical", "linear", "done"} =>
         \A i \in 1 .. Len(smap) : i < entry => EntryGiven(smap[i])
    /\ step \in {"linear", "done"} => entry > Len(smap)
    /\ step = "done" => LinearGiven

IInv == TypeInv /\ ReserveInv /\ GivesFreeMemory /\ PagesInv
-----------------------------------------------------------------------------
(***************************************************************************)
(* Numbers.                                                                *)
(***************************************************************************)
\* Every set of natural numbers that is not empty has a least element.
LEMMA LeastNat ==
  ASSUME NEW T \in SUBSET Nat, T # {}
  PROVE  \E m \in T : \A n \in T : m <= n
<1> DEFINE Below == {ss \in Nat \X Nat : ss[1] < ss[2]}
<1>1. IsWellFoundedOn(Below, Nat)
  BY NatLessThanWellFounded, Zenon DEF OpToRel
<1>2. \A a, b \in Nat : a < b => <<a, b>> \in Below
  OBVIOUS
<1> HIDE DEF Below
<1>3. PICK m \in T : \A n \in T : ~ (<<n, m>> \in Below)
  BY <1>1, WFMin
<1>4. ASSUME NEW n \in T PROVE m <= n
  <2>1. ~ (n < m)
    BY <1>2, <1>3, Zenon
  <2> QED BY <2>1
<1> QED BY <1>4

\* Quotient and remainder.
LEMMA Division ==
  ASSUME NEW a \in Int, NEW d \in Nat \ {0}
  PROVE  a \div d \in Int /\ a % d \in 0 .. d - 1 /\ a = d * (a \div d) + (a % d)
OBVIOUS

\* They are the only ones.
LEMMA DivisionUnique ==
  ASSUME NEW d \in Nat \ {0}, NEW q \in Int, NEW r \in 0 .. d - 1
  PROVE  (d * q + r) % d = r /\ (d * q + r) \div d = q
<1> DEFINE a == d * q + r
<1>1. a \in Int /\ a \div d \in Int /\ a % d \in 0 .. d - 1 /\ a = d * (a \div d) + (a % d)
  BY Division
<1>2. d * (q - (a \div d)) = (a % d) - r
  BY <1>1
<1>3. CASE q - (a \div d) >= 1
  <2>1. d * (q - (a \div d)) >= d
    BY <1>1, <1>3
  <2> QED BY <1>1, <1>2, <2>1
<1>4. CASE q - (a \div d) <= -1
  <2>1. d * (q - (a \div d)) <= -d
    BY <1>1, <1>4
  <2> QED BY <1>1, <1>2, <2>1
<1>5. CASE q - (a \div d) = 0
  BY <1>1, <1>2, <1>5
<1> QED BY <1>1, <1>3, <1>4, <1>5

\* What is taken off a number to round it down leaves a multiple.
LEMMA RoundedDown ==
  ASSUME NEW a \in Nat, NEW d \in Nat \ {0}
  PROVE  \E q \in Nat : a - (a % d) = d * q /\ d * q <= a /\ a < d * q + d
<1> DEFINE q == a \div d
           r == a % d
<1>1. q \in Int /\ r \in 0 .. d - 1 /\ a = d * q + r
  BY Division
<1> HIDE DEF q, r
<1>2. q \in Nat
  <2>1. CASE q <= -1
    <3>1. d * q <= -d
      BY <1>1, <2>1
    <3> QED BY <1>1, <3>1
  <2> QED BY <1>1, <2>1
<1>3. a - r = d * q /\ d * q <= a /\ a < d * q + d
  BY <1>1
<1> QED BY <1>2, <1>3 DEF r

\* A multiple that is less than another is less by d at least.
LEMMA MultiplesApart ==
  ASSUME NEW d \in Nat \ {0}, NEW a \in Int, NEW b \in Int, d * a < d * b
  PROVE  d * a + d <= d * b
<1>1. CASE a >= b
  <2>1. d * a >= d * b
    BY <1>1
  <2> QED BY <2>1
<1>2. CASE a + 1 <= b
  <2>1. d * (a + 1) <= d * b
    BY <1>2
  <2> QED BY <2>1
<1> QED BY <1>1, <1>2

\* The constants are positive numbers.
LEMMA Sizes ==
  /\ PAGE \in Nat \ {0} /\ MB \in Nat \ {0} /\ CHUNK \in Nat \ {0} /\ MB < CHUNK
  /\ WORD \in Nat \ {0} /\ Linear \in Nat \ {0} /\ Linear > 2 * CHUNK
BY SizesAssumption

\* A word holds numbers up to four megabytes at least, half of them less than half of it.
LEMMA WordIs ==
  /\ WORD \div 2 \in Nat /\ WORD = 2 * (WORD \div 2) /\ CHUNK <= WORD \div 2
<1> DEFINE d == 2 * CHUNK
           q == WORD \div d
<1>1. d \in Nat \ {0} /\ WORD % d = 0
  BY Sizes, SizesAssumption
<1> HIDE DEF d
<1>2. q \in Int /\ WORD = d * q
  BY <1>1, Sizes, Division
<1> HIDE DEF q
<1>3. q >= 1
  <2>1. CASE q <= 0
    <3>1. d * q <= 0
      BY <1>1, <1>2, <2>1
    <3> QED BY <1>2, <3>1, Sizes
  <2> QED BY <1>2, <2>1
<1>4. CHUNK * q \in Nat /\ CHUNK * q >= CHUNK /\ WORD = 2 * (CHUNK * q)
  BY <1>2, <1>3, Sizes DEF d
<1>5. WORD \div 2 = CHUNK * q
  <2>1. (2 * (CHUNK * q) + 0) \div 2 = CHUNK * q
    BY <1>4, DivisionUnique
  <2> QED BY <1>4, <2>1
<1> QED BY <1>4, <1>5

\* Comparing the words of an address or a room as signed numbers is comparing them,
\* but for those from 2 GB to 4 GB.
LEMMA SignedIs ==
  ASSUME NEW a \in Nat, NEW to \in 0 .. WORD \div 2
  PROVE  /\ a \notin Negative => (High(a) # 0 \/ Signed(Low(a)) >= to <=> a >= to)
         /\ High(a) # 0 \/ Signed(Low(a)) >= to => a >= to
<1>1. a \div WORD \in Int /\ a % WORD \in 0 .. WORD - 1 /\ a = WORD * (a \div WORD) + (a % WORD)
  BY Sizes, Division
<1>2. WORD \div 2 \in Nat /\ WORD = 2 * (WORD \div 2)
  BY WordIs
<1> DEFINE q == a \div WORD
<1>3. CASE a < WORD
  <2>1. (WORD * 0 + a) % WORD = a /\ (WORD * 0 + a) \div WORD = 0
    BY <1>3, Sizes, DivisionUnique
  <2>2. High(a) = 0 /\ Low(a) = a
    BY <2>1, Sizes DEF High, Low
  <2>3. a \notin Negative <=> a < WORD \div 2
    BY <1>2, <1>3 DEF Negative
  <2> QED BY <1>2, <1>3, <2>2, <2>3 DEF Signed
<1>4. CASE a >= WORD
  <2>1. q # 0
    BY <1>1, <1>4, Sizes
  <2> QED BY <1>2, <1>4, <2>1 DEF High
<1> QED BY <1>3, <1>4, Sizes
-----------------------------------------------------------------------------
(***************************************************************************)
(* PartitionRange.                                                         *)
(***************************************************************************)
\* A range that is not empty.
IsRange(r) == r.s \in Int /\ r.e \in Int /\ r.s < r.e
AddressesOf(parts) == UNION {Addresses(p) : p \in parts}

\* Fields of an interval.
LEMMA IntervalIs ==
  \A s, e : Interval(s, e).s = s /\ Interval(s, e).e = e
BY DEF Interval

\* Going around a forbidden range leaves what is not in it.
LEMMA OutsideIs ==
  ASSUME NEW r, NEW f, IsRange(r), IsRange(f)
  PROVE  /\ \A p \in Outside(r, f) : IsRange(p)
         /\ AddressesOf(Outside(r, f)) = Addresses(r) \ Addresses(f)
<1> DEFINE before == Interval(r.s, MinOf(r.e, f.s))
           after == Interval(MaxOf(r.s, f.e), r.e)
<1>1. /\ before.s = r.s /\ before.e = MinOf(r.e, f.s)
      /\ after.s = MaxOf(r.s, f.e) /\ after.e = r.e
  BY IntervalIs
<1>2. \A p : p \in Outside(r, f) <=> (r.s < f.s /\ p = before) \/ (r.e > f.e /\ p = after)
  BY DEF Outside
<1> HIDE DEF before, after
<1>3. ASSUME NEW p \in Outside(r, f) PROVE IsRange(p)
  BY <1>1, <1>2 DEF IsRange, MinOf, MaxOf
<1>4. ASSUME NEW a
      PROVE  a \in AddressesOf(Outside(r, f)) <=> a \in Addresses(r) /\ a \notin Addresses(f)
  <2>1. a \in AddressesOf(Outside(r, f))
          <=> (r.s < f.s /\ a \in Addresses(before)) \/ (r.e > f.e /\ a \in Addresses(after))
    BY <1>2 DEF AddressesOf
  <2> QED BY <1>1, <2>1 DEF Addresses, IsRange, MinOf, MaxOf
<1> QED BY <1>3, <1>4

\* Going around two forbidden ranges leaves what is in neither.
LEMMA Partitioned ==
  ASSUME NEW r, NEW forbids, IsRange(r), Len(forbids) = 2, IsRange(forbids[1]), IsRange(forbids[2])
  PROVE  AddressesOf(PartitionRange(r, forbids))
           = Addresses(r) \ (Addresses(forbids[1]) \cup Addresses(forbids[2]))
<1> DEFINE f == forbids[1]
           g == forbids[2]
           Around(parts, i) == UNION {Outside(p, forbids[i]) : p \in parts}
           Def(h) == [i \in 0 .. Len(forbids) |-> IF i = 0 THEN {r} ELSE Around(h[i - 1], i)]
           parts == CHOOSE h : h = Def(h)
<1>1. Len(forbids) = 2 /\ forbids[1] = f /\ forbids[2] = g /\ IsRange(f) /\ IsRange(g)
  OBVIOUS
<1>2. PartitionRange(r, forbids) = parts[2]
  BY <1>1 DEF PartitionRange
<1>3. \E h : h = Def(h)
  <2> DEFINE one == Around({r}, 1)
             two == Around(one, 2)
             w == [i \in 0 .. 2 |-> IF i = 0 THEN {r} ELSE IF i = 1 THEN one ELSE two]
  <2>1. w[0] = {r} /\ w[1] = one /\ w[2] = two
    OBVIOUS
  <2> HIDE DEF one, two, Around
  <2>2. ASSUME NEW i \in 0 .. 2 PROVE w[i] = IF i = 0 THEN {r} ELSE Around(w[i - 1], i)
    <3>1. i = 0 \/ i = 1 \/ i = 2
      OBVIOUS
    <3>2. one = Around({r}, 1) /\ two = Around(one, 2)
      BY DEF one, two
    <3> HIDE DEF w
    <3> QED BY <2>1, <3>1, <3>2
  <2>3. w = Def(w)
    BY <1>1, <2>2
  <2> QED BY <2>3
<1>4. parts = Def(parts)
  BY <1>3
<1> HIDE DEF parts
<1>5. parts[0] = {r} /\ parts[1] = Around(parts[0], 1) /\ parts[2] = Around(parts[1], 2)
  BY <1>1, <1>4
<1>6. parts[1] = Outside(r, f) /\ parts[2] = UNION {Outside(p, g) : p \in Outside(r, f)}
  BY <1>1, <1>5
<1>7. ASSUME NEW a PROVE a \in AddressesOf(parts[2]) <=> a \in AddressesOf(parts[1]) /\ a \notin Addresses(g)
  <2>1. a \in AddressesOf(parts[2]) <=> \E p \in parts[1] : a \in AddressesOf(Outside(p, g))
    BY <1>6 DEF AddressesOf
  <2>2. \A p \in parts[1] : AddressesOf(Outside(p, g)) = Addresses(p) \ Addresses(g)
    BY <1>1, <1>6, OutsideIs
  <2>3. a \in AddressesOf(parts[1]) <=> \E p \in parts[1] : a \in Addresses(p)
    BY DEF AddressesOf
  <2> QED BY <2>1, <2>2, <2>3
<1>8. AddressesOf(parts[1]) = Addresses(r) \ Addresses(f)
  BY <1>1, <1>6, OutsideIs
<1> QED BY <1>2, <1>7, <1>8
-----------------------------------------------------------------------------
(***************************************************************************)
(* Entries of the list.                                                    *)
(***************************************************************************)
\* What is listed was reported, and is free memory.
LEMMA ListedIs ==
  ASSUME NEW e \in Listed
  PROVE  e \in BiosMap /\ e.base \in Nat /\ e.size \in Nat \ {0} /\ e.free
BY MapAssumption DEF Listed, Wanted

\* The search begins at an aligned address, which is the first one of the entry outside of
\* the first megabyte, unless its base compares as negative.
LEMMA StartIs ==
  ASSUME NEW e \in Listed
  PROVE  /\ Start(e) \in Nat /\ Start(e) % CHUNK = 0 /\ Start(e) >= MB
         /\ e.base \notin Negative =>
              /\ Start(e) >= e.base
              /\ \A k \in Nat : CHUNK * k >= MB /\ CHUNK * k >= e.base => CHUNK * k >= Start(e)
<1> DEFINE s == IF High(e.base) # 0 \/ Signed(Low(e.base)) >= MB THEN e.base ELSE MB
<1>1. s \in Nat /\ MB \in 0 .. WORD \div 2 /\ e.base \in Nat
  BY ListedIs, Sizes, WordIs
<1>2. s >= MB /\ (e.base \notin Negative => s >= e.base /\ (s = MB \/ s = e.base))
  BY <1>1, SignedIs
<1>3. Start(e) = IF s % CHUNK = 0 THEN s ELSE s - (s % CHUNK) + CHUNK
  BY DEF Start
<1> HIDE DEF s
<1>4. PICK q \in Nat : s - (s % CHUNK) = CHUNK * q /\ CHUNK * q <= s /\ s < CHUNK * q + CHUNK
  BY <1>1, Sizes, RoundedDown
<1> DEFINE r == s % CHUNK
<1>r. r \in 0 .. CHUNK - 1
  BY <1>1, Sizes, Division
<1>5. \E m \in Int : Start(e) = CHUNK * m + 0 /\ CHUNK * m >= s /\ CHUNK * m < s + CHUNK
  <2>1. Start(e) = IF r = 0 THEN s ELSE s - r + CHUNK
    BY <1>3
  <2>2. s - r = CHUNK * q
    BY <1>4
  <2> HIDE DEF r
  <2>3. CASE r = 0
    BY <1>1, <1>4, <2>1, <2>2, <2>3, Sizes
  <2>4. CASE r # 0
    <3> DEFINE m == CHUNK * (q + 1)
    <3>1. m = CHUNK * q + CHUNK /\ q + 1 \in Int /\ CHUNK * q \in Int
      BY Sizes
    <3>2. CHUNK * q + r = s
      BY <1>1, <1>r, <2>2, <3>1
    <3> HIDE DEF m
    <3>3. Start(e) = m /\ m + 0 = m /\ m >= s /\ m < s + CHUNK
      BY <1>1, <1>r, <2>1, <2>2, <2>4, <3>1, <3>2, Sizes
    <3> QED BY <3>1, <3>3 DEF m
  <2> QED BY <2>3, <2>4
<1> HIDE DEF r
<1>6. PICK m \in Int : Start(e) = CHUNK * m + 0 /\ CHUNK * m >= s /\ CHUNK * m < s + CHUNK
  BY <1>5
<1>7. Start(e) \in Nat /\ Start(e) >= s /\ Start(e) % CHUNK = 0
  <2>1. CHUNK * m \in Int /\ (CHUNK * m + 0) % CHUNK = 0
    BY Sizes, DivisionUnique
  <2> QED BY <1>1, <1>6, <2>1
<1>8. ASSUME NEW k \in Nat, CHUNK * k >= s PROVE CHUNK * k >= Start(e)
  <2>1. CHUNK * k \in Int /\ CHUNK * m \in Int
    BY Sizes
  <2>2. CASE CHUNK * k < CHUNK * m
    <3>1. CHUNK * k + CHUNK <= CHUNK * m
      BY <2>2, Sizes, MultiplesApart
    <3> QED BY <1>1, <1>6, <1>8, <2>1, <3>1, Sizes
  <2> QED BY <1>6, <2>1, <2>2
<1>9. ASSUME e.base \notin Negative, NEW k \in Nat, CHUNK * k >= MB, CHUNK * k >= e.base
      PROVE  CHUNK * k >= Start(e)
  BY <1>2, <1>8, <1>9
<1>10. Start(e) >= MB /\ (e.base \notin Negative => Start(e) >= e.base)
  BY <1>1, <1>2, <1>7, Sizes
<1> QED BY <1>7, <1>9, <1>10

\* The entry that is chosen has room for the reserve.
LEMMA SuitableIs ==
  ASSUME NEW e \in Listed
  PROVE  /\ Suitable(e) => Room(e) >= CHUNK
         /\ Room(e) \notin Negative /\ Room(e) >= CHUNK => Suitable(e)
<1>1. Room(e) \in Int /\ CHUNK \in 0 .. WORD \div 2
  BY ListedIs, StartIs, Sizes, WordIs DEF Room
<1>2. Suitable(e) <=> Room(e) >= 0 /\ (High(Room(e)) # 0 \/ Signed(Low(Room(e))) >= CHUNK)
  BY DEF Suitable, Room
<1>3. CASE Room(e) >= 0
  <2>1. Room(e) \in Nat
    BY <1>1, <1>3
  <2> QED BY <1>1, <1>2, <2>1, SignedIs
<1>4. CASE Room(e) < 0
  BY <1>1, <1>2, <1>4, Sizes
<1> QED BY <1>1, <1>3, <1>4

\* Rounding stays within the entry, and keeps all of its whole pages if it begins at one.
LEMMA RoundedIs ==
  ASSUME NEW e \in Listed
  PROVE  /\ Rounded(e).s \in Nat /\ Rounded(e).e \in Nat
         /\ Addresses(Rounded(e)) \subseteq e.base .. e.base + e.size - 1
         /\ \A p \in Nat : e.base % PAGE = 0 /\ Page(p) \subseteq e.base .. e.base + e.size - 1
                          => Page(p) \subseteq Addresses(Rounded(e))
<1> DEFINE end == e.base + e.size
           r == e.base % PAGE
<1>1. e.base \in Nat /\ end \in Nat
  BY ListedIs
<1>2. /\ Rounded(e).e = end - (end % PAGE)
      /\ Rounded(e).s = IF r = 0 THEN e.base ELSE e.base + (e.base - r)
  BY DEF Rounded, Interval
<1>e. end = e.base + e.size /\ r = e.base % PAGE
  OBVIOUS
<1> HIDE DEF end
<1>3. PICK q \in Nat : end - (end % PAGE) = PAGE * q /\ PAGE * q <= end /\ end < PAGE * q + PAGE
  BY <1>1, Sizes, RoundedDown
<1>4. /\ Rounded(e).e = PAGE * q /\ PAGE * q \in Nat
  BY <1>2, <1>3, Sizes
<1>5. Rounded(e).s \in Nat /\ Rounded(e).s >= e.base /\ (r = 0 => Rounded(e).s = e.base)
  <2>1. PICK k \in Nat : e.base - r = PAGE * k
    BY <1>1, Sizes, RoundedDown
  <2>2. PAGE * k \in Nat
    BY Sizes
  <2>3. r \in Int
    BY <1>1, Sizes, Division
  <2> HIDE DEF r
  <2>4. e.base - r \in Nat
    BY <2>1, <2>2
  <2> QED BY <1>1, <1>2, <2>3, <2>4
<1>6. Addresses(Rounded(e)) = Rounded(e).s .. PAGE * q - 1
  BY <1>4 DEF Addresses
<1>7. ASSUME NEW p \in Nat, r = 0, Page(p) \subseteq e.base .. end - 1
      PROVE  Page(p) \subseteq Addresses(Rounded(e))
  <2> DEFINE a == PAGE * p
  <2>1. a \in Nat /\ Page(p) = a .. a + PAGE - 1
    BY Sizes DEF Page
  <2> HIDE DEF a
  <2>2. a >= e.base /\ a + PAGE <= end
    <3>1. a \in Page(p) /\ a + PAGE - 1 \in Page(p)
      BY <2>1, Sizes
    <3>2. a >= e.base /\ a + PAGE - 1 <= end - 1
      BY <1>7, <3>1
    <3> QED BY <1>1, <2>1, <3>2, Sizes
  <2>3. a + PAGE <= PAGE * q
    <3>1. a < PAGE * q
      BY <1>1, <1>3, <1>4, <2>1, <2>2, Sizes
    <3> QED BY <3>1, Sizes, MultiplesApart DEF a
  <2> QED BY <1>1, <1>4, <1>5, <1>6, <1>7, <2>1, <2>2, <2>3, Sizes
<1>8. Addresses(Rounded(e)) \subseteq e.base .. end - 1
  BY <1>1, <1>3, <1>4, <1>5, <1>6
<1>i. end - 1 = e.base + e.size - 1
  BY <1>e, ListedIs
<1>9. Rounded(e).e \in Nat
  BY <1>4
<1>10. \A p \in Nat : r = 0 /\ Page(p) \subseteq e.base .. end - 1 => Page(p) \subseteq Addresses(Rounded(e))
  BY <1>7
<1>11. Addresses(Rounded(e)) \subseteq e.base .. e.base + e.size - 1
  BY <1>8, <1>i
<1>12. \A p \in Nat : e.base % PAGE = 0 /\ Page(p) \subseteq e.base .. e.base + e.size - 1
                    => Page(p) \subseteq Addresses(Rounded(e))
  BY <1>10, <1>e, <1>i
<1> QED BY <1>5, <1>9, <1>11, <1>12
-----------------------------------------------------------------------------
(***************************************************************************)
(* The steps.                                                              *)
(***************************************************************************)
\* The list is empty at the beginning.
LEMMA InitSound == Init => IInv
<1> SUFFICES ASSUME Init PROVE IInv
  OBVIOUS
<1>1. TypeInv /\ ReserveInv /\ PagesInv
  BY DEF Init, TypeInv, ReserveInv, PagesInv
<1>2. GivesFreeMemory
  BY DEF Init, GivesFreeMemory
<1> QED BY <1>1, <1>2 DEF IInv

\* Listing memory gives nothing.
LEMMA DetectKeeps ==
  ASSUME IInv, (\E e \in BiosMap : Detect(e)) \/ BiosFails \/ Detected
  PROVE  IInv'
<1>1. /\ step = "detect" /\ step' \in {"detect", "reserve"} /\ entry' = entry
      /\ reserve' = reserve /\ given' = given /\ linear' = linear
  BY DEF Detect, BiosFails, Detected
<1>2. smap' \in Seq(Listed)
  BY DEF IInv, TypeInv, Detect, BiosFails, Detected, Listed
<1>3. reserve = 0 /\ given = {} /\ entry = 1
  BY <1>1 DEF IInv, ReserveInv
<1>4. TypeInv' /\ ReserveInv' /\ PagesInv'
  BY <1>1, <1>2, <1>3 DEF TypeInv, ReserveInv, PagesInv
<1>5. GivesFreeMemory'
  BY <1>1, <1>3 DEF GivesFreeMemory
<1> QED BY <1>4, <1>5 DEF IInv

\* The search takes the first entry with room.
LEMMA FindReserveKeeps ==
  ASSUME IInv, FindReserve
  PROVE  IInv'
<1>1. /\ step = "reserve" /\ step' = "physical" /\ smap' = smap /\ entry' = entry
      /\ given' = given /\ linear' = linear /\ machine = "running"
  BY DEF FindReserve
<1>2. reserve = 0 /\ given = {} /\ entry = 1 /\ smap \in Seq(Listed)
  BY <1>1 DEF IInv, ReserveInv, TypeInv
<1> DEFINE with == {i \in 1 .. Len(smap) : Suitable(smap[i])}
           first == CHOOSE i \in 1 .. Len(smap) : /\ Suitable(smap[i])
                                                 /\ \A j \in 1 .. i - 1 : ~Suitable(smap[j])
<1>3. CASE with # {}
  <2>1. with \in SUBSET Nat
    BY <1>2
  <2>2. PICK i \in with : \A j \in with : i <= j
    BY <1>3, <2>1, LeastNat
  <2>3. i \in 1 .. Len(smap) /\ Suitable(smap[i]) /\ \A j \in 1 .. i - 1 : ~Suitable(smap[j])
    BY <1>2, <2>2
  <2>4. first \in 1 .. Len(smap) /\ Suitable(smap[first])
    BY <2>3
  <2>5. reserve' = Start(smap[first]) /\ machine' = machine
    BY <1>3 DEF FindReserve
  <2>6. smap[first] \in Listed
    BY <1>2, <2>4
  <2>7. reserve' \in Nat \ {0}
    BY <2>5, <2>6, StartIs, Sizes
  <2> HIDE DEF first
  <2> QED BY <1>1, <1>2, <2>4, <2>5, <2>7 DEF IInv, TypeInv, ReserveInv, PagesInv, GivesFreeMemory
<1>4. CASE with = {}
  <2>1. reserve' = reserve /\ machine' = "hang" /\ \A i \in 1 .. Len(smap) : ~Suitable(smap[i])
    BY <1>4 DEF FindReserve
  <2> QED BY <1>1, <1>2, <2>1 DEF IInv, TypeInv, ReserveInv, PagesInv, GivesFreeMemory
<1> QED BY <1>3, <1>4

\* What is given of an entry is what lies outside of the first megabyte and the reserve.
LEMMA EntryPartitioned ==
  ASSUME NEW r, IsRange(r), reserve \in Nat
  PROVE  AddressesOf(PartitionRange(r, Forbidden))
           = Addresses(r) \ (Low1MB \cup (reserve .. reserve + CHUNK - 1))
<1> DEFINE f == Interval(0, MB)
           g == Interval(reserve, reserve + CHUNK)
<1>1. /\ IsRange(f) /\ Addresses(f) = Low1MB
      /\ IsRange(g) /\ Addresses(g) = reserve .. reserve + CHUNK - 1
  BY IntervalIs, Sizes DEF IsRange, Addresses, Low1MB
<1>2. Len(Forbidden) = 2 /\ Forbidden[1] = f /\ Forbidden[2] = g
  BY DEF Forbidden
<1> HIDE DEF f, g
<1> QED BY <1>1, <1>2, Partitioned

\* Giving an entry gives its pages, and no more.
LEMMA GiveEntryKeeps ==
  ASSUME IInv, GiveEntry
  PROVE  IInv'
<1> DEFINE e == smap[entry]
           r == Rounded(e)
           parts == PartitionRange(r, Forbidden)
<1>1. /\ step = "physical" /\ machine = "running" /\ entry \in 1 .. Len(smap) /\ entry' = entry + 1
      /\ step' = step /\ smap' = smap /\ reserve' = reserve /\ linear' = linear
      /\ smap \in Seq(Listed) /\ reserve \in Nat
  BY DEF GiveEntry, IInv, TypeInv
<1>2. \/ r.s >= r.e /\ given' = given /\ machine' = machine
      \/ /\ r.s < r.e /\ given' = given \cup AddressesOf(parts)
         /\ machine' \in {"running", "fault"}
      \/ machine' = "kassert" /\ given' = given
  BY <1>1 DEF GiveEntry, AddressesOf
<1>3. e \in Listed
  BY <1>1
<1>4. /\ r.s \in Nat /\ r.e \in Nat /\ Addresses(r) \subseteq e.base .. e.base + e.size - 1
      /\ \A p \in Nat : e.base % PAGE = 0 /\ Page(p) \subseteq e.base .. e.base + e.size - 1
                       => Page(p) \subseteq Addresses(r)
  BY <1>3, RoundedIs
<1> HIDE DEF e, r, parts
<1>5. r.s < r.e => AddressesOf(parts) = Addresses(r) \ (Low1MB \cup (reserve .. reserve + CHUNK - 1))
  <2>1. r.s < r.e => IsRange(r)
    BY <1>4 DEF IsRange
  <2> QED BY <1>1, <2>1, EntryPartitioned DEF parts
<1>6. given \subseteq given' /\ (given' = given \/ (r.s < r.e /\ given' = given \cup AddressesOf(parts)))
  BY <1>2
<1>7. TypeInv' /\ ReserveInv'
  <2>1. machine' # "hang"
    BY <1>1, <1>2
  <2> QED BY <1>1, <2>1 DEF IInv, TypeInv, ReserveInv
<1>8. GivesFreeMemory'
  <2>1. Addresses(r) \subseteq FreeMemory
    <3>1. e \in {f \in BiosMap : f.free}
      BY <1>3, ListedIs
    <3>2. e.base .. e.base + e.size - 1 \subseteq FreeMemory
      BY <3>1 DEF FreeMemory
    <3> QED BY <1>4, <3>2
  <2>2. Reserve \subseteq reserve .. reserve + CHUNK - 1 /\ Reserve' = Reserve
    BY <1>1 DEF Reserve
  <2>3. GivesFreeMemory
    BY DEF IInv
  <2> QED BY <1>5, <1>6, <2>1, <2>2, <2>3 DEF GivesFreeMemory, Low1MB
<1>9. PagesInv'
  <2> SUFFICES ASSUME machine' # "kassert", NEW i \in 1 .. Len(smap), i < entry + 1
               PROVE  EntryGiven(smap[i])'
    BY <1>1 DEF PagesInv
  <2> SUFFICES ASSUME smap[i].base % PAGE = 0, NEW p \in Nat, Due(smap[i], p)
               PROVE  Page(p) \subseteq given'
    BY <1>1 DEF EntryGiven, Due, Reserve
  <2>1. CASE i < entry
    <3>1. EntryGiven(smap[i])
      BY <1>1, <2>1 DEF IInv, PagesInv
    <3> QED BY <1>6, <3>1 DEF EntryGiven
  <2>2. CASE i = entry
    <3>1. Page(p) \subseteq Addresses(r) /\ Page(p) \cap Low1MB = {} /\ Page(p) \cap Reserve = {}
      BY <1>4, <2>2 DEF Due, e
    <3>2. r.s < r.e
      <4>1. PAGE * p \in Page(p)
        BY Sizes DEF Page
      <4> QED BY <1>4, <3>1, <4>1 DEF Addresses
    <3>3. given' = given \cup AddressesOf(parts)
      BY <1>2, <3>2, <1>4
    <3>4. Page(p) \cap (reserve .. reserve + CHUNK - 1) = {}
      <4>1. reserve # 0
        BY <1>1 DEF IInv, ReserveInv
      <4> QED BY <3>1, <4>1 DEF Reserve
    <3> QED BY <1>5, <3>1, <3>2, <3>3, <3>4
  <2> QED BY <1>1, <2>1, <2>2
<1> QED BY <1>7, <1>8, <1>9 DEF IInv

\* The linear range is given around the first megabyte and the place of the reserve.
LEMMA GiveLinearKeeps ==
  ASSUME IInv, GiveLinear
  PROVE  IInv'
<1> DEFINE r == Interval(0, Linear)
           f == Interval(0, MB)
           g == Interval(CHUNK, 2 * CHUNK)
           forbids == <<f, g>>
           parts == PartitionRange(r, forbids)
<1>1. /\ step = "linear" /\ step' = "done" /\ machine = "running" /\ machine' # "hang"
      /\ smap' = smap /\ entry' = entry /\ reserve' = reserve /\ given' = given
      /\ linear' = AddressesOf(parts)
  BY DEF GiveLinear, AddressesOf
<1>2. /\ IsRange(r) /\ Addresses(r) = 0 .. Linear - 1
      /\ IsRange(f) /\ Addresses(f) = 0 .. MB - 1
      /\ IsRange(g) /\ Addresses(g) = CHUNK .. 2 * CHUNK - 1
  BY IntervalIs, Sizes DEF IsRange, Addresses
<1>i. Len(forbids) = 2 /\ forbids[1] = f /\ forbids[2] = g
  OBVIOUS
<1> HIDE DEF r, f, g, forbids
<1>3. AddressesOf(parts) = Addresses(r) \ (Addresses(f) \cup Addresses(g))
  BY <1>i, <1>2, Partitioned
<1>4. LinearGiven'
  BY <1>1, <1>2, <1>3, Sizes DEF LinearGiven
<1> HIDE DEF parts
<1>5. TypeInv' /\ ReserveInv' /\ GivesFreeMemory'
  BY <1>1 DEF IInv, TypeInv, ReserveInv, GivesFreeMemory, Reserve
<1>6. PagesInv'
  <2>1. machine' # "kassert" => machine # "kassert"
    BY DEF GiveLinear
  <2> QED BY <1>1, <1>4, <2>1 DEF IInv, PagesInv, EntryGiven, Due, Reserve
<1> QED BY <1>5, <1>6 DEF IInv

\* A step keeps the invariant.
LEMMA StepSound == IInv /\ [Next]_vars => IInv'
<1> SUFFICES ASSUME IInv, [Next]_vars PROVE IInv'
  OBVIOUS
<1>1. ASSUME (\E e \in BiosMap : Detect(e)) \/ BiosFails \/ Detected PROVE IInv'
  BY <1>1, DetectKeeps
<1>2. ASSUME FindReserve PROVE IInv'
  BY <1>2, FindReserveKeeps
<1>3. ASSUME GiveEntry PROVE IInv'
  BY <1>3, GiveEntryKeeps
<1>4. ASSUME EntriesGiven PROVE IInv'
  BY <1>4 DEF EntriesGiven, IInv, TypeInv, ReserveInv, GivesFreeMemory, PagesInv, EntryGiven, Due, Reserve
<1>5. ASSUME GiveLinear PROVE IInv'
  BY <1>5, GiveLinearKeeps
<1>6. CASE UNCHANGED vars
  BY <1>6 DEF vars, IInv, TypeInv, ReserveInv, GivesFreeMemory, PagesInv, EntryGiven, Due, Reserve, LinearGiven
<1> QED BY <1>1, <1>2, <1>3, <1>4, <1>5, <1>6 DEF Next
-----------------------------------------------------------------------------
(***************************************************************************)
(* The theorems.                                                           *)
(***************************************************************************)
\* The inductive invariant: the reserve is in the first entry with room, and of each entry that
\* was come to, every page outside of the first megabyte and the reserve is given, and
\* nothing else.
THEOREM InitializerSound == Spec => []IInv
BY InitSound, StepSound, PTL DEF Spec

\* Nothing is given to the physical space manager that is not free memory, or in the first
\* megabyte, or the reserve, whatever the BIOS reports.
THEOREM OnlyFreeMemory == Spec => []GivesFreeMemory
<1>1. IInv => GivesFreeMemory
  BY DEF IInv
<1> QED BY <1>1, InitializerSound, PTL

\* Of every entry that begins at a page, every whole page is given away, but for those.
THEOREM EveryPageGiven == Spec => []GivesAllPages
<1>1. IInv => GivesAllPages
  <2> SUFFICES ASSUME IInv, step = "done", machine = "running" PROVE GivesAllPages
    BY DEF GivesAllPages
  <2>1. /\ smap \in Seq(Listed) /\ entry > Len(smap) /\ LinearGiven
        /\ \A i \in 1 .. Len(smap) : i < entry => EntryGiven(smap[i])
    BY DEF IInv, TypeInv, PagesInv
  <2>2. ASSUME NEW i \in 1 .. Len(smap), NEW p \in Nat,
               Due(smap[i], p), smap[i].base % PAGE = 0
        PROVE  Page(p) \subseteq given
    <3>1. smap[i] \in Listed /\ i < entry
      BY <2>1 DEF IInv, TypeInv
    <3> QED BY <2>1, <2>2, <3>1 DEF EntryGiven
  <2>3. ASSUME NEW i \in 1 .. Len(smap) PROVE (smap[i].base + smap[i].size) \div PAGE \in Int
    <3>1. smap[i].base \in Nat /\ smap[i].size \in Nat
      BY ListedIs DEF IInv, TypeInv
    <3>2. smap[i].base + smap[i].size \in Nat
      BY <3>1
    <3>3. \A a \in Nat : a \div PAGE \in Int
      BY Sizes, Division
    <3> QED BY <3>2, <3>3
  <2> QED BY <2>1, <2>2, <2>3 DEF GivesAllPages, LinearGiven, Due, Page, Low1MB
<1> QED BY <1>1, InitializerSound, PTL

\* The place found for the reserve is two aligned megabytes of one free entry, above the first
\* megabyte, if no address or room lies where the comparison is wrong.
THEOREM ReservePlaced == ComparesRight => (Spec => []ReserveSuitable)
<1> SUFFICES ASSUME ComparesRight PROVE Spec => []ReserveSuitable
  OBVIOUS
<1>1. IInv => ReserveSuitable
  <2> SUFFICES ASSUME IInv, reserve # 0 PROVE \E i \in 1 .. Len(smap) : IsSuitable(smap[i], reserve)
    BY DEF ReserveSuitable
  <2>1. PICK i \in 1 .. Len(smap) : Suitable(smap[i]) /\ reserve = Start(smap[i])
    BY DEF IInv, ReserveInv
  <2> DEFINE e == smap[i]
  <2>2. e \in Listed
    BY DEF IInv, TypeInv
  <2>3. e.base \notin Negative /\ e.base \in Nat /\ e.size \in Nat
    BY <2>2, ListedIs DEF ComparesRight
  <2>4. /\ Start(e) \in Nat /\ Start(e) % CHUNK = 0 /\ Start(e) >= MB /\ Start(e) >= e.base
    BY <2>2, <2>3, StartIs
  <2>5. Room(e) >= CHUNK
    BY <2>1, <2>2, SuitableIs
  <2> HIDE DEF e
  <2>6. Start(e) + CHUNK <= e.base + e.size
    BY <2>3, <2>4, <2>5, Sizes DEF Room
  <2>7. IsSuitable(e, reserve)
    BY <2>1, <2>4, <2>6 DEF IsSuitable, e
  <2> QED BY <2>7 DEF e
<1> QED BY <1>1, InitializerSound, PTL

\* The search fails only if there is no such place.
THEOREM PlaceFound == ComparesRight => (Spec => []ReserveFound)
<1> SUFFICES ASSUME ComparesRight PROVE Spec => []ReserveFound
  OBVIOUS
<1>1. IInv => ReserveFound
  <2> SUFFICES ASSUME IInv, machine = "hang", step = "physical", NEW i \in 1 .. Len(smap),
                      NEW k \in Nat, IsSuitable(smap[i], CHUNK * k)
               PROVE  FALSE
    <3>1. ASSUME IInv, NEW j \in 1 .. Len(smap) PROVE (smap[j].base + smap[j].size) \div CHUNK \in Int
      <4>1. smap[j] \in Listed
        BY <3>1 DEF IInv, TypeInv
      <4>2. smap[j].base + smap[j].size \in Nat
        BY <4>1, ListedIs
      <4>3. \A a \in Nat : a \div CHUNK \in Int
        BY Sizes, Division
      <4> QED BY <4>2, <4>3
    <3> QED BY <3>1 DEF ReserveFound
  <2> DEFINE e == smap[i]
  <2>1. ~Suitable(e)
    BY DEF IInv, ReserveInv
  <2>2. e \in Listed
    BY DEF IInv, TypeInv
  <2>3. e.base \notin Negative /\ Room(e) \notin Negative /\ e.base \in Nat /\ e.size \in Nat
    BY <2>2, ListedIs DEF ComparesRight
  <2>4. CHUNK * k >= MB /\ CHUNK * k >= e.base /\ CHUNK * k + CHUNK <= e.base + e.size
    BY DEF IsSuitable
  <2>5. Start(e) \in Nat /\ CHUNK * k >= Start(e)
    BY <2>2, <2>3, <2>4, StartIs
  <2> HIDE DEF e
  <2>6. Room(e) >= CHUNK
    <3>1. CHUNK * k \in Int
      BY Sizes
    <3> QED BY <2>3, <2>4, <2>5, <3>1, Sizes DEF Room
  <2> QED BY <2>1, <2>2, <2>3, <2>6, SuitableIs
<1> QED BY <1>1, InitializerSound, PTL

\* Both: what initial_reserve.asm:5-7 says of the place and of its absence.
THEOREM PlaceRight == ComparesRight => (Spec => []PlaceAsSpecified)
<1> SUFFICES ASSUME ComparesRight PROVE Spec => []PlaceAsSpecified
  OBVIOUS
<1>1. Spec => []ReserveSuitable
  BY ReservePlaced
<1>2. Spec => []ReserveFound
  BY PlaceFound
<1>3. ReserveSuitable /\ ReserveFound => PlaceAsSpecified
  BY DEF PlaceAsSpecified
<1> QED BY <1>1, <1>2, <1>3, PTL
=============================================================================
