---------------------- MODULE MemoryManagerInitializer ----------------------
(***************************************************************************)
(* From the BIOS memory map to the space managers: the 16-bit stage lists  *)
(* free memory (detect_mem), finds a place for the initial reserve in it   *)
(* (find_place_for_initial_reserve) and maps that at a fixed linear        *)
(* address; MemoryManagerInitializer gives the rest of physical memory,    *)
(* and linear memory, to the space managers.  Words of the 16-bit stage    *)
(* hold WORD values and are compared as signed numbers.                    *)
(***************************************************************************)
EXTENDS Integers, Sequences

CONSTANTS
  PAGE,       \* 4096
  MB,         \* one megabyte
  CHUNK,      \* two megabytes: the size and alignment of the initial reserve
  WORD,       \* 2^32
  Linear,     \* the length of linear memory (2^47)
  MaxEntries, \* entries the list has room for (32)
  BiosMap     \* the entries [base, size, free] the BIOS may report

ASSUME SizesAssumption ==
  /\ {PAGE, MB, WORD, Linear} \subseteq Nat \ {0}
  /\ MB % PAGE = 0 /\ CHUNK = 2 * MB /\ WORD % (2 * CHUNK) = 0
  /\ Linear % CHUNK = 0 /\ Linear > 2 * CHUNK
ASSUME MapAssumption == \A e \in BiosMap : e.base \in Nat /\ e.size \in Nat /\ e.free \in BOOLEAN

VARIABLES
  step,     \* "detect", "reserve", "physical", "linear", "done"
  smap,     \* the list of free entries
  entry,    \* the next one to give to the physical space manager
  reserve,  \* where the initial reserve is, 0 before
  given,    \* the addresses PhysicalSpaceManager::free was called for
  linear,   \* the same of LinearSpaceManager
  machine   \* "running", or why it stopped: "hang", "kassert", "fault"

vars == <<step, smap, entry, reserve, given, linear, machine>>

Interval(s, e) == [s |-> s, e |-> e]
Addresses(r) == r.s .. r.e - 1
-----------------------------------------------------------------------------
(***************************************************************************)
(* detect_mem: one call of the BIOS.  An entry that is not free memory (its*)
(* type, or the bits of an extended entry) or is empty is left out; with   *)
(* no room left, or an answer that is not one, the list is dropped.        *)
(***************************************************************************)
Wanted(e) == e.free /\ e.size > 0

\* Mutation of Detect: what is not free is listed as well.
DetectAll(e) ==
  /\ machine = "running" /\ step = "detect"
  /\ Len(smap) < MaxEntries
  /\ smap' = Append(smap, e)
  /\ UNCHANGED <<step, entry, reserve, given, linear, machine>>

Detect(e) ==
  /\ machine = "running" /\ step = "detect"
  /\ \/ ~Wanted(e) /\ UNCHANGED <<smap, machine>>
     \/ Wanted(e) /\ Len(smap) < MaxEntries /\ smap' = Append(smap, e) /\ UNCHANGED machine
     \/ Wanted(e) /\ Len(smap) >= MaxEntries /\ machine' = "hang" /\ UNCHANGED smap
  /\ UNCHANGED <<step, entry, reserve, given, linear>>

BiosFails ==
  /\ machine = "running" /\ step = "detect"
  /\ machine' = "hang"
  /\ UNCHANGED <<step, smap, entry, reserve, given, linear>>

\* The BIOS has no more entries.
Detected ==
  /\ machine = "running" /\ step = "detect"
  /\ step' = "reserve"
  /\ machine' = IF smap = <<>> THEN "hang" ELSE machine
  /\ UNCHANGED <<smap, entry, reserve, given, linear>>
-----------------------------------------------------------------------------
(***************************************************************************)
(* find_place_for_initial_reserve.                                         *)
(***************************************************************************)
Low(a) == a % WORD
High(a) == a \div WORD
Signed(w) == IF w >= WORD \div 2 THEN w - WORD ELSE w

\* jge is a signed comparison: an address from 2 GB on counts as below 1 MB.
Start(e) ==
  LET s == IF High(e.base) # 0 \/ Signed(Low(e.base)) >= MB THEN e.base ELSE MB
  IN  IF s % CHUNK = 0 THEN s ELSE s - (s % CHUNK) + CHUNK

\* Mutation of Suitable: no room of exactly two megabytes.
SuitableStrictly(e) == e.base + e.size - Start(e) > CHUNK

\* So is the room, which counts as none from 2 GB on.
Suitable(e) ==
  LET room == e.base + e.size - Start(e)
  IN  room >= 0 /\ (High(room) # 0 \/ Signed(Low(room)) >= CHUNK)

FindReserve ==
  /\ machine = "running" /\ step = "reserve"
  /\ step' = "physical"
  /\ IF \E i \in 1 .. Len(smap) : Suitable(smap[i])
     THEN /\ reserve' = Start(smap[CHOOSE i \in 1 .. Len(smap) :
                                     /\ Suitable(smap[i])
                                     /\ \A j \in 1 .. i - 1 : ~Suitable(smap[j])])
          /\ UNCHANGED machine
     ELSE machine' = "hang" /\ UNCHANGED reserve
  /\ UNCHANGED <<smap, entry, given, linear>>
-----------------------------------------------------------------------------
(***************************************************************************)
(* PartitionRange: the parts of a range outside the forbidden ones.  After *)
(* the last call of the callback it reads on behind the array, where what  *)
(* it finds decides whether it returns.                                    *)
(***************************************************************************)
MinOf(a, b) == IF a <= b THEN a ELSE b
MaxOf(a, b) == IF a >= b THEN a ELSE b

\* Mutation of Outside: an else between the two comparisons.
OutsideOneSide(r, f) ==
  IF r.s < f.s THEN {Interval(r.s, MinOf(r.e, f.s))}
  ELSE IF r.e > f.e THEN {Interval(MaxOf(r.s, f.e), r.e)} ELSE {}

\* What is left of a range before and after a forbidden one.
Outside(r, f) ==
  (IF r.s < f.s THEN {Interval(r.s, MinOf(r.e, f.s))} ELSE {})
  \cup (IF r.e > f.e THEN {Interval(MaxOf(r.s, f.e), r.e)} ELSE {})

\* parts[i]: the ranges of the calls at depth i, which go around forbids[i + 1] next.
PartitionRange(r, forbids) ==
  LET parts[i \in 0 .. Len(forbids)] ==
        IF i = 0 THEN {r} ELSE UNION {Outside(p, forbids[i]) : p \in parts[i - 1]}
  IN  parts[Len(forbids)]

\* The callback's kassert, and those of the space manager's free().
Refused(parts, before) ==
  \E r \in parts :
    \/ r.e <= r.s \/ r.s % PAGE # 0 \/ (r.e - r.s) % PAGE # 0
    \/ Addresses(r) \cap before # {}
    \/ \E q \in parts : q # r /\ Addresses(q) \cap Addresses(r) # {}

\* Mutation of Rounded: the end stays where it is.
RoundedBaseOnly(e) ==
  Interval(IF e.base % PAGE = 0 THEN e.base ELSE e.base + (e.base - (e.base % PAGE)), e.base + e.size)

\* The entry as Initialize rounds it.
Rounded(e) ==
  LET end == e.base + e.size
  IN  Interval(IF e.base % PAGE = 0 THEN e.base ELSE e.base + (e.base - (e.base % PAGE)),
               end - (end % PAGE))

Forbidden == <<Interval(0, MB), Interval(reserve, reserve + CHUNK)>>

GiveEntry ==
  /\ machine = "running" /\ step = "physical" /\ entry <= Len(smap)
  /\ entry' = entry + 1
  /\ LET r     == Rounded(smap[entry])
         parts == PartitionRange(r, Forbidden)
     IN  \/ r.s >= r.e /\ UNCHANGED <<given, machine>>
         \/ /\ r.s < r.e /\ ~Refused(parts, given)
            /\ given' = given \cup UNION {Addresses(p) : p \in parts}
            /\ machine' \in (IF parts = {} THEN {machine} ELSE {machine, "fault"})
         \/ r.s < r.e /\ Refused(parts, given) /\ machine' = "kassert" /\ UNCHANGED given
  /\ UNCHANGED <<step, smap, reserve, linear>>

EntriesGiven ==
  /\ machine = "running" /\ step = "physical" /\ entry > Len(smap)
  /\ step' = "linear"
  /\ UNCHANGED <<smap, entry, reserve, given, linear, machine>>

\* Linear memory; the initial reserve is mapped at its second two megabytes.
GiveLinear ==
  /\ machine = "running" /\ step = "linear"
  /\ step' = "done"
  /\ LET parts == PartitionRange(Interval(0, Linear),
                                 <<Interval(0, MB), Interval(CHUNK, 2 * CHUNK)>>)
     IN  /\ linear' = UNION {Addresses(p) : p \in parts}
         /\ machine' \in (IF Refused(parts, {}) THEN {"kassert"} ELSE {machine, "fault"})
  /\ UNCHANGED <<smap, entry, reserve, given>>
-----------------------------------------------------------------------------
Init ==
  /\ step = "detect" /\ smap = <<>> /\ entry = 1
  /\ reserve = 0 /\ given = {} /\ linear = {} /\ machine = "running"

Next ==
  \/ \E e \in BiosMap : Detect(e)
  \/ BiosFails
  \/ Detected
  \/ FindReserve
  \/ GiveEntry
  \/ EntriesGiven
  \/ GiveLinear

Spec == Init /\ [][Next]_vars
-----------------------------------------------------------------------------
\* The memory the BIOS reported as free.
FreeMemory == UNION {e.base .. e.base + e.size - 1 : e \in {e \in BiosMap : e.free}}
Reserve == IF reserve = 0 THEN {} ELSE reserve .. reserve + CHUNK - 1

\* Nothing is given to the physical space manager that is not free memory, that
\* the boot loader itself is in, or that the reserve is in.
GivesFreeMemory ==
  /\ given \subseteq FreeMemory
  /\ given \cap (0 .. MB - 1) = {} /\ given \cap Reserve = {}

\* At the end every whole page of every entry that begins at a page has been given
\* away, but for those, however the reserve lies across entries.
GivesAllPages ==
  step = "done" /\ machine = "running" =>
    /\ \A i \in 1 .. Len(smap) : \A p \in 0 .. (smap[i].base + smap[i].size) \div PAGE :
         LET page == (PAGE * p) .. (PAGE * p + PAGE - 1)
         IN  /\ smap[i].base % PAGE = 0
             /\ page \subseteq smap[i].base .. smap[i].base + smap[i].size - 1
             /\ page \cap (0 .. MB - 1) = {} /\ page \cap Reserve = {}
             => page \subseteq given
    /\ linear = (MB .. Linear - 1) \ (CHUNK .. 2 * CHUNK - 1)

\* initial_reserve.asm:7: the place found is two aligned megabytes of one free
\* range above the first megabyte.
IsSuitable(e, s) ==
  s >= MB /\ s % CHUNK = 0 /\ s >= e.base /\ s + CHUNK <= e.base + e.size
ReserveSuitable ==
  reserve # 0 => \E i \in 1 .. Len(smap) : IsSuitable(smap[i], reserve)

\* initial_reserve.asm:5: no place is found only if there is none.
ReserveFound ==
  machine = "hang" /\ step = "physical" =>
    \A i \in 1 .. Len(smap) : \A k \in 0 .. (smap[i].base + smap[i].size) \div CHUNK :
      ~IsSuitable(smap[i], CHUNK * k)

\* initial_reserve.asm:5-7, the whole of it.
PlaceAsSpecified == ReserveSuitable /\ ReserveFound

\* Boot stops at a kassert only if the BIOS reported an entry that begins inside a
\* page, or two that overlap: rounded ends, and parts around the first megabyte and
\* the reserve, are whole pages that were not given before.
Overlap(d, e) == d.base < e.base + e.size /\ e.base < d.base + d.size
RefusesJustly ==
  machine = "kassert" =>
    \E i \in 1 .. Len(smap) :
      \/ smap[i].base % PAGE # 0
      \/ \E j \in 1 .. i - 1 : Overlap(smap[i], smap[j])

\* PhysicalSpaceManager.cpp:27: free() is called with whole pages, that are not
\* free yet.
NoKassertFails == machine # "kassert"
=============================================================================
