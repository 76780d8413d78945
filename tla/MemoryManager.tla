--------------------------- MODULE MemoryManager ---------------------------
(***************************************************************************)
(* memory/MemoryManager with the parts it composes: the physical and the   *)
(* linear space manager (as the pools that PagePool describes, and the     *)
(* tree nodes they need), the Pager's tree of page tables, and the reserve *)
(* that page tables and tree nodes are allocated from.  The reserve gets   *)
(* its own memory from MemoryManager::alloc: when an operation of a space  *)
(* manager, of the Pager or of the reserve ends and the reserve is low (or *)
(* has too much), a further MemoryManager call starts inside the call that *)
(* is under way.  The stack holds the calls, innermost first.              *)
(*                                                                         *)
(* Everything is a multiple of a chunk (2 MB): a slot of linear memory, a  *)
(* frame of physical memory; the page table of a slot is its table of      *)
(* height 0.  The tables above it are shared by Fan slots, Fan^2 slots...  *)
(***************************************************************************)
EXTENDS Integers, Sequences, FiniteSets

CONSTANTS
  Slots,        \* 1 .. n: slots of linear memory; the initial reserve is in 1
  LinearSpaces, \* the sets of slots that linear memory may consist of
  Frames,       \* 1 .. m: frames of physical memory; it occupies 1
  Fan,          \* entries of a page table that is not of height 0
  Levels,       \* heights of tables below the root (3 in the code)
  ELength,      \* units in a chunk (254)
  MinUnits,     \* the reserve renews itself at or below this many units (8)
  MaxUnits,     \* and gives chunks back above this many (500)
  NodesPerUnit, \* tree nodes in a unit (169 of the AvlTree, 127 of the AslrTree)
  MaxNodes,     \* a node heap gives units back above this many free nodes (400)
  LeakBound     \* bound: calls of alloc() that fail

ASSUME SlotsAssumption ==
  /\ IsFiniteSet(Slots) /\ Slots = 1 .. Cardinality(Slots)
  /\ IsFiniteSet(Frames) /\ Frames = 1 .. Cardinality(Frames) /\ 1 \in Frames
  /\ \A L \in LinearSpaces : L \subseteq Slots /\ 1 \in L
ASSUME TreeAssumption == Fan \in Nat \ {0, 1} /\ Levels \in Nat \ {0}
\* The kasserts of the constructor, and: the initial reserve is not low at once.
ASSUME ReserveAssumption ==
  /\ {MinUnits, MaxUnits, ELength, NodesPerUnit, MaxNodes} \subseteq Nat
  /\ ELength - 2 > MinUnits /\ MaxUnits - MinUnits >= ELength
  /\ NodesPerUnit >= 3 /\ MaxNodes >= NodesPerUnit

VARIABLES
  freeLin,   \* the slots LinearSpaceManager's trees hold
  freePhys,  \* the frames PhysicalSpaceManager's trees hold
  map,       \* the page tree's leaves: slot -> frame, 0 if not present
  linked,    \* the page tables that an entry of their parent points to
  reserve,   \* MemoryReserveManager's heap, and the heaps of tree nodes
  user,      \* the slots callers other than the reserve hold
  stack,     \* MemoryManager calls under way, innermost first
  leaked,    \* locks a failed call of a space manager did not release
  machine    \* "running", or why it stopped

vars == <<freeLin, freePhys, map, linked, reserve, user, stack, leaked, machine>>

Heaps == {"avl", "aslr"}

\* The tables a walk to a slot goes through, but for those the 16-bit stage
\* made, which are on the way to the first megabyte and are never freed.
TableOf(slot, h) ==
  LET index[k \in 0 .. Levels] == IF k = 0 THEN slot ELSE index[k - 1] \div Fan
  IN  <<h, index[h]>>
Static(t) == t[2] = 0
Path(slot) == {t \in {TableOf(slot, h) : h \in 0 .. Levels - 1} : ~Static(t)}
Tables == UNION {Path(s) : s \in Slots}

\* A MemoryManager call: what it is, who called it, the step it is at, the slot
\* and the frame it works on, and the height pageout is at.
Call(call, by, at, slot) ==
  [call |-> call, by |-> by, at |-> at, slot |-> slot, frame |-> 0, height |-> 0]
-----------------------------------------------------------------------------
(***************************************************************************)
(* The reserve: r is a value of the variable.                              *)
(***************************************************************************)
Hosted(r, c) ==
  Cardinality({t \in Tables : r.home[t] = c}) + r.nodeUnits["avl"][c] + r.nodeUnits["aslr"][c]

\* numAvailableUnits: the units of its chunks that are not in use.
Units(r) == Cardinality({unit \in r.chunks \X (1 .. ELength) : unit[2] > Hosted(r, unit[1])})

Empty(r) == {c \in r.chunks : Hosted(r, c) = 0}

\* alloc(): from a chunk of the nonempty list, else of the empty one.  The
\* callers hold a lock, so it does not renew the reserve.
Sources(r) ==
  LET partly == {c \in r.chunks : Hosted(r, c) \in 1 .. ELength - 1}
  IN  IF partly # {} THEN partly ELSE Empty(r)

\* Mutation of NodeTaken: every node takes a unit of its own.
NodeTakesUnit(r, h) == {[r EXCEPT !.nodeUnits[h][c] = @ + 1] : c \in Sources(r)}

\* A tree node is allocated, or freed, by one of the heaps of nodes; both have
\* minUnits = 0.  Where its objects lie in its units is left open.
NodeTaken(r, h) ==
  IF r.nodes[h] > 0 THEN {[r EXCEPT !.nodes[h] = @ - 1]}
  ELSE {[r EXCEPT !.nodes[h] = NodesPerUnit - 1, !.nodeUnits[h][c] = @ + 1] : c \in Sources(r)}

NodeGiven(r, h) ==
  LET q == [r EXCEPT !.nodes[h] = @ + 1]
  IN  {q} \cup (IF q.nodes[h] > MaxNodes
                THEN {[q EXCEPT !.nodes[h] = @ - NodesPerUnit, !.nodeUnits[h][c] = @ - 1] :
                        c \in {c \in q.chunks : q.nodeUnits[h][c] > 0}}
                ELSE {})

NodeChanged(r, op, h) == IF op = "take" THEN NodeTaken(r, h) ELSE NodeGiven(r, h)

\* The reserves that result from n such operations in a row: none if it runs dry.
Repeat(n, op, R, h) ==
  LET after[k \in 0 .. n] == IF k = 0 THEN R ELSE UNION {NodeChanged(r, op, h) : r \in after[k - 1]}
  IN  after[n]

\* AddressSpaceManager: the ranges deleted from and added to a tree when slots
\* are taken from one range, or given back and merged with their neighbours.
Ranges(free) == Cardinality({s \in free : s - 1 \notin free})
RangesChanged(before, after) ==
  IF after \subseteq before THEN <<1, Ranges(after) - Ranges(before) + 1>>
  ELSE <<Ranges(before) - Ranges(after) + 1, 1>>

\* Both trees of the physical manager, and the tree by start of the linear one,
\* hold avl nodes; the linear tree by length holds aslr nodes.
PhysicalTrees(r, before, after) ==
  LET n == RangesChanged(before, after)
  IN  Repeat(2 * n[2], "take", Repeat(2 * n[1], "give", {r}, "avl"), "avl")

LinearTrees(r, before, after) ==
  LET n == RangesChanged(before, after)
      deleted == Repeat(n[1], "give", Repeat(n[1], "give", {r}, "aslr"), "avl")
  IN  Repeat(n[2], "take", Repeat(n[2], "take", deleted, "aslr"), "avl")
-----------------------------------------------------------------------------
(***************************************************************************)
(* What follows a step.  calls is the stack with the call that took the    *)
(* step as it goes on.                                                     *)
(***************************************************************************)
Settle(r, calls) == reserve' = r /\ stack' = calls

Locked(r) == [r EXCEPT !.lockCnt = @ + 1]
Unlocked(r) == [r EXCEPT !.lockCnt = @ - 1]

\* PrimitiveHeap::trim: an empty chunk leaves the heap and is freed by a call of
\* MemoryManager::free.
MustTrim(r) == Units(r) > MaxUnits /\ Empty(r) # {}

\* Mutation of Trim: the chunk stays in the heap's lists.
TrimKeepsChunk(r, calls, by) ==
  \E c \in Empty(r) : Settle(r, <<Call("free", by, "pageout", c)>> \o calls)

Trim(r, calls, by) ==
  \E c \in Empty(r) :
    LET q == [r EXCEPT !.chunks = @ \ {c}]
    IN  Settle(q, <<Call("free", by, "pageout", c)>> \o calls)

\* MemoryReserveManager::unlock.
Unlock(r, calls) ==
  \/ r.lockCnt > 1 /\ Settle(Unlocked(r), calls)
  \/ /\ r.lockCnt = 1 /\ Units(r) <= MinUnits
     /\ Settle(r, <<Call("alloc", "renew", "phys", 0)>> \o calls)
  \/ r.lockCnt = 1 /\ Units(r) > MinUnits /\ MustTrim(r) /\ Trim(r, calls, "trim")
  \/ /\ r.lockCnt = 1 /\ Units(r) > MinUnits /\ ~MustTrim(r)
     /\ Settle(Unlocked(r), calls)

\* The rest of MemoryReserveManager::free, which locks the reserve if it is not.
TrimAndUnlock(r, calls) ==
  \/ MustTrim(r) /\ Trim(r, calls, "trimInFree")
  \/ ~MustTrim(r) /\ Unlock(r, calls)

UnitFreed(r, calls) ==
  \/ r.lockCnt > 0 /\ Settle(r, calls)
  \/ r.lockCnt = 0 /\ TrimAndUnlock(Locked(r), calls)

\* The kassert of PrimitiveHeap::alloc fails: the reserve has no unit.  (What the
\* other kasserts refuse never happens, and is stated below as invariants.)
Halt(why) ==
  /\ machine' = why
  /\ UNCHANGED <<freeLin, freePhys, map, linked, reserve, user, stack, leaked>>

\* A step of a space manager under its lock, R the reserves that may result.
UnderLock(R, calls) == \E r \in R : Unlock(r, calls)

Top == Head(stack)
Rest == Tail(stack)
GoesOn(step) == <<[Top EXCEPT !.at = step]>> \o Rest
At(call, step) == machine = "running" /\ stack # <<>> /\ Top.call = call /\ Top.at = step
-----------------------------------------------------------------------------
\* The free range of the fewest frames, its lowest frame (best fit).
RunFrom(free, f) == {g \in free : g >= f /\ f .. g \subseteq free}
BestFit(free) ==
  LET starts == {f \in free : f - 1 \notin free}
      size(f) == Cardinality(RunFrom(free, f))
  IN  CHOOSE f \in starts : \A g \in starts : size(f) < size(g) \/ (size(f) = size(g) /\ f <= g)

\* alloc(): PhysicalSpaceManager::alloc.  Without a range that is long enough it
\* returns with its lock taken, and alloc() returns NULL: a chunk is as short as
\* a free range can be, but other callers may ask for any length.
AllocPhysical ==
  /\ At("alloc", "phys")
  /\ freePhys # {}
  /\ LET f     == BestFit(freePhys)
         after == freePhys \ {f}
         R     == PhysicalTrees(Locked(reserve), freePhys, after)
     IN  \/ R = {} /\ Halt("dry")
         \/ /\ freePhys' = after
            /\ UnderLock(R, <<[Top EXCEPT !.at = "lin", !.frame = f]>> \o Rest)
            /\ UNCHANGED <<freeLin, map, linked, user, leaked, machine>>

AllocNoPhysical ==
  /\ At("alloc", "phys")
  /\ freePhys = {} \/ (Top.by = "user" /\ leaked < LeakBound)
  /\ leaked' = leaked + 1
  /\ Settle(Locked(reserve), GoesOn("return"))
  /\ UNCHANGED <<freeLin, freePhys, map, linked, user, machine>>

\* LinearSpaceManager::allocAslr searches for align-1 bytes more than a slot: a free
\* range of a single slot is too short, of a longer one any slot may be answered.
Placeable(free) == {s \in free : s - 1 \in free \/ s + 1 \in free}

\* If there is none, alloc() gives the frame back.
AllocLinear(s) ==
  /\ At("alloc", "lin")
  /\ s \in Placeable(freeLin)
  /\ LET after == freeLin \ {s}
         R     == LinearTrees(Locked(reserve), freeLin, after)
     IN  \/ R = {} /\ Halt("dry")
         \/ /\ freeLin' = after
            /\ UnderLock(R, <<[Top EXCEPT !.at = "pagein", !.slot = s]>> \o Rest)
            /\ UNCHANGED <<freePhys, map, linked, user, leaked, machine>>

\* Mutation of AllocNoLinear: the frame is not given back.
AllocNoLinearKeepsFrame ==
  /\ At("alloc", "lin")
  /\ Placeable(freeLin) = {}
  /\ leaked' = leaked + 1
  /\ Settle(Locked(reserve), <<[Top EXCEPT !.at = "return", !.frame = 0]>> \o Rest)
  /\ UNCHANGED <<freeLin, freePhys, map, linked, user, machine>>

AllocNoLinear ==
  /\ At("alloc", "lin")
  /\ Placeable(freeLin) = {}
  /\ leaked' = leaked + 1
  /\ Settle(Locked(reserve), GoesOn("giveBack"))
  /\ UNCHANGED <<freeLin, freePhys, map, linked, user, machine>>

GiveBack ==
  /\ At("alloc", "giveBack")
  /\ LET after == freePhys \cup {Top.frame}
         R     == PhysicalTrees(Locked(reserve), freePhys, after)
     IN  \/ R = {} /\ Halt("dry")
         \/ /\ freePhys' = after
            /\ UnderLock(R, <<[Top EXCEPT !.at = "return", !.frame = 0]>> \o Rest)
            /\ UNCHANGED <<freeLin, map, linked, user, leaked, machine>>
-----------------------------------------------------------------------------
\* Pager::pagein, from the root down: each table that is missing on the way is
\* allocated under a lock of its own; then the page is mapped.
Missing(slot) == Path(slot) \ linked
PageinTable ==
  /\ At("alloc", "pagein")
  /\ \E t \in Missing(Top.slot) :
       /\ \A u \in Missing(Top.slot) : u[1] <= t[1]
       /\ LET R == {[Locked(reserve) EXCEPT !.home[t] = c] : c \in Sources(reserve)}
          IN  \/ R = {} /\ Halt("dry")
              \/ /\ linked' = linked \cup {t}
                 /\ UnderLock(R, stack)
                 /\ UNCHANGED <<freeLin, freePhys, map, user, leaked, machine>>

PageinPage ==
  /\ At("alloc", "pagein")
  /\ Missing(Top.slot) = {}
  /\ map' = [map EXCEPT ![Top.slot] = Top.frame]
  /\ Settle(reserve, GoesOn("return"))
  /\ UNCHANGED <<freeLin, freePhys, linked, user, leaked, machine>>
-----------------------------------------------------------------------------
\* Mutation of PageoutPage: the entry of the page stays.
PageoutKeepsPage ==
  /\ At("free", "pageout")
  /\ Top.height = 0
  /\ UNCHANGED map
  /\ LET t     == TableOf(Top.slot, 0)
         calls == <<[Top EXCEPT !.frame = map[Top.slot], !.height = 1]>> \o Rest
     IN  IF t \in linked THEN UnitFreed([reserve EXCEPT !.home[t] = 0], calls)
         ELSE Settle(reserve, calls)
  /\ UNCHANGED <<freeLin, freePhys, linked, user, leaked, machine>>

\* free(): the frame is looked up; Pager::pageout clears the page and frees the
\* table it is in, which holds no other.  (The 16-bit stage mapped the initial
\* reserve as one large page, without such a table.)
PageoutPage ==
  /\ At("free", "pageout")
  /\ Top.height = 0
  /\ map' = [map EXCEPT ![Top.slot] = 0]
  /\ LET t     == TableOf(Top.slot, 0)
         calls == <<[Top EXCEPT !.frame = map[Top.slot], !.height = 1]>> \o Rest
     IN  IF t \in linked THEN UnitFreed([reserve EXCEPT !.home[t] = 0], calls)
         ELSE Settle(reserve, calls)
  /\ UNCHANGED <<freeLin, freePhys, linked, user, leaked, machine>>

\* Back in the table of the next height (the root at last): the child that was
\* freed is unlinked, and a table without children is freed as well.  The lock
\* is not taken: between the two steps a trim may begin.
Children(t, tables) == {u \in tables : u[1] = t[1] - 1 /\ u[2] \div Fan = t[2]}

\* Mutation of PageoutTable: the entry of a freed table stays.
PageoutKeepsLink ==
  /\ At("free", "pageout")
  /\ Top.height > 0
  /\ LET t == TableOf(Top.slot, Top.height)
     IN  IF Top.height = Levels \/ Static(t) \/ Children(t, linked) # {}
         THEN Settle(reserve, GoesOn("phys"))
         ELSE UnitFreed([reserve EXCEPT !.home[t] = 0],
                        <<[Top EXCEPT !.height = @ + 1]>> \o Rest)
  /\ UNCHANGED <<freeLin, freePhys, map, linked, user, leaked, machine>>

PageoutTable ==
  /\ At("free", "pageout")
  /\ Top.height > 0
  /\ linked' = linked \ {TableOf(Top.slot, Top.height - 1)}
  /\ LET t == TableOf(Top.slot, Top.height)
     IN  IF Top.height = Levels \/ Static(t) \/ Children(t, linked') # {}
         THEN Settle(reserve, GoesOn("phys"))
         ELSE UnitFreed([reserve EXCEPT !.home[t] = 0],
                        <<[Top EXCEPT !.height = @ + 1]>> \o Rest)
  /\ UNCHANGED <<freeLin, freePhys, map, user, leaked, machine>>

\* PhysicalSpaceManager::free, then LinearSpaceManager::free.
FreePhysical ==
  /\ At("free", "phys")
  /\ LET after == freePhys \cup {Top.frame}
         R     == PhysicalTrees(Locked(reserve), freePhys, after)
     IN  \/ R = {} /\ Halt("dry")
         \/ /\ freePhys' = after
            /\ UnderLock(R, GoesOn("lin"))
            /\ UNCHANGED <<freeLin, map, linked, user, leaked, machine>>

FreeLinear ==
  /\ At("free", "lin")
  /\ LET after == freeLin \cup {Top.slot}
         R     == LinearTrees(Locked(reserve), freeLin, after)
     IN  \/ R = {} /\ Halt("dry")
         \/ /\ freeLin' = after
            /\ UnderLock(R, GoesOn("return"))
            /\ UNCHANGED <<freePhys, map, linked, user, leaked, machine>>
-----------------------------------------------------------------------------
\* The call returns to its caller: the reserve embraces the chunk, or looks
\* whether it must trim again, and ends the unlock() or free() it was in.
\* (Without a chunk it writes to page 0, which is paged out.)
AllocReturns ==
  /\ At("alloc", "return")
  /\ \/ /\ Top.by = "user"
        /\ user' = IF Top.frame = 0 THEN user ELSE user \cup {Top.slot}
        /\ Settle(reserve, Rest)
        /\ UNCHANGED <<freeLin, freePhys, map, linked, leaked, machine>>
     \/ /\ Top.by = "renew" /\ Top.frame # 0
        /\ Settle(Unlocked([reserve EXCEPT !.chunks = @ \cup {Top.slot}]), Rest)
        /\ UNCHANGED <<freeLin, freePhys, map, linked, user, leaked, machine>>
     \/ Top.by = "renew" /\ Top.frame = 0 /\ Halt("fault")

FreeReturns ==
  /\ At("free", "return")
  /\ \/ Top.by = "user" /\ Settle(reserve, Rest)
     \/ Top.by = "trim" /\ MustTrim(reserve) /\ Trim(reserve, Rest, "trim")
     \/ Top.by = "trim" /\ ~MustTrim(reserve) /\ Settle(Unlocked(reserve), Rest)
     \/ Top.by = "trimInFree" /\ TrimAndUnlock(reserve, Rest)
  /\ UNCHANGED <<freeLin, freePhys, map, linked, user, leaked, machine>>

\* The kernel calls MemoryManager::alloc and MemoryManager::free.
UserAlloc ==
  /\ machine = "running" /\ stack = <<>>
  /\ leaked < LeakBound \/ (freePhys # {} /\ Placeable(freeLin) # {})
  /\ stack' = <<Call("alloc", "user", "phys", 0)>>
  /\ UNCHANGED <<freeLin, freePhys, map, linked, reserve, user, leaked, machine>>

UserFree(s) ==
  /\ machine = "running" /\ stack = <<>> /\ s \in user
  /\ user' = user \ {s}
  /\ stack' = <<Call("free", "user", "pageout", s)>>
  /\ UNCHANGED <<freeLin, freePhys, map, linked, reserve, leaked, machine>>
-----------------------------------------------------------------------------
\* After MemoryManagerInitializer::Initialize: each space is one free range, and
\* each heap of nodes has a unit of the initial reserve.
Init ==
  /\ freeLin \in {L \ {1} : L \in LinearSpaces}
  /\ freePhys = Frames \ {1}
  /\ map = [s \in Slots |-> IF s = 1 THEN 1 ELSE 0]
  /\ linked = {}
  /\ reserve = [chunks |-> {1},
                home |-> [t \in Tables |-> 0],
                nodeUnits |-> [h \in Heaps |-> [s \in Slots |-> IF s = 1 THEN 1 ELSE 0]],
                nodes |-> [avl |-> NodesPerUnit - 3, aslr |-> NodesPerUnit - 1],
                lockCnt |-> 0]
  /\ user = {}
  /\ stack = <<>>
  /\ leaked = 0
  /\ machine = "running"

Step ==
  \/ AllocPhysical \/ AllocNoPhysical
  \/ (\E s \in Slots : AllocLinear(s)) \/ AllocNoLinear \/ GiveBack
  \/ PageinTable \/ PageinPage
  \/ PageoutPage \/ PageoutTable
  \/ FreePhysical \/ FreeLinear
  \/ AllocReturns \/ FreeReturns

Next ==
  \/ Step
  \/ UserAlloc
  \/ \E s \in Slots : UserFree(s)

\* The one thread of the kernel runs: a call under way goes on.
Spec == Init /\ [][Next]_vars /\ WF_vars(Step)
-----------------------------------------------------------------------------
\* Between calls the lock is free, and the next call begins with more than
\* MinUnits units.
RestsReady ==
  stack = <<>> /\ leaked = 0 => reserve.lockCnt = 0 /\ Units(reserve) > MinUnits

\* As long as no lock was leaked, no allocation finds the reserve empty, in whatever
\* call of whatever call it is made, and each call leaves it ready for the next.
NeverDry == (machine = "dry" => leaked > 0) /\ RestsReady

\* The kasserts of Pager::pagein: no call, however nested, is given a slot that
\* is still mapped by another one, and none maps a frame that is mapped.
NeverRemaps ==
  /\ At("alloc", "pagein") => map[Top.slot] = 0
  /\ \A s, t \in Slots : map[s] # 0 /\ map[s] = map[t] => s = t

\* No walk of the page tree reads a page table that has been given back, though
\* pageout frees a table before it unlinks it and may be interrupted between.
Walks ==
  {s \in Slots : /\ At("alloc", "pagein") \/ At("free", "pageout")
                 /\ Top.slot = s /\ Top.height = 0}
WalksLiveTables ==
  \A s \in Walks \cup user \cup reserve.chunks, t \in Tables :
    t \in Path(s) \cap linked => reserve.home[t] \in reserve.chunks

\* Every slot is free, or in the hands of exactly one caller, of the reserve or
\* of a call under way, and what they hold is mapped.
Underway == {stack[k].slot : k \in {k \in 1 .. Len(stack) : stack[k].slot # 0}}
SlotsAccounted ==
  /\ \A s \in user \cup reserve.chunks : s \notin freeLin /\ map[s] # 0
  /\ user \cap reserve.chunks = {}
  /\ freeLin \cup user \cup reserve.chunks \cup Underway \in LinearSpaces
  /\ stack = <<>> => Cardinality(freePhys) + Cardinality({s \in Slots : map[s] # 0})
                      = Cardinality(Frames)

\* MemoryReserveManager.h:21: the reserve is locked while the page tree is in
\* the middle of an operation, so no call begins in another one's pageout.
LockedWhileUnstable ==
  \A k \in 2 .. Len(stack) : \A t \in linked : reserve.home[t] # 0

\* MemoryManager.h:117: alloc() "Returns NULL for error".  That memory runs out, for a
\* caller or for the reserve in the middle of another call, stops nothing, and once
\* all calls have returned no lock is left (PrimitiveHeap.h:63).
FailsWithNull == machine # "fault" /\ (stack = <<>> => reserve.lockCnt = 0)

\* Every call returns, with all the renewals and trims it sets off; the machine
\* stops on the way only after a call of alloc() failed.
CallsReturn == stack # <<>> ~> stack = <<>> \/ (machine # "running" /\ leaked > 0)
=============================================================================
