# Formal models of cerius

cerius is a boot loader and small kernel for the PC: a boot sector loads a
16-bit stage, which enters long mode and starts a single-threaded 64-bit stage
in C++. What it does there is manage memory (physical, linear, page tables, a
heap) and read disks. This directory holds TLA+ models of that code, the TLC
configurations that check them, and TLAPS proofs.

Run everything from this directory: `tlc -config X.cfg MCX` for a run,
`tlapm XProofs.tla` for the proofs.

## 1. Inventory

All paths are under `src/bootloader/`. The kernel has one thread, and its
interrupt handlers touch none of the state below. Two things make it hard. The
first is **re-entrancy**: the allocators call one another in a circle. Managing
free memory takes tree nodes; tree nodes come from the
reserve; the reserve is refilled by `MemoryManager::alloc`, which changes the
very trees and page tables that asked for memory. Code after an `unlock()` or a
`free()` may find everything changed. The second is the **devices**: the disk
drivers poll controllers and drives that go on by themselves, late, or with errors,
and the processor remembers translations that the page tables no longer have.

| Part | State | Operations | Depends on |
|---|---|---|---|
| `common/RangePair`, `memory/AvlTree` | balanced tree of pairs | add, del, findBound | a heap of nodes |
| `memory/AslrTree` | the same, with sums per subtree | findRandomRange | AvlTree |
| `memory/AddressSpaceManager` | none (works on two trees) | allocSubrangeFromSuperRange, alloc, free | the trees |
| `memory/PhysicalSpaceManager` | two trees, availableMemory | alloc (best fit), free | the reserve's lock |
| `memory/LinearSpaceManager` | two trees | allocAslr (random), free | the reserve's lock |
| `memory/PrimitiveHeap` | chunks in two lists, bitmaps, counters, lockCnt | alloc, free, lock, unlock | an Allocator and a Deallocator |
| `memory/Reserve` | a PrimitiveHeap of 8 KB units in 2 MB chunks | alloc, free, lock, unlock | MemoryManager |
| `memory/Pager` | the page tree | pagein, pageout, lintophy | the reserve, the processor |
| `memory/MemoryManager` | none | alloc, free | both managers, Pager |
| `memory/Initializer` | none | Initialize, PartitionRange | all of the above |
| `memory/Heap` | trees of free ranges and objects, heaps per size, a cache | new, delete | MemoryManager, PrimitiveHeap |
| `shared_ptr` | a pointer and a count each | copy, assign, reset, destroy | Heap |
| `drivers/Ata/Ahci` | a disk's controller, port and capacity; command tables; registers | EnumerateDisks, Init, Identify, Read | PCI, MemoryManager, shared_ptr, controllers |
| `drivers/Ata/Ide` | a disk's place and capacity; registers | EnumerateDisks, Init, Identify, Read | PCI, drives |
| `bit16` | memory map, initial reserve, first page tables | boot | BIOS |
| `drivers/pci`, GPT, MBR | none | enumerate, parse | drivers |
| `drivers/display8025_col`, `ps2kbd`, `interrupt`, `bootsector` | screen, descriptor tables | output, boot | hardware |

### What makes each part correct

* **Space managers.** The two trees describe the same ranges; ranges are
  maximal; every byte is free or held; an allocation fails only if no run of
  free memory is long enough; what is answered is aligned as asked; the
  reserve's lock is released on every path.
* **PrimitiveHeap.** No object is handed out twice, no chunk is given back with
  an object in use, counters agree with bitmaps, lists with counters, whatever
  the Allocator and the Deallocator call in the middle; renewals do not nest.
* **MemoryManager with the reserve and the Pager.** The reserve is never empty
  when a table or a node is needed; the threshold for renewal covers a renewal;
  no walk reads a freed table; no slot is mapped twice; every call returns.
* **Pager.** A call maps or unmaps its range and nothing else; every table is linked
  from one place or free; no stale translation is used.
* **AvlTree, AslrTree.** The tree is the set its callers take it for, balanced
  by the heights it caches, without losing or leaking an entry; the random search
  answers with every place of the size, evenly.
* **Initializer.** What is given to the space managers is free, whole pages,
  outside of the first megabyte and of the reserve, and complete; the reserve is
  where it may be.
* **Heap.** Every live object has bytes of its own, every mapped byte one use; an
  object returns to where it came from.
* **shared_ptr.** A count is the number of pointers; what is in use lives.
* **AHCI, IDE.** What a call answers true to is in the buffer; devices write nowhere
  else; a port's memory is moved only while it is stopped; every call returns.
* **Hazards** are listed one by one, with their lines, in `PROJECT.json`.

## 2. Modules

| Module | Models |
|---|---|
| `RangePair` | the order of pairs, `findBound` over a set |
| `AddressSpaceManager` | the bookkeeping shared by both managers |
| `PhysicalSpaceManager`, `LinearSpaceManager` | the managers; EXTEND the above |
| `PagePool` | abstract: what a space manager promises its callers |
| `AddressSpaceProofs`, `PhysicalSpaceProofs`, `LinearSpaceProofs` | theorems about the managers |
| `PrimitiveHeap` | the heap with re-entrant callbacks |
| `PrimitiveHeapProofs` | theorems about the heap and its lists |
| `MemoryManager` | the circle: managers (as pools), Pager, reserve, node heaps |
| `MemoryManagerProofs` | theorems about the ownership of slots and frames, the reserve and the page tables |
| `AvlTree` | the balanced tree; implements `OrderedSet` |
| `OrderedSet` | abstract: what the tree promises its callers |
| `AslrTree` | the random search; EXTENDS `AvlTree` |
| `Pager` | the page tree for any range, both sizes of pages, the processor's translations; implements `PageMap` |
| `PageMap` | abstract: what the Pager promises its callers |
| `MemoryManagerInitializer` | BIOS map, initial reserve, and what the managers are given |
| `InitializerProofs` | theorems about what is given and where the reserve is |
| `Heap` | `new` and `delete`; uses `AddressSpaceManager`'s bookkeeping |
| `ObjectPool` | abstract: what `new` and `delete` promise |
| `HeapProofs` | theorems about `new` and `delete`, and that they implement `ObjectPool` |
| `SharedPtr` | operations on shared pointers, as operators |
| `Ahci`, `Ide` | the two disk drivers, each with its devices |
| `Storage` | both drivers on one machine, with one thread; uses the three above |
| `StorageProofs` | theorems about both drivers, within `Storage` |
| `MC*` | instances for TLC |

### State and actions

**AddressSpaceManager.** `treeStart` holds `[x |-> start, y |-> length]`,
`treeLength` the pairs flipped, as in the code. `Before`/`After` are the two
`findBound` calls of `free`, `MergedBefore`/`MergedAfter` what it deletes, and
`AlreadyFree` its two kasserts. A failing kassert prints and halts the CPU: the
model sets `halted` and nothing happens afterwards. `held` (what callers hold)
and `last` (the last answer) are history. `lockCnt` counts unmatched calls of
`MemoryReserveManager::lock`.

**PrimitiveHeap.** One action per entry point, and one per return of a
callback. An action runs up to the next callback: this is where the code can be
interrupted, and only there. `stack` holds the calls that wait. Between a
callback's start and its return any entry point may be called, as
`MemoryManager::alloc` does, under the documented rule (PrimitiveHeap.h:62)
that locks are paired and that nobody allocates from a locked, empty heap.

**MemoryManager.** Linear memory is cut in slots, physical memory in frames,
both of the size of a chunk of the reserve. The trees of the two managers are
abstracted to the sets of what is free (that is what the proofs of
`ImplementsPool` justify) and to the number of nodes they allocate and free
(`RangesChanged`). Each page table and each 8 KB unit of tree nodes has a home
chunk. `Placeable` are the slots that the search with `align-1` bytes of slack may
answer: a single free slot between others is too short. `stack` holds the nested
calls of MemoryManager, each at a step of its code. `Unlock`, `UnitFreed` and `Trim` are the places where a nested call
begins.

**Pager.** A table is a static one (of `adjust_page_table.asm`) or a unit of the
reserve; `mem` holds the entries of all, `reserve` the units that are free, `tlb`
what the processor remembers. A call of `pagein` or `pageout` is one action: the
recursion `PageinTable`/`PageoutTable` takes the state through it, one table at a time,
as the functions do. `Access` is the processor's own step. What the reserve does in
the middle of a call is in `MemoryManager`, for calls of one chunk.

**AvlTree, AslrTree.** An entry is a record of its pair, its cached height and sums,
and its two subtrees; `add`, `del`, the rotations, and the deeper entry that takes
a deleted one's place are functions from tree to tree that refresh what is cached
where the code does. The variables are the tree (`root`), the number of `entries`
allocated, and the last `answer` of `del`. `RandomRange` is the set of answers of
`findRandomRange`, over every value of its random numbers; it changes nothing,
so its properties are evaluated in every reachable state.

**MemoryManagerInitializer.** Stages of boot in their order: `detect_mem` keeps
some entries of the BIOS map, `find_place_for_initial_reserve` scans them,
`Initialize` gives each to `PhysicalSpaceManager::free` through `PartitionRange`
and the linear range to `LinearSpaceManager::free`. `Outside` is one call of
`PartitionRange`, up to the calls it makes for the parts; `parts[i]` are the ranges of
all calls at depth `i`. `PartitionRange` has no return after its last range: that it
goes on with memory behind its array is modelled as a possible fault. 32-bit comparisons of the 16-bit stage are signed,
as in the code.

**Heap.** `treeStart` holds the free ranges (`treeLength` mirrors it, as proved
for the same functions in the space managers), `slabs`, `taken` and `pool` stand
for the PrimitiveHeaps: which blocks each has, which objects are in use, which
chunks `ph2048` has. `mapped` is what MemoryManager gave. Each of `AllocSingle`,
`AllocArray`, `FreeSingle`, `FreeArray` is a whole call.

**SharedPtr.** A record `r` of where each pointer points (`p`), the counts (`cnt`) and
what was given to the deleter (`freed`); `Reset`, `ResetTo`, `Assign`, `Copy`,
`Destroy` map it to the next.

**Ahci.** `drv.at` is where the driver is; a step of the driver is what it does from
one access of a device register to the next at which the device could have
changed something. `hw` holds the registers of each port and its device. The cells of
`tables` are 128 bytes apart as in the code, where the PRDT entry of one command
table and the command FIS of the next are the same bytes. `refs` holds the shared
pointers: `EnumerateDisks`' local, the two arguments by value, and each disk's member.
`ListFollows` to `Fail` are the devices.

**Ide.** `io.at` is where the driver is, `ide.status` what a drive's status is, and
`ide.shown` what its register still shows: any status, of this drive or another, from
before the command. `Shows` and `Answers` are the drive. It may show an error before it
is done, or next to data, so that the orders of the tests in `Identify` (data first) and
in `Read` (error first, busy or not) differ. `Masked` is the address that reaches a
48-bit drive.

**Storage.** Runs the enumeration of AHCI disks, then that of IDE disks, then `Read`
of any disk, one call at a time, with the devices of both at any time.

### Abstractions to know about

* Addresses in the space managers are bytes, with a page of one or two bytes.
* The space managers, `MemoryManager` and `Heap` see trees as sets of pairs, and
  `findRandomRange` as answering with any byte of any range that is long enough;
  the run `trees` checks both.
* `Heap`: which chunk or block with room a PrimitiveHeap takes first, and which
  empty one it gives back, is left open (the lists are in `PrimitiveHeap`). Tree
  nodes and PrimitiveHeap objects take no room. MemoryManager may fail whenever it is asked.
* `MemoryManager`: callers other than the reserve ask for one chunk at a time, or
  for something that cannot be had. The table of a slot covers exactly that
  slot (2 MB, as in the code). Two levels of tables above, not three. Ranges that
  begin inside a table, and large pages, are in `Pager`.
* `Pager`: addresses are counted in pages. Three levels of tables, not four. Which unit
  the reserve gives is fixed (any is as good). `WORD` and `INT` are the widths of the
  differences that `pagein_table` computes; of the preferences one flag stands for all.
* `Ahci`, `Ide`: the devices are external. An AHCI device ends a command that fails
  and may leave its bit in CI set; writing 0 to IS clears it, as the comment
  at Ahci.cpp:223 says; a device that accepted a command ends it. An IDE status register
  is up to date after three more reads. Both may stop short, fail, or take any time.
  A block is one value; the words of an identification are what is read from them.
* A chunk given back has its header cleared in the model; the code leaves it.

## 3. Runs

| Run | Bounds | What it shows |
|---|---|---|
| `psm` | 9 pages in two areas, lengths 1-4 | bookkeeping, counter, `ImplementsPool` |
| `lsm` | 7 pages of 2 bytes, alignments of 1 and 2 pages | the same, and `AnswersAligned` |
| `primitive_heap` | 4 chunks of 3 objects, renew at 2, trim above 6, two locks | `ListsSound`, `UnitsConserved`, `OneRenewal`, ... |
| `memory_manager` | 4 or 6 slots, 5 frames, 2 levels with fan-out 2, chunks of 10 units, renew at 5, trim above 15, 4 nodes to a unit | the reserve, the page tables and the nesting, with linear or physical memory running out first |
| `memory_exhausted` | as `memory_manager` | a call that gets no memory leaves the lock taken, and a renewal that gets none stops the machine (violated) |
| `trees` | 9 keys, sizes 1 to 6 | set, balance, entries freed, both searches; every order of adding and deleting |
| `initializer` | up to 3 of 9 entries, two beginning inside a page; page 2, "1 MB" 4, "2 MB" 8 | what is given away, the reserve's place, and who is refused |
| `initializer_high` | an entry from 2 to 3 GB | no place for the reserve is found, though there is one (violated) |
| `heap` | 5 objects, chunks of 3 blocks and of 60 bytes, a cache of 1 | `ImplementsPool`, `MemoryAccounted`, no kassert |
| `pager` | fan-out 3, 7 units, 7 ranges, one translation remembered | `ImplementsPageMap`, `TablesAccounted`, `NoStaleTranslation` |
| `storage` | 19 machines; 2 controllers of 2 ports, 4 IDE drives, 2 disks, 2 reads | `ReadsWhole`, `NoStrayDma`, `ControllersCounted`, `MovesOnlyStopped`, `TakesWhatIsOffered`, `CallsReturn` |
| `ide_read` | one 48-bit drive of 200 blocks, a read of two blocks, bytes of 4 values | other blocks are read, and each is put at the beginning (violated) |

Why the bounds are enough. `psm`, `lsm`: a free range with two free neighbours,
one with none, exact fits, both kinds of leftovers, and a hole in usable memory
all occur. `primitive_heap`: two chunks on each list occur, chunks without
available objects, a renewal in which the Allocator takes from and returns to
the heap, a trim that trims again. `memory_manager`: slots under three
directories, one of them made by the 16-bit stage; free slots next to each other and
single ones, too short to align in, so that linear memory runs out with some
left; renewals in each place an
`unlock` stands, trims in `free` and in `unlock`; the limits keep the
proportions of the code, where a renewal takes at most five units and the
limit is eight (here at most four of five). The initial chunk itself is never
given back within these bounds. `trees`: nine keys give trees of height four,
with each rotation on insertion and on deletion. `initializer`: entries that
end inside a page, empty ones, across the first megabyte, around and inside the place
of the reserve, of a type that is not free, two that begin inside a page (one is lost, one
is refused), and a BIOS that fails; nothing of it has room of 2 GB or more or lies between
2 and 4 GB, which is what `initializer_high` is for.
`heap`: three blocks of one size and two chunks of blocks, one of which is given
back; two sizes compete for the cache; arrays that lie across two chunks.

`pager`: the ranges map single pages, parts of a table, and ten pages from the middle
of one table over whole ones into the next directory; they unmap the reserve's large
page whole and at its beginning and its end, and parts of what another call
mapped. Seven units are enough for all of them at once, so the reserve does not run
out: that is the subject of `memory_manager`. `TlbBound` is one translation, which
is enough to be stale. `WORD` and `INT` leave the differences room to wrap.
`storage`: ports that firmware left running or busy, ports without a drive
between ports with one, a second controller whose first port does not exist, more
drives than room for disks, packet and CHS drives, and neighbouring command tables; a
`SPINS` of two waits and gives up; `SHORT` of two is below the longest read, as 256
is below what a caller may ask for; reads of two and three blocks are one or
several IDE commands. `ReadBound` of two lets a read follow one that failed.

`LockBound`, `LeakBound` cap the number of locks a failing call leaks (each leak
is for ever, so one is enough to see what follows; `memory_exhausted` has a `LeakBound` of 0, so that
no caller begins without memory left, and it is the reserve's own call that fails); `Returned` caps the objects an
Allocator call may free.

Deadlock is checked in `trees` only: elsewhere a machine that halted on a kassert
or a page fault stops, and boot ends.

**Fairness.** `memory_manager` and `storage` check liveness (`CallsReturn`, in
both). Weak fairness is on the steps of a call under way: there is a single
thread, and a call that was made runs on. Callers owe nothing. In `memory_manager` a
call may fail to return in one way only: the machine stopped after some call of
`alloc` had failed (`leaked > 0`); what stops it is `memory_exhausted`'s subject. `storage` adds weak
fairness of each device: a device that was told something answers some day, with data or
an error. The drivers' polls have no limit, so without it nothing returns; that is
what the hazards at Ahci.cpp:285 and Ide.cpp:113 say.

**Configurations kept beside the runs.** Each is violated, and shows one step of a finding by
itself: `MCMemoryReentered.cfg`, that a nested call does begin in the middle of pageout
(`LockedWhileUnstable`; finding 2); `MCPhysicalSpaceLocks.cfg` and `MCLinearSpaceLocks.cfg`,
that each space manager returns 0 with the lock taken (`LockReleased`; finding 1);
`MCInitializerMisaligned.cfg`, that an entry that begins inside a page fails a kassert
(`NoKassertFails`; finding 3).

**Findings.**

1. `PhysicalSpaceManager::alloc` and `LinearSpaceManager::allocAslr` return 0
   without unlocking the reserve, which is then never renewed or trimmed
   (PhysicalSpaceManager.cpp:17, LinearSpaceManager.cpp:16). `FailsWithNull` asks that no lock
   is left once all calls have returned; in the trace of `memory_exhausted` a renewal fails at
   LinearSpaceManager.cpp:16 and its lock stays. `NeverDry` holds only as long as no such call was made.
2. `Pager::pageout` frees tables with the reserve unlocked in the middle of its
   work, against the comment in MemoryReserveManager.h:21; the model shows that it
   does no harm (`WalksLiveTables`), because the tables it may still read are its
   own ancestors, which are freed after.
3. `MemoryManagerInitializer.cpp:55` does not round a misaligned base up to a
   page: whole pages of the entry are lost, or the machine halts on a kassert
   (`MCInitializerMisaligned.cfg`). `RefusesJustly` checks that it halts for no other
   entries but overlapping ones, and `GivesFreeMemory` that no more than free memory is given.
4. `initial_reserve.asm` compares addresses and rooms as signed numbers. A range that
   begins between 2 and 4 GB is taken to begin at 1 MB (line 32), and one with 2 to 4 GB of
   room is passed over (line 49): for a range from 2 to 3 GB both happen, and 0 is
   answered although there is a place (`initializer_high`).
5. `IdeDisk::Read` stores each block at the beginning of the buffer (Ide.cpp:127) and masks
   the first and the fourth byte of a 48-bit address with 0xF (lines 99, 100). One read
   in `ide_read` shows both: asked for blocks 128 and 129, it reads 0 and 1, and the
   buffer holds 1 and then what was there before.
6. `PrimitiveHeap::replenish` embraces whatever its Allocator answers: when
   `MemoryManager::alloc` has no memory for a renewal, a chunk header is written to
   address 0 (PrimitiveHeap.cpp:113) in place of the NULL that MemoryManager.h:117
   promises (`memory_exhausted`).

Met on the way, in code whose effect the models include: AHCI command tables overlap
(Ahci.cpp:64), which does no harm while one command is issued at a time
(`ReadsWhole`, `NoStrayDma`); every port of a controller is tried as a disk,
implemented or not (`pi && (1U<<i)`), and one that is not implemented has no drive.
A capability test in Ahci.cpp (lines 28 and 30) binds `==` before `&`. The deleter of
the shared pointer to a controller frees it without destructing. None of
these contradicts a property.

## 4. Proofs

Each proof module has an inductive invariant for each part of the system it is about (`IInv`,
`SpaceInv` for the space managers, `IdeInv` for the IDE driver), built of named parts, and the
theorems that follow from it. What each of them is needed for:

**Space managers** (`PhysicalSpaceProofs`: `TypeCorrect`, `TreesMirror`,
`RangesApart`, `NothingLost`, `CounterRight`, `Refinement`; `LinearSpaceProofs`:
`TreesMirror`, `NothingLost`, `Aligned`, `Refinement`). For every page size, every
finite set of usable addresses and every set of lengths and alignments. The
invariant is type correctness with `Mirror /\ Apart /\ Conserved`, and for physical
memory `Accounted`. None of the parts is inductive alone: that an allocation leaves
the free set complete needs `Mirror` (the range found in one tree is in the other),
that merging keeps ranges apart needs `Apart` and the two bounds being the immediate
neighbours, and `Accounted` needs `Conserved` to know that what is freed was not
free. `AddressSpaceProofs` has the lemmas on the bookkeeping: a bound exists when it
should (`UpperBoundFound`, `LowerBoundFound`), what is merged (`MergedRangeIs`), what
`free` and `allocSubrange` do to the free set (`FreeRangeKeeps`,
`AllocSubrangeKeeps`), and that a run of free addresses lies in one range
(`RunInOneRange`), on which the refinement rests: best fit fails only if no run fits.

**PrimitiveHeap** (`HeapStaysSound`, from it `ListsStaySound`, `NoObjectLost`,
`CountersExact`, `LocksPaired`, `NoNestedRenewal`, `HeapNeverAsserts`). For any number
of chunks, objects per chunk and locks, any limits the constructor's kasserts admit,
and whatever the callbacks call. A list is a numbering of its chunks, from the root
along `next` to NULL, with `prev` back (`IsList`); adding and removing a chunk
re-number it (`ListAdd`, `ListRemove`), and writing outside of it leaves it alone
(`ListFrame`). The invariant adds two things to the properties. `Waiting`: at most one
call waits for a callback, and an `alloc` that renews began at or below `MinUnits` and
has gained no more than what its Allocator freed since. That is why the `unlock` at its end
finds nothing to trim, as PrimitiveHeap.cpp:143 says, and why it finds an object.
And a lock count equal to locks and waiting calls, which is what keeps a second renewal
from starting.

**MemoryManager** (`OwnedOnce`, from it `EverySlotAccounted`, `NothingMappedTwice`). For any
number of slots and frames, any page tree, any constants of the reserve and calls nested
to any depth. `Owned` says what each call under way holds, by the step it is at: the slot it
allocated or has yet to give back (`SlotOf`), the frame it has in hand
(`FrameOf`), what of it is mapped (`MappedOf`); and that all of these are disjoint from each
other, from what is free, from what callers and the reserve have, and that mapped frames
are neither free nor in hand. `SlotsAccounted` alone is not inductive: it does not
say which of the slots a nested call names are its own, nor where the frame of a
call is between the two managers.

`ReserveReady`, from it `NeverRunsDry` and `TablesStayAlive`, hold on top of it for limits that
leave room: `AmpleReserve`, `MinUnits >= Levels + 4` and `MaxUnits - MinUnits >= ELength + 3`.
The code's constants satisfy it (8 and 500, with three levels and 254 units a chunk); it is a
sufficient condition, and the instance TLC checks (5 and 15, two levels, 10 units) does
without it. `ReadyInv` follows a call and what it sets off. `Nesting`: at most one call of
the reserve is under way inside one of a caller, a renewal or a trim, and the lock that both
hold keeps another from starting; so the lock count is the leaked locks and one for an inner call.
`Enough`: the units are at least what the inner call may still take (`Need`, a budget per
step: one unit and two for the nodes of both spaces, and one per table that is missing), or, if
there is none, above the lower limit; a trim begins so far above it that its own nodes do not
call for a renewal. `NodesSound`, `HomesSound`: what the reserve hosts, it hosts in a
chunk that it has. `TreeSound`: every linked table is in place, but for the one that
a pageout has freed and not yet unlinked (`Dead`), which has no child; and whoever has a
slot mapped finds all tables to it. So nobody's walk meets the dead one. None of the two
properties is inductive: that the reserve is not empty now does not say that the
rest of a call finds enough, and that tables on a walk are in place does not say that the
next one to be freed is on nobody's.

**Heap** (`HeapSound`, from it `NeverAsserts`, `EveryByteUsedOnce`, `Refinement`). For any
sizes of words, blocks, chunks and pages that fit each other, any linear memory, any requests
and any number of objects. `MemoryAccounted` alone is not inductive: it says that every byte
has one use, but not which mapping a byte is of, and so not that what a `delete` gives back
was a mapping of its own. The invariant tells the mappings apart. `PagesSound`: an object served by
pages has one mapping, at a page, that is no chunk of blocks. `SmallSound`: every small object is in
a block of its size, in one heap, in a chunk of blocks that is mapped. The mappings that are left
(`RangeMaps`) are chunks of ranges, and `RangesSound` says that their bytes are what is free in the trees and what
objects own, and no others. `Alone` keeps free ranges whole words and apart, so that a range that is
freed has at most one neighbour on each side and merges with both (`FreedKeeps`), and what
remains of one that is cut stays whole words (`CutKeeps`, `TakesBest`). `CacheSound` gives
that the cache answers with the heap of the size it was asked for, which with `SmallSound`
is all that the kassert of a small `delete` asks. What merging finds comes from the
lemmas of `AddressSpaceProofs`, for the same functions. The refinement needs that two objects have no byte in
common, whichever two of the three ways serve them (`ObjectsApart`).

**Initializer** (`InitializerSound`, from it `OnlyFreeMemory`, `EveryPageGiven`,
`PlaceRight`). For any sizes that fit each other, and any memory map. Going
around one forbidden range leaves what is not in it (`OutsideIs`), around two what is in neither
(`Partitioned`). Rounding keeps within an entry, and keeps all its pages if it begins at
one (`RoundedIs`). The invariant says of each entry that was come to that its pages are given
(`PagesInv`), and where the reserve is (`ReserveInv`); that it is not at 0 is what makes the second forbidden
range the reserve. That nothing but free memory is given, and all of each entry that begins at a page, holds for
every map. `PlaceRight` has the hypothesis that finding 4 leaves: `ComparesRight`, no free
entry begins between 2 and 4 GB or has between 2 and 4 GB of room. Everywhere else the signed
comparison is right (`SignedIs`). The map that the run `initializer` checks keeps it.

**IDE driver** (`IdeInvariant`, `NothingMissed`). For any drives, any requests of at
least one block, and any number of blocks per command. `ShowsOrLags`: after the delay
the status that shows is the drive's, or says busy (`ERR` or not); it cannot be one that
offers data of an earlier command. `InStep`: the blocks the driver has left are those the
drive has left. Together they give that the data register is read exactly when a block
is there.

**AHCI driver** (`AhciInvariant`, from it `WholeOrNothing`, `DmaOnlyToBuffer`,
`MemoryMovesStopped`; `PointersSound`, from it `ControllersLive`). For any numbers of
controllers, ports and disks. `Prepared` says what the two overlapping cells of the
command, the port's registers and the buffer hold while a command is under way, and
`OneCommand` that no other port has one: it is what makes the overlap harmless, since only
the next port's cells are destroyed. `EnginesStopped`, `MemoryGiven` and `PortReady` follow a
port from power-on to its first command. `PointersInv` says, for each place of the
enumeration, which pointers are there and that every count is their number; a
controller not yet come to has none, so the one allocated for it begins with count 0.

**Assumptions** on constants, all evaluated by TLC in the runs: usable addresses are
positive and finitely many, and a page has at least one byte; the kasserts of
PrimitiveHeap's constructor; its Allocator frees no more objects in one call than fit
below the upper limit (`ReturnedAssumption`); there are finitely many slots and frames, and the first of each
is the initial reserve's; a page table has at least two entries; a caller asks a disk for
at least one block (`RequestsAssumption`: Identify and Read of no blocks at all have nothing
to say about the buffer); a controller has at least one port; the limits of the reserve
are natural numbers that keep the kasserts of its constructor, a unit holds at
least three nodes, and a node heap keeps at least one unit (`ReserveAssumption`); the sizes of
the heap are positive and fit each other as 8, 128, 2048, 32, 256 K, 512 K and 4096 do, two
objects fit in a block and three blocks in a chunk, and linear memory is finite and begins
above address 0 by a chunk at least (`SizesAssumption`, `LinearAssumption`); a page
divides a megabyte, and 4 GB is whole chunks of the reserve. `AmpleReserve`
and `ComparesRight` are not assumed: they are the hypotheses of the theorems that need them.

**Induction.** What needs an induction over numbers (lists, the number of slots, the index of a
page table at a height, the repetition of an operation) is proved from the existence of a least counterexample (`LeastNat`,
from well-foundedness of finite sets), since the provers cannot instantiate the induction theorems
of the library.

**Only model-checked.**

* The trees and the `Pager`. Both are written with RECURSIVE operators on trees, as
  the code is, and of these the prover knows nothing.
* All liveness (`CallsReturn`, in `memory_manager` and `storage`): outside of the prover's logic.
* `RefusesJustly`, and the violations, of which one behaviour shows each.

## 5. Plan

Done: the space managers, PrimitiveHeap, MemoryManager with the reserve, the trees,
the initializer, the heap, the Pager, shared pointers and both disk drivers; the proofs
above. Left, in this order:

1. `Heap` over `PrimitiveHeap`, with room taken by tree nodes.
2. The `Pager` with one operator per level of tables in place of the recursion, and the proof that
   a call leaves no table linked twice and no stale translation.

### Not modelled

* PCI enumeration, GPT and MBR: each call reads its input from beginning to end and
  keeps nothing; `Storage` begins with the controllers PCI finds.
* Display, `kout`, keyboard: layout and wording; the keyboard handler prints.
* Interrupts: descriptor tables and generated stubs that save registers.
* Boot sector, A20, the switches of mode, the order of initializers in
  `bootloader_64bit_stage.cpp`: straight-line code on hardware.
* Moves and the bare `reset()` of `shared_ptr`, which no code calls; `unique_ptr`, with
  one owner; destructors and copies of trees and heaps, which live as long as the
  machine runs.
* The tests, but for the order of calls in `StorageTest` that `Storage` generalises.
