------------------------------ MODULE Storage ------------------------------
(***************************************************************************)
(* The two disk drivers as StorageTest uses them: the disks of AHCI        *)
(* controllers are enumerated, then those of the IDE controller, then any  *)
(* of them is read.  There is one thread, so that one driver is at work at *)
(* a time; the devices of both go on at any time.                          *)
(***************************************************************************)
EXTENDS Integers, Sequences, FiniteSets

CONSTANTS
  NCON, NPORT, SPINS, SHORT, LOW, NoController,
  MAX28, MAX48, BYTE, NIBBLE,
  BLOCKS, MaxDisks, Requests,
  Machines,   \* what may be there: [ahci |-> the ports, ide |-> the drives]
  ReadBound   \* bound: calls of Read, of either driver

\* A client asks for a block at least; a block read is part of a command.
ASSUME RequestsAssumption ==
  \A request \in Requests : request.lba \in Nat /\ request.count \in Nat \ {0}
ASSUME AhciAssumption ==
  /\ NCON \in Nat /\ NPORT \in Nat \ {0} /\ MaxDisks \in Nat /\ SPINS \in Nat
  /\ BLOCKS \in Nat /\ LOW \in Nat \ {0}
  /\ NoController \notin 1 .. NCON
  /\ \A m \in Machines :
       m.ahci \in [1 .. NCON -> [0 .. NPORT - 1 ->
                   [pi : BOOLEAN, drive : {"none", "lba28", "lba48"}, on : BOOLEAN, busy : BOOLEAN]]]
ASSUME CommandsAssumption == {MAX28, MAX48, BYTE, NIBBLE} \subseteq Nat \ {0}

VARIABLES
  hw, tables, drv, refs, disks, buf, stray,
  ide, io, ideDisks, ideBuf

A == INSTANCE Ahci
I == INSTANCE Ide

ahciVars == <<hw, tables, drv, refs, disks, buf, stray>>
ideVars == <<ide, io, ideDisks, ideBuf>>
vars == <<ahciVars, ideVars>>

Quiet == drv.at \in {"start", "idle"} /\ io.at \in {"start", "idle"}
MayRead == drv.at = "idle" /\ io.at = "idle" /\ drv.reads + io.reads < ReadBound
Init == \E m \in Machines : A!Init(m.ahci) /\ I!Init(m.ide)

\* EnumerateDisks of either driver, and GetCapacity and Read of any disk.
Call ==
  \/ A!EnumerateDisks /\ UNCHANGED ideVars
  \/ drv.at = "idle" /\ I!Enumerate /\ UNCHANGED ahciVars
  \/ MayRead /\ A!Call /\ UNCHANGED ideVars
  \/ MayRead /\ I!Call /\ UNCHANGED ahciVars

AhciRuns == A!Driver /\ UNCHANGED ideVars
IdeRuns == I!Driver /\ UNCHANGED ahciVars
AhciDevice(c, p) == A!Device(c, p) /\ UNCHANGED ideVars
IdeDevice == I!Device /\ UNCHANGED ahciVars

Next ==
  \/ Call \/ AhciRuns \/ IdeRuns \/ IdeDevice
  \/ \E c \in A!Controllers, p \in A!Ports : AhciDevice(c, p)

\* There is one thread, which runs on; a device that was told something answers.
Spec ==
  /\ Init /\ [][Next]_vars
  /\ WF_vars(AhciRuns \/ IdeRuns) /\ WF_vars(IdeDevice)
  /\ \A c \in A!Controllers, p \in A!Ports : WF_vars(AhciDevice(c, p))
-----------------------------------------------------------------------------
(***************************************************************************)
(* Properties: those of the drivers, and of their calls.                   *)
(***************************************************************************)
\* Ahci.cpp: what Identify and Read answer true to is in the buffer.
ReadsWhole == A!ReadsWhole
\* Ahci.cpp: devices write to the buffer of the call under way and nowhere else.
NoStrayDma == A!NoStrayDma
\* shared_ptr.hpp as the disks use it: counts are right, controllers in use live.
ControllersCounted == A!ControllersCounted
\* Ahci.cpp, MemoryInit: ports get their memory while they are stopped.
MovesOnlyStopped == A!MovesOnlyStopped
\* Ide.cpp: the data register is read when, and as often as, the drive offers.
TakesWhatIsOffered == I!TakesWhatIsOffered
\* Ide.cpp: the blocks asked for are in the buffer.
ReadsAsAsked == I!ReadsAsAsked

\* Every call of either driver returns: no kassert fails, and no wait lasts for
\* ever while the devices answer.
CallsReturn == ~Quiet ~> Quiet
=============================================================================
