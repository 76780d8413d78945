-------------------------------- MODULE Ahci --------------------------------
(***************************************************************************)
(* drivers/Ata/Ahci: the driver of AHCI controllers, which polls, and the   *)
(* devices, which follow it in their own time.  The driver's accesses to   *)
(* device registers are steps of their own where a device may step in      *)
(* between; what the driver writes to memory before it issues a command is *)
(* one step.  A block is 512 bytes.                                        *)
(*                                                                         *)
(* The command tables of a controller lie 128 bytes apart and are 128      *)
(* bytes long without their PRDT entry: the PRDT entry of one is where the *)
(* FIS of the next begins.  tables holds these cells, each of them the     *)
(* place of two things.                                                    *)
(***************************************************************************)
EXTENDS Integers, Sequences, FiniteSets

CONSTANTS
  NCON,       \* AHCI controllers that EnumerateDevices finds
  NPORT,      \* ports of a controller (32)
  MaxDisks,   \* max_length, the disks there is room for
  SPINS,      \* reads of the busy bit before giving up (1000000)
  SHORT,      \* READ DMA takes its count of blocks modulo this (256)
  BLOCKS,     \* blocks of a drive
  LOW,        \* a word of the identification holds a number of blocks below this (65536)
  Requests,   \* the [lba, count] callers ask for
  NoController

VARIABLES
  hw,      \* the ports' registers, and the devices behind them
  tables,  \* the cells of the command tables, per controller
  drv,     \* where the driver is
  refs,    \* the shared pointers to AhciControllers
  disks,   \* the caller's array of AhciDisk
  buf,     \* the blocks of the buffer of the call under way
  stray    \* did a device write to memory that is not that buffer?

vars == <<hw, tables, drv, refs, disks, buf, stray>>

Controllers == 1 .. NCON
Ports == 0 .. NPORT - 1
Slots == 1 .. MaxDisks
\* A controller of EnumerateDisks, the arguments of EnumerateDisksInController
\* and of AhciDisk::Init, and the member of each disk.
Local == -2
Argument == -1
InitArgument == 0
Pointers == {Local, Argument, InitArgument} \cup Slots
Shared == INSTANCE SharedPtr WITH Objects <- Controllers, Null <- NoController

Implemented(c) == {p \in Ports : hw[c][p].pi}
\* whichst[p], and whether the cells of a table are what they should be.
Which(c, p) ==
  IF p \in Implemented(c) THEN Cardinality({q \in Implemented(c) : q < p}) ELSE -1
FisCell(c, p) == Which(c, p)
PrdtCell(c, p) == Which(c, p) + 1

Fis(command, lba, count) == [kind |-> "fis", command |-> command, lba |-> lba, count |-> count]
Prdt(dba, blocks) == [kind |-> "prdt", dba |-> dba, blocks |-> blocks]
Empty == [kind |-> "empty"]
Identification == -1
Zeros(n) == [i \in 1 .. n |-> -2]

\* An AhciHbaPort, the prdbc of its command header, and the command under way.
Register(port) ==
  [pi |-> port.pi, drive |-> port.drive, busy |-> port.busy,
   st |-> port.on, cr |-> port.on, fre |-> port.on, fr |-> port.on,
   clb |-> NoController, is |-> FALSE, ci |-> FALSE,
   phase |-> "idle", prdbc |-> 0, fis |-> Empty]
NoDisk == [con |-> NoController, port |-> 0, lba48 |-> FALSE, capacity |-> 0]

\* At boot there is, per controller and port: is it implemented (pi), its drive
\* ("none", "lba28", "lba48"), and whether the firmware left it running (on) or busy.
Init(hardware) ==
  /\ hw = [c \in Controllers |-> [p \in Ports |-> Register(hardware[c][p])]]
  /\ tables = [c \in Controllers |-> [i \in 0 .. NPORT |-> Empty]]
  /\ drv = [at |-> "start", c |-> 0, p |-> 0, length |-> 0, cur |-> 0, spin |-> 0,
            op |-> "none", lba |-> 0, count |-> 0, dba |-> 0, ok |-> FALSE, reads |-> 0]
  /\ refs = Shared!Nobody
  /\ disks = [d \in Slots |-> NoDisk]
  /\ buf = <<>>
  /\ stray = FALSE

\* The port the driver works on, and the slot of the disk it initializes.
Port == hw[drv.c][drv.p]
SetPort(port) == hw' = [hw EXCEPT ![drv.c][drv.p] = port]
Slot == drv.length + drv.cur + 1
\* No call is under way, and the locals of the last one are gone.
Idle(driver) == [driver EXCEPT !.at = "idle", !.c = 0, !.p = 0, !.cur = 0, !.spin = 0,
                               !.op = "none", !.lba = 0, !.count = 0, !.ok = FALSE]
Goto(at) == drv' = [drv EXCEPT !.at = at]
Halt == Goto("halted") /\ UNCHANGED <<hw, tables, refs, disks, buf, stray>>
-----------------------------------------------------------------------------
(***************************************************************************)
(* AhciDisk::EnumerateDisks and AhciController::Init.                      *)
(***************************************************************************)
EnumerateDisks ==
  /\ drv.at = "start"
  /\ Goto("devices")
  /\ UNCHANGED <<hw, tables, refs, disks, buf, stray>>

\* The next controller: a new AhciController, its memory mapped, its ports counted.
Controller ==
  /\ drv.at = "devices" /\ drv.c < NCON
  /\ LET c == drv.c + 1
         r == Shared!ResetTo(refs, Local, c)
     IN IF Implemented(c) = {}
        THEN drv' = [drv EXCEPT !.c = c] /\ refs' = Shared!Destroy(r, Local)
        ELSE drv' = [drv EXCEPT !.c = c, !.p = 0, !.at = "memory"] /\ refs' = r
  /\ UNCHANGED <<hw, tables, disks, buf, stray>>

NoMoreControllers ==
  /\ drv.at = "devices" /\ drv.c = NCON
  /\ drv' = Idle(drv)
  /\ UNCHANGED <<hw, tables, refs, disks, buf, stray>>

\* MemoryInit's loop over the ports, through StopEngines, which waits twice.
StopEngines ==
  /\ drv.at = "memory" /\ drv.p < NPORT
  /\ IF drv.p \in Implemented(drv.c)
     THEN SetPort([Port EXCEPT !.st = FALSE]) /\ Goto("stopList")
     ELSE drv' = [drv EXCEPT !.p = @ + 1] /\ UNCHANGED hw
  /\ UNCHANGED <<tables, refs, disks, buf, stray>>

\* Mutant: the FIS receiver is stopped without waiting for the command list.
ListStoppedAtOnce ==
  /\ drv.at = "stopList"
  /\ SetPort([Port EXCEPT !.fre = FALSE])
  /\ Goto("stopFis")
  /\ UNCHANGED <<tables, refs, disks, buf, stray>>

ListStopped ==
  /\ drv.at = "stopList" /\ ~Port.cr
  /\ SetPort([Port EXCEPT !.fre = FALSE])
  /\ Goto("stopFis")
  /\ UNCHANGED <<tables, refs, disks, buf, stray>>

FisStopped ==
  /\ drv.at = "stopFis" /\ ~Port.fr
  /\ SetPort([Port EXCEPT !.clb = drv.c])
  /\ drv' = [drv EXCEPT !.at = "memory", !.p = @ + 1]
  /\ UNCHANGED <<tables, refs, disks, buf, stray>>

\* Init returns; EnumerateDisksInController is called with a copy of the pointer.
MemoryReady ==
  /\ drv.at = "memory" /\ drv.p = NPORT
  /\ refs' = Shared!Copy(refs, Argument, Local)
  /\ drv' = [drv EXCEPT !.at = "ports", !.p = 0, !.cur = 0]
  /\ UNCHANGED <<hw, tables, disks, buf, stray>>
-----------------------------------------------------------------------------
(***************************************************************************)
(* EnumerateDisksInController and AhciDisk::Init: every port is tried,     *)
(* whether implemented or not, as `pi && (1U<<i)' is true of each.         *)
(***************************************************************************)
TryPort ==
  /\ drv.at = "ports" /\ drv.p < NPORT /\ drv.length + drv.cur < MaxDisks
  /\ LET passed == Shared!Copy(refs, InitArgument, Argument)
         kept == Shared!Assign(passed, Slot, InitArgument)
     IN IF Port.drive = "none"
        THEN refs' = Shared!Destroy(kept, InitArgument) /\ drv' = [drv EXCEPT !.p = @ + 1]
        ELSE refs' = kept /\ Goto("start engines")
  /\ disks' = [disks EXCEPT ![Slot].con = drv.c, ![Slot].port = drv.p]
  /\ UNCHANGED <<hw, tables, buf, stray>>

StartEngines ==
  /\ drv.at = "start engines"
  /\ IF Port.st \/ Which(drv.c, drv.p) = -1 THEN Halt
     ELSE /\ ~Port.cr
          /\ SetPort([Port EXCEPT !.fre = TRUE, !.st = TRUE])
          /\ Goto("identify")
          /\ UNCHANGED <<tables, refs, disks, buf, stray>>

\* What the words of the identification say of the drive, as Init reads them.
Capacity(drive) == IF drive = "lba48" THEN BLOCKS ELSE BLOCKS % LOW

Identified ==
  /\ drv.at = "returned" /\ drv.op = "identify"
  /\ disks' = IF drv.ok
              THEN [disks EXCEPT ![Slot].lba48 = (Port.drive = "lba48"),
                                 ![Slot].capacity = Capacity(Port.drive)]
              ELSE disks
  /\ refs' = Shared!Destroy(refs, InitArgument)
  /\ drv' = [drv EXCEPT !.at = "ports", !.p = @ + 1, !.cur = IF drv.ok THEN @ + 1 ELSE @]
  /\ buf' = <<>>
  /\ UNCHANGED <<hw, tables, stray>>

\* EnumerateDisksInController returns, and the loop body of EnumerateDisks ends.
ControllerDone ==
  /\ drv.at = "ports"
  /\ drv.p = NPORT \/ drv.length + drv.cur >= MaxDisks
  /\ refs' = Shared!Destroy(Shared!Destroy(refs, Argument), Local)
  /\ LET length == drv.length + drv.cur
         done == [drv EXCEPT !.length = length, !.cur = 0, !.at = "devices"]
     IN drv' = IF length >= MaxDisks THEN Idle(done) ELSE done
  /\ UNCHANGED <<hw, tables, disks, buf, stray>>
-----------------------------------------------------------------------------
(***************************************************************************)
(* AhciDisk::Identify and AhciDisk::Read, which do the same with different *)
(* command tables: WaitUntilReady and Issue translate Identify's copy of   *)
(* it, the two polls that of Read.                                         *)
(***************************************************************************)
Prepare(op, c, p, blocks, fis, driver) ==
  /\ drv' = [driver EXCEPT !.at = "spin", !.spin = 0, !.op = op, !.c = c, !.p = p,
                           !.count = blocks, !.lba = fis.lba, !.dba = 1 - @]
  /\ hw' = [hw EXCEPT ![c][p].is = FALSE, ![c][p].prdbc = 0]
  /\ tables' = [tables EXCEPT ![c][PrdtCell(c, p)] = Prdt(1 - drv.dba, blocks),
                              ![c][FisCell(c, p)] = fis]
  /\ buf' = Zeros(blocks)
  /\ UNCHANGED <<refs, disks, stray>>

Identify ==
  /\ drv.at = "identify"
  /\ Prepare("identify", drv.c, drv.p, 1, Fis("identify", 0, 0), drv)

\* The call of a client that knows the capacity.
Read(d, request) ==
  /\ drv.at = "idle" /\ d <= drv.length
  /\ request.lba + request.count <= disks[d].capacity
  /\ Prepare("read", disks[d].con, disks[d].port, request.count,
             Fis(IF disks[d].lba48 THEN "ext" ELSE "dma", request.lba, request.count),
             [drv EXCEPT !.reads = @ + 1])

Return(ok) == drv' = [drv EXCEPT !.at = "returned", !.ok = ok]

WaitUntilReady ==
  /\ drv.at = "spin"
  /\ IF ~Port.busy THEN Goto("issue")
     ELSE IF drv.spin + 1 < SPINS THEN drv' = [drv EXCEPT !.spin = @ + 1]
     ELSE Return(FALSE)
  /\ UNCHANGED <<hw, tables, refs, disks, buf, stray>>

Issue ==
  /\ drv.at = "issue"
  /\ SetPort([Port EXCEPT !.ci = TRUE, !.phase = "issued"])
  /\ Goto("poll errors")
  /\ UNCHANGED <<tables, refs, disks, buf, stray>>

\* Mutant: only the bit of the command is polled.
PollNoErrors ==
  /\ drv.at = "poll errors"
  /\ Goto("poll completion")
  /\ UNCHANGED <<hw, tables, refs, disks, buf, stray>>

PollErrors ==
  /\ drv.at = "poll errors"
  /\ IF Port.is THEN Return(FALSE) ELSE Goto("poll completion")
  /\ UNCHANGED <<hw, tables, refs, disks, buf, stray>>

\* Mutants: the byte count is trusted; a command that takes long is given up.
PollCompletionOnly ==
  /\ drv.at = "poll completion"
  /\ IF Port.ci THEN Goto("poll errors") ELSE Return(TRUE)
  /\ UNCHANGED <<hw, tables, refs, disks, buf, stray>>
PollCompletionOnce ==
  /\ drv.at = "poll completion"
  /\ Return(~Port.ci /\ Port.prdbc = drv.count)
  /\ UNCHANGED <<hw, tables, refs, disks, buf, stray>>

PollCompletion ==
  /\ drv.at = "poll completion"
  /\ IF Port.ci THEN Goto("poll errors") ELSE Return(Port.prdbc = drv.count)
  /\ UNCHANGED <<hw, tables, refs, disks, buf, stray>>

\* The client is done with the answer and with the buffer.
ReadReturned ==
  /\ drv.at = "returned" /\ drv.op = "read"
  /\ drv' = Idle(drv)
  /\ buf' = <<>>
  /\ UNCHANGED <<hw, tables, refs, disks, stray>>

Call == EnumerateDisks \/ \E d \in Slots, request \in Requests : Read(d, request)

Driver ==
  \/ Controller \/ NoMoreControllers \/ StopEngines \/ ListStopped \/ FisStopped \/ MemoryReady
  \/ TryPort \/ StartEngines \/ Identify \/ Identified \/ ControllerDone
  \/ WaitUntilReady \/ Issue \/ PollErrors \/ PollCompletion \/ ReadReturned
-----------------------------------------------------------------------------
(***************************************************************************)
(* The devices (external): what the driver takes them to do.  An error     *)
(* ends the command, and is=0 clears it.                                   *)
(***************************************************************************)
ListFollows(c, p) ==
  /\ hw[c][p].cr # hw[c][p].st /\ hw[c][p].phase # "running"
  /\ hw' = [hw EXCEPT ![c][p].cr = hw[c][p].st]
  /\ UNCHANGED <<tables, drv, refs, disks, buf, stray>>

FisFollows(c, p) ==
  /\ hw[c][p].fr # hw[c][p].fre
  /\ hw' = [hw EXCEPT ![c][p].fr = hw[c][p].fre]
  /\ UNCHANGED <<tables, drv, refs, disks, buf, stray>>

BecomesReady(c, p) ==
  /\ hw[c][p].busy /\ hw[c][p].phase # "running"
  /\ hw' = [hw EXCEPT ![c][p].busy = FALSE]
  /\ UNCHANGED <<tables, drv, refs, disks, buf, stray>>

\* The FIS is fetched; one that is not there is an error.
Accept(c, p) ==
  /\ hw[c][p].phase = "issued" /\ hw[c][p].cr /\ hw[c][p].fr /\ ~hw[c][p].busy
  /\ LET fis == tables[hw[c][p].clb][FisCell(c, p)]
     IN hw' = [hw EXCEPT ![c][p].busy = TRUE, ![c][p].phase = "running", ![c][p].fis = fis]
  /\ UNCHANGED <<tables, drv, refs, disks, buf, stray>>

\* The block that comes next, of as many as the command asks for.
Wanted(fis) ==
  CASE fis.kind # "fis" -> 0
    [] fis.command = "identify" -> 1
    [] fis.command = "ext" -> fis.count
    [] fis.command = "dma" -> IF fis.count % SHORT = 0 THEN SHORT ELSE fis.count % SHORT
Block(fis, i) == IF fis.command = "identify" THEN Identification ELSE fis.lba + i - 1

\* It goes where the PRDT entry says, whoever wrote that last.
Transfer(c, p) ==
  LET port == hw[c][p]
      prdt == tables[port.clb][PrdtCell(c, p)]
      mine == drv.at \in {"poll errors", "poll completion"} /\ prdt.kind = "prdt"
              /\ prdt.dba = drv.dba
  IN /\ port.phase = "running" /\ port.prdbc < Wanted(port.fis)
     /\ prdt.kind = "prdt" => port.prdbc < prdt.blocks
     /\ hw' = [hw EXCEPT ![c][p].prdbc = @ + 1]
     /\ buf' = IF mine THEN [buf EXCEPT ![port.prdbc + 1] = Block(port.fis, port.prdbc + 1)]
               ELSE buf
     /\ stray' = (stray \/ ~mine)
     /\ UNCHANGED <<tables, drv, refs, disks>>

\* The command ends, with or without all the data that was asked for.
Complete(c, p) ==
  /\ hw[c][p].phase = "running"
  /\ hw' = [hw EXCEPT ![c][p].busy = FALSE, ![c][p].phase = "idle", ![c][p].ci = FALSE,
                      ![c][p].fis = Empty]
  /\ UNCHANGED <<tables, drv, refs, disks, buf, stray>>

\* An error ends it; the bit of the command may stay set.
Fail(c, p) ==
  /\ hw[c][p].phase = "running"
  /\ \E ci \in BOOLEAN :
       hw' = [hw EXCEPT ![c][p].busy = FALSE, ![c][p].phase = "idle", ![c][p].ci = ci,
                        ![c][p].is = TRUE, ![c][p].fis = Empty]
  /\ UNCHANGED <<tables, drv, refs, disks, buf, stray>>

Device(c, p) ==
  \/ ListFollows(c, p) \/ FisFollows(c, p) \/ BecomesReady(c, p)
  \/ Accept(c, p) \/ Transfer(c, p) \/ Complete(c, p) \/ Fail(c, p)
-----------------------------------------------------------------------------
(***************************************************************************)
(* Properties.                                                             *)
(***************************************************************************)
\* Identify and Read answer true only if every block asked for is in the buffer:
\* whatever the order of completion, error and the two registers polled one after
\* the other, and with counts that READ DMA cannot express.
ReadsWhole ==
  drv.at = "returned" /\ drv.ok =>
    buf = [i \in 1 .. drv.count |->
             Block([command |-> drv.op, lba |-> drv.lba], i)]

\* A device writes to memory only while a call waits for it, and only to the
\* buffer of that call, although a call of another disk overwrites its PRDT entry.
NoStrayDma == ~stray

\* The memory a port works with is moved only while neither its command list nor
\* its FIS receiver runs, also when the firmware left them running.
MovesOnlyStopped ==
  [][\A c \in Controllers, p \in Ports :
       hw'[c][p].clb # hw[c][p].clb => ~hw[c][p].cr /\ ~hw[c][p].fr]_vars

\* A controller is counted once for each pointer to it, in disks that came to
\* nothing and are tried again too, and lives as long as a disk can use it.
ControllersCounted ==
  /\ Shared!Counted(refs)
  /\ \A d \in 1 .. drv.length : refs.p[d] = disks[d].con /\ disks[d].con \notin refs.freed
=============================================================================
