-------------------------------- MODULE Ide --------------------------------
(***************************************************************************)
(* drivers/Ata/Ide: programmed transfers from the up to four drives of an  *)
(* IDE controller, by polling the status register.  What the register      *)
(* shows lags behind what the drive is doing; three reads of it wait the   *)
(* lag out.  The 256 words of a block are read in one step.                *)
(***************************************************************************)
EXTENDS Integers, Sequences

CONSTANTS
  MAX28,      \* blocks in a command, without (255) and with (65535) the 48-bit feature
  MAX48,
  BYTE,       \* values of a byte (256)
  NIBBLE,     \* values that 0xF lets through (16)
  BLOCKS,     \* blocks of a drive
  MaxDisks,   \* max_length
  Requests    \* the [lba, count] callers ask for

VARIABLES
  ide,      \* the drives
  io,       \* where the driver is
  ideDisks, \* ide_disks
  ideBuf    \* the buffer of the call under way

ideVars == <<ide, io, ideDisks, ideBuf>>

\* A status is a set of bits, with ERR for ERR or DF; a drive that is not there shows
\* none.  An error may show before the drive is done, and next to data.
Resting == {"DRDY"}
Busy == {"BSY"}
Failing == {"BSY", "ERR"}
Offers == {"DRDY", "DRQ"}
OffersErr == {"DRDY", "DRQ", "ERR"}
Errs == {"DRDY", "ERR"}
Statuses == {Resting, Busy, Failing, Offers, OffersErr, Errs}

Order == << <<0, 0>>, <<0, 1>>, <<1, 0>>, <<1, 1>> >>
\* What of a command the drive has, and what it did of it.
NoCommand == [command |-> "none", lba |-> 0, count |-> 0, sent |-> 0]
Junk == -3
Identification == -1

\* drives[<<primary, master>>] is "none", "packet", "chs", "lba28" or "lba48"; it is
\* empty without a controller.
Init(drives) ==
  /\ ide = [drive |-> drives, at |-> <<0, 0>>, status |-> {}, shown |-> {}, job |-> NoCommand]
  /\ io = [at |-> "start", i |-> 1, disk |-> 0, lba |-> 0, endLBA |-> 0, left |-> 0,
           start |-> 0, ok |-> FALSE, op |-> "none", reads |-> 0, missed |-> FALSE]
  /\ ideDisks = <<>>
  /\ ideBuf = <<>>

\* No call is under way, and the locals of the last one are gone.
Idle == io' = [io EXCEPT !.at = "idle", !.disk = 0, !.lba = 0, !.endLBA = 0, !.left = 0,
                         !.start = 0, !.ok = FALSE, !.op = "none"]
Return(ok) == io' = [io EXCEPT !.at = "returned", !.ok = ok]
Present(at) == ide.drive[at] # "none"

\* Selecting a drive, and writing the command register: an old status stays
\* visible for a while, and a command a drive gave up on is over (external).
Command(at, job) ==
  \E old \in IF at = ide.at THEN {ide.shown} ELSE Statuses :
    ide' = [ide EXCEPT !.at = at, !.job = job,
                       !.status = IF Present(at) THEN Busy ELSE {},
                       !.shown = IF Present(at) THEN old ELSE {}]
-----------------------------------------------------------------------------
(***************************************************************************)
(* EnumerateDisks, Init and Identify.                                      *)
(***************************************************************************)
Enumerate ==
  /\ io.at = "start"
  /\ io' = [io EXCEPT !.at = "next"]
  /\ UNCHANGED <<ide, ideDisks, ideBuf>>

Enumerated == io.i > 4 \/ Len(ideDisks) = MaxDisks \/ ide.drive = <<>>

\* Secondary before primary, slave before master, while there is room.
Identify ==
  /\ io.at = "next" /\ ~Enumerated
  /\ Command(Order[io.i], [NoCommand EXCEPT !.command = "identify", !.count = 1])
  /\ io' = [io EXCEPT !.at = "delay", !.op = "identify"]
  /\ UNCHANGED <<ideDisks, ideBuf>>

NoMoreDrives ==
  /\ io.at = "next" /\ Enumerated
  /\ Idle
  /\ UNCHANGED <<ide, ideDisks, ideBuf>>

\* Identify looks for data before it looks for an error.
PollIdentify ==
  /\ io.at = "poll" /\ io.op = "identify"
  /\ IF ide.shown = {} THEN Return(FALSE)
     ELSE IF "BSY" \notin ide.shown /\ "DRQ" \in ide.shown
     THEN io' = [io EXCEPT !.at = "data"]
     ELSE "ERR" \in ide.shown /\ Return(FALSE)
  /\ UNCHANGED <<ide, ideDisks, ideBuf>>

Lba48(drive) == drive = "lba48"
Identified ==
  /\ io.at = "returned" /\ io.op = "identify"
  /\ ideDisks' = IF io.ok /\ ide.drive[ide.at] # "chs"
                 THEN Append(ideDisks, [at |-> ide.at, lba48 |-> Lba48(ide.drive[ide.at]),
                                        capacity |-> BLOCKS])
                 ELSE ideDisks
  /\ io' = [io EXCEPT !.at = "next", !.i = @ + 1]
  /\ ideBuf' = <<>>
  /\ UNCHANGED ide
-----------------------------------------------------------------------------
(***************************************************************************)
(* Read.                                                                   *)
(***************************************************************************)
Read(d, request) ==
  /\ io.at = "idle" /\ d \in DOMAIN ideDisks
  /\ request.lba + request.count <= ideDisks[d].capacity
  /\ io' = [io EXCEPT !.at = "command", !.op = "read", !.disk = d, !.lba = request.lba,
                      !.start = request.lba, !.endLBA = request.lba + request.count,
                      !.reads = @ + 1]
  /\ ideBuf' = [i \in 1 .. request.count |-> -2]
  /\ UNCHANGED <<ide, ideDisks>>

Minimum(a, b) == IF a < b THEN a ELSE b

\* The address as its registers carry it: with the 48-bit feature the two bytes
\* that go through LBA0, the first and the fourth, lose their upper halves.
Masked(lba) ==
  LET three == BYTE * BYTE * BYTE
  IN  (lba \div (three * BYTE)) * (three * BYTE) + ((lba \div three) % NIBBLE) * three
      + ((lba \div BYTE) % (BYTE * BYTE)) * BYTE + (lba % NIBBLE)

\* The loop over commands: its head, and the registers of the next command.
NextCommand ==
  /\ io.at = "command"
  /\ IF io.lba = io.endLBA THEN Return(TRUE) /\ UNCHANGED ide
     ELSE LET disk == ideDisks[io.disk]
              sectors_to_read ==
                Minimum(io.endLBA - io.lba, IF disk.lba48 THEN MAX48 ELSE MAX28)
          IN /\ Command(disk.at, [command |-> "read", count |-> sectors_to_read, sent |-> 0,
                                  lba |-> IF disk.lba48 THEN Masked(io.lba) ELSE io.lba])
             /\ io' = [io EXCEPT !.at = "delay", !.left = sectors_to_read,
                                 !.lba = @ + sectors_to_read]
  /\ UNCHANGED <<ideDisks, ideBuf>>

\* Mutant: nothing waits.
NoDelay ==
  /\ io.at = "delay"
  /\ io' = [io EXCEPT !.at = "poll"]
  /\ UNCHANGED <<ide, ideDisks, ideBuf>>

\* Three reads of the status wait until it shows what the drive does.
Delay ==
  /\ io.at = "delay"
  /\ ide' = [ide EXCEPT !.shown = ide.status]
  /\ io' = [io EXCEPT !.at = "poll"]
  /\ UNCHANGED <<ideDisks, ideBuf>>

\* Read looks for an error first, busy or not.
PollRead ==
  /\ io.at = "poll" /\ io.op = "read"
  /\ IF "ERR" \in ide.shown THEN Return(FALSE)
     ELSE /\ "BSY" \notin ide.shown /\ "DRQ" \in ide.shown
          /\ io' = [io EXCEPT !.at = "data"]
  /\ UNCHANGED <<ide, ideDisks, ideBuf>>

\* The words of one block; each block is put at the beginning of the buffer.  A
\* drive that offers none gives junk.
Offered == IF "DRQ" \notin ide.status THEN Junk
           ELSE IF io.op = "identify" THEN Identification
           ELSE ide.job.lba + ide.job.sent
ReadData ==
  /\ io.at = "data"
  /\ ideBuf' = IF io.op = "identify" THEN <<Offered>> ELSE [ideBuf EXCEPT ![1] = Offered]
  /\ LET sent == IF "DRQ" \in ide.status THEN ide.job.sent + 1 ELSE ide.job.sent
     IN ide' = [ide EXCEPT !.job.sent = sent,
                           !.status = IF "DRQ" \notin @ THEN @
                                      ELSE IF sent < ide.job.count THEN Busy ELSE Resting]
  /\ io' = IF io.op = "identify"
           THEN [io EXCEPT !.at = "returned", !.ok = TRUE, !.missed = @ \/ Offered = Junk]
           ELSE [io EXCEPT !.left = @ - 1, !.missed = @ \/ Offered = Junk,
                           !.at = IF io.left = 1 THEN "command" ELSE "delay"]
  /\ UNCHANGED ideDisks

ReadReturned ==
  /\ io.at = "returned" /\ io.op = "read"
  /\ Idle
  /\ ideBuf' = <<>>
  /\ UNCHANGED <<ide, ideDisks>>

Call == Enumerate \/ \E d \in 1 .. MaxDisks, request \in Requests : Read(d, request)

Driver ==
  \/ Identify \/ NoMoreDrives \/ PollIdentify \/ Identified
  \/ NextCommand \/ Delay \/ PollRead \/ ReadData \/ ReadReturned
-----------------------------------------------------------------------------
(***************************************************************************)
(* The drive that is selected (external).                                  *)
(***************************************************************************)
Shows ==
  /\ ide.shown # ide.status
  /\ ide' = [ide EXCEPT !.shown = ide.status]
  /\ UNCHANGED <<io, ideDisks, ideBuf>>

\* The next block is ready, or there is an error, which may come first; a packet
\* device has no identification to offer.
Answers ==
  /\ "BSY" \in ide.status
  /\ \E status \in (IF ide.drive[ide.at] = "packet" THEN {Failing, Errs}
                    ELSE {Offers, OffersErr, Failing, Errs}) \ {ide.status} :
       ide' = [ide EXCEPT !.status = status]
  /\ UNCHANGED <<io, ideDisks, ideBuf>>

Device == Shows \/ Answers
-----------------------------------------------------------------------------
(***************************************************************************)
(* Properties.                                                             *)
(***************************************************************************)
\* The data register is read only while the drive offers a block, whatever the
\* status register still showed, and when Read answers true, the drive has sent
\* every block of the last command and offers no more.
TakesWhatIsOffered ==
  /\ ~io.missed
  /\ io.at = "returned" /\ io.ok /\ io.op = "read" =>
       ide.job.sent = ide.job.count /\ "DRQ" \notin ide.status

\* What Gpt::Init and the reads of partitions take for granted (Gpt.cpp:48-50, :28):
\* the blocks asked for are in the buffer, the first at its beginning, for every
\* address below the capacity that Read accepts (Ide.cpp:72).
ReadsAsAsked ==
  io.at = "returned" /\ io.ok /\ io.op = "read" =>
    ideBuf = [i \in 1 .. Len(ideBuf) |-> io.start + i - 1]
=============================================================================
