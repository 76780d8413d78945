--------------------------- MODULE StorageProofs ---------------------------
(***************************************************************************)
(* The two disk drivers on one machine, with their devices.  The IDE       *)
(* driver, for any drives, any number of blocks in a command, and any      *)
(* requests: what it takes from the data register is what the drive        *)
(* offers.  The AHCI driver, for any controllers, ports and drives, any    *)
(* number of disks and any requests, with devices that follow in their own *)
(* time, fail or answer with less than they were asked for.                *)
(***************************************************************************)
EXTENDS Storage, FiniteSetTheorems, TLAPS
-----------------------------------------------------------------------------
(***************************************************************************)
(* The IDE driver.                                                         *)
(***************************************************************************)
Statuses == {{}} \cup I!Statuses
Places == {"start", "next", "command", "delay", "poll", "data", "returned", "idle"}

DriveType ==
  ide \in [drive : {ide.drive}, at : {ide.at}, status : Statuses, shown : Statuses,
           job : [command : {"none", "identify", "read"}, lba : Nat, count : Nat, sent : Nat]]
DriverType ==
  io \in [at : Places, i : {io.i}, disk : {io.disk}, lba : Nat, endLBA : Nat, left : Nat,
          start : {io.start}, ok : BOOLEAN, op : {"none", "identify", "read"}, reads : {io.reads},
          missed : BOOLEAN]

\* After the delay the status that shows is the drive's, or one from before it answered.
ShowsOrLags == io.at = "poll" => ide.shown = ide.status \/ "BSY" \in ide.shown

\* The driver comes to the data register when there is a block, and only its own
\* reading of it ends that.
BlockThere ==
  /\ io.at = "data" => "DRQ" \in ide.status /\ "BSY" \notin ide.status
  /\ ~io.missed

\* A command is under way: as many blocks are left for the driver as for the drive.
InStep ==
  io.at \in {"delay", "poll", "data"} /\ io.op = "read" =>
    /\ io.lba <= io.endLBA
    /\ io.left >= 1 /\ ide.job.sent + io.left = ide.job.count

\* The command before the next one, or before the return, is over.
Over == ide.job.sent = ide.job.count /\ ide.status = I!Resting
Between ==
  /\ io.at = "command" => io.op = "read" /\ io.lba <= io.endLBA /\ (io.lba = io.endLBA => Over)
  /\ io.at = "returned" /\ io.ok /\ io.op = "read" => Over
  /\ io.at \in {"delay", "poll", "data"} => io.op \in {"identify", "read"}

IdeInv == DriveType /\ DriverType /\ ShowsOrLags /\ BlockThere /\ InStep /\ Between
-----------------------------------------------------------------------------
(***************************************************************************)
(* The steps.                                                              *)
(***************************************************************************)

Commanded(at, job) ==
  \E status \in {{}, I!Busy}, old \in Statuses :
    ide' = [ide EXCEPT !.at = at, !.job = job, !.status = status, !.shown = old]

\* A command makes the drive that is there busy, and what shows is an old status.
LEMMA CommandGiven ==
  ASSUME DriveType, NEW at, NEW job, I!Command(at, job)
  PROVE  Commanded(at, job)
<1>1. PICK old \in IF at = ide.at THEN {ide.shown} ELSE I!Statuses :
        ide' = [ide EXCEPT !.at = at, !.job = job, !.status = IF I!Present(at) THEN I!Busy ELSE {},
                           !.shown = IF I!Present(at) THEN old ELSE {}]
  BY DEF I!Command
<1>2. old \in Statuses
  BY DEF DriveType, Statuses
<1>3. CASE I!Present(at)
  BY <1>1, <1>2, <1>3 DEF Commanded
<1>4. CASE ~I!Present(at)
  BY <1>1, <1>4 DEF Statuses, Commanded
<1> QED BY <1>3, <1>4

\* Enumeration begins.
LEMMA StepEnumerate == IdeInv /\ I!Enumerate => IdeInv'
<1> SUFFICES ASSUME IdeInv, I!Enumerate PROVE IdeInv'
  OBVIOUS
<1>2. DriveType'
  BY DEF IdeInv, DriveType, Statuses, I!Statuses, I!Resting, I!Busy, I!Failing, I!Offers, I!OffersErr, I!Errs, I!Enumerate
<1>3. DriverType'
  BY DEF IdeInv, DriverType, DriveType, Places, I!Enumerate
<1>4. ShowsOrLags' /\ BlockThere'
  BY DEF IdeInv, DriveType, DriverType, ShowsOrLags, BlockThere, Between, Places, Statuses, I!Statuses, I!Resting, I!Busy, I!Failing, I!Offers, I!OffersErr, I!Errs, I!Enumerate
<1>5. InStep' /\ Between'
  BY DEF IdeInv, DriveType, DriverType, BlockThere, InStep, Between, Over, Places, Statuses, I!Statuses, I!Resting, I!Busy, I!Failing, I!Offers, I!OffersErr, I!Errs, I!Enumerate
<1> QED BY <1>2, <1>3, <1>4, <1>5 DEF IdeInv

\* The next drive is told to identify itself.
LEMMA IdeStepIdentify == IdeInv /\ I!Identify => IdeInv'
<1> SUFFICES ASSUME IdeInv, I!Identify PROVE IdeInv'
  OBVIOUS
<1> DEFINE job == [I!NoCommand EXCEPT !.command = "identify", !.count = 1]
           at == I!Order[io.i]
<1>a. /\ io.at = "next" /\ io' = [io EXCEPT !.at = "delay", !.op = "identify"]
      /\ I!Command(at, job)
  BY DEF I!Identify
<1>b. job \in [command : {"identify"}, lba : {0}, count : {1}, sent : {0}]
  BY DEF I!NoCommand
<1> HIDE DEF job, at
<1>c. Commanded(at, job)
  BY <1>a, CommandGiven DEF IdeInv
<1>1. PICK status \in {{}, I!Busy}, old \in Statuses :
        ide' = [ide EXCEPT !.at = at, !.job = job, !.status = status, !.shown = old]
  BY <1>c DEF Commanded
<1>2. DriveType'
  <2>1. status \in Statuses
    BY <1>1 DEF Statuses, I!Statuses
  <2>2. job \in [command : {"none", "identify", "read"}, lba : Nat, count : Nat, sent : Nat]
    BY <1>b
  <2> QED BY <1>1, <2>1, <2>2 DEF IdeInv, DriveType
<1>3. DriverType'
  BY <1>a DEF IdeInv, DriverType, Places
<1>4. ShowsOrLags' /\ BlockThere'
  BY <1>a, <1>b, <1>1 DEF IdeInv, DriveType, DriverType, ShowsOrLags, BlockThere, Between, Places, Statuses, I!Statuses, I!Resting, I!Busy, I!Failing, I!Offers, I!OffersErr, I!Errs
<1>5. InStep' /\ Between'
  BY <1>a, <1>b, <1>1 DEF IdeInv, DriveType, DriverType, BlockThere, InStep, Between, Over, Places, Statuses, I!Statuses, I!Resting, I!Busy, I!Failing, I!Offers, I!OffersErr, I!Errs
<1> QED BY <1>2, <1>3, <1>4, <1>5 DEF IdeInv

\* Enumeration ends.
LEMMA StepNoMoreDrives == IdeInv /\ I!NoMoreDrives => IdeInv'
<1> SUFFICES ASSUME IdeInv, I!NoMoreDrives PROVE IdeInv'
  OBVIOUS
<1>2. DriveType'
  BY DEF IdeInv, DriveType, Statuses, I!Statuses, I!Resting, I!Busy, I!Failing, I!Offers, I!OffersErr, I!Errs, I!NoMoreDrives, I!Idle
<1>3. DriverType'
  BY DEF IdeInv, DriverType, DriveType, Places, I!NoMoreDrives, I!Idle
<1>4. ShowsOrLags' /\ BlockThere'
  BY DEF IdeInv, DriveType, DriverType, ShowsOrLags, BlockThere, Between, Places, Statuses, I!Statuses, I!Resting, I!Busy, I!Failing, I!Offers, I!OffersErr, I!Errs, I!NoMoreDrives, I!Idle
<1>5. InStep' /\ Between'
  BY DEF IdeInv, DriveType, DriverType, BlockThere, InStep, Between, Over, Places, Statuses, I!Statuses, I!Resting, I!Busy, I!Failing, I!Offers, I!OffersErr, I!Errs, I!NoMoreDrives, I!Idle
<1> QED BY <1>2, <1>3, <1>4, <1>5 DEF IdeInv

\* The answer to IDENTIFY is waited for.
LEMMA StepPollIdentify == IdeInv /\ I!PollIdentify => IdeInv'
<1> SUFFICES ASSUME IdeInv, I!PollIdentify PROVE IdeInv'
  OBVIOUS
<1>1. /\ io.at = "poll" /\ io.op = "identify" /\ ide' = ide
      /\ \/ io' = [io EXCEPT !.at = "returned", !.ok = FALSE]
         \/ io' = [io EXCEPT !.at = "data"] /\ "BSY" \notin ide.shown /\ "DRQ" \in ide.shown
  BY DEF I!PollIdentify, I!Return
<1>2. DriveType'
  BY <1>1 DEF IdeInv, DriveType, Statuses, I!Statuses, I!Resting, I!Busy, I!Failing, I!Offers, I!OffersErr, I!Errs
<1>3. DriverType'
  BY <1>1, ZenonT(40) DEF IdeInv, DriverType, DriveType, Places
<1>4. ShowsOrLags' /\ BlockThere'
  BY <1>1 DEF IdeInv, DriveType, DriverType, ShowsOrLags, BlockThere, Between, Places, Statuses, I!Statuses, I!Resting, I!Busy, I!Failing, I!Offers, I!OffersErr, I!Errs
<1>5. InStep' /\ Between'
  BY <1>1, ZenonT(40) DEF IdeInv, DriveType, DriverType, BlockThere, InStep, Between, Over, Places, Statuses, I!Statuses, I!Resting, I!Busy, I!Failing, I!Offers, I!OffersErr, I!Errs
<1> QED BY <1>2, <1>3, <1>4, <1>5 DEF IdeInv

\* The drive is found, or is not.
LEMMA IdeStepIdentified == IdeInv /\ I!Identified => IdeInv'
<1> SUFFICES ASSUME IdeInv, I!Identified PROVE IdeInv'
  OBVIOUS
<1>2. DriveType'
  BY DEF IdeInv, DriveType, Statuses, I!Statuses, I!Resting, I!Busy, I!Failing, I!Offers, I!OffersErr, I!Errs, I!Identified
<1>3. DriverType'
  BY DEF IdeInv, DriverType, DriveType, Places, I!Identified
<1>4. ShowsOrLags' /\ BlockThere'
  BY DEF IdeInv, DriveType, DriverType, ShowsOrLags, BlockThere, Between, Places, Statuses, I!Statuses, I!Resting, I!Busy, I!Failing, I!Offers, I!OffersErr, I!Errs, I!Identified
<1>5. InStep' /\ Between'
  BY DEF IdeInv, DriveType, DriverType, BlockThere, InStep, Between, Over, Places, Statuses, I!Statuses, I!Resting, I!Busy, I!Failing, I!Offers, I!OffersErr, I!Errs, I!Identified
<1> QED BY <1>2, <1>3, <1>4, <1>5 DEF IdeInv

\* The wait before the status is read for the first time.
LEMMA StepDelay == IdeInv /\ I!Delay => IdeInv'
<1> SUFFICES ASSUME IdeInv, I!Delay PROVE IdeInv'
  OBVIOUS
<1>2. DriveType'
  BY DEF IdeInv, DriveType, Statuses, I!Statuses, I!Resting, I!Busy, I!Failing, I!Offers, I!OffersErr, I!Errs, I!Delay
<1>3. DriverType'
  BY DEF IdeInv, DriverType, DriveType, Places, I!Delay
<1>4. ShowsOrLags' /\ BlockThere'
  BY DEF IdeInv, DriveType, DriverType, ShowsOrLags, BlockThere, Between, Places, Statuses, I!Statuses, I!Resting, I!Busy, I!Failing, I!Offers, I!OffersErr, I!Errs, I!Delay
<1>5. InStep' /\ Between'
  BY DEF IdeInv, DriveType, DriverType, BlockThere, InStep, Between, Over, Places, Statuses, I!Statuses, I!Resting, I!Busy, I!Failing, I!Offers, I!OffersErr, I!Errs, I!Delay
<1> QED BY <1>2, <1>3, <1>4, <1>5 DEF IdeInv

\* The next block is waited for.
LEMMA StepPollRead == IdeInv /\ I!PollRead => IdeInv'
<1> SUFFICES ASSUME IdeInv, I!PollRead PROVE IdeInv'
  OBVIOUS
<1>1. /\ io.at = "poll" /\ io.op = "read" /\ ide' = ide
      /\ \/ io' = [io EXCEPT !.at = "returned", !.ok = FALSE]
         \/ io' = [io EXCEPT !.at = "data"] /\ "BSY" \notin ide.shown /\ "DRQ" \in ide.shown
  BY DEF I!PollRead, I!Return
<1>2. DriveType'
  BY <1>1 DEF IdeInv, DriveType, Statuses, I!Statuses, I!Resting, I!Busy, I!Failing, I!Offers, I!OffersErr, I!Errs
<1>3. DriverType'
  BY <1>1, ZenonT(40) DEF IdeInv, DriverType, DriveType, Places
<1>4. ShowsOrLags' /\ BlockThere'
  BY <1>1 DEF IdeInv, DriveType, DriverType, ShowsOrLags, BlockThere, Between, Places, Statuses, I!Statuses, I!Resting, I!Busy, I!Failing, I!Offers, I!OffersErr, I!Errs
<1>5. InStep' /\ Between'
  BY <1>1, ZenonT(40) DEF IdeInv, DriveType, DriverType, BlockThere, InStep, Between, Over, Places, Statuses, I!Statuses, I!Resting, I!Busy, I!Failing, I!Offers, I!OffersErr, I!Errs
<1> QED BY <1>2, <1>3, <1>4, <1>5 DEF IdeInv

\* The client is done with the answer.
LEMMA IdeStepReadReturned == IdeInv /\ I!ReadReturned => IdeInv'
<1> SUFFICES ASSUME IdeInv, I!ReadReturned PROVE IdeInv'
  OBVIOUS
<1>2. DriveType'
  BY DEF IdeInv, DriveType, Statuses, I!Statuses, I!Resting, I!Busy, I!Failing, I!Offers, I!OffersErr, I!Errs, I!ReadReturned, I!Idle
<1>3. DriverType'
  BY DEF IdeInv, DriverType, DriveType, Places, I!ReadReturned, I!Idle
<1>4. ShowsOrLags' /\ BlockThere'
  BY DEF IdeInv, DriveType, DriverType, ShowsOrLags, BlockThere, Between, Places, Statuses, I!Statuses, I!Resting, I!Busy, I!Failing, I!Offers, I!OffersErr, I!Errs, I!ReadReturned, I!Idle
<1>5. InStep' /\ Between'
  BY DEF IdeInv, DriveType, DriverType, BlockThere, InStep, Between, Over, Places, Statuses, I!Statuses, I!Resting, I!Busy, I!Failing, I!Offers, I!OffersErr, I!Errs, I!ReadReturned, I!Idle
<1> QED BY <1>2, <1>3, <1>4, <1>5 DEF IdeInv

\* A drive shows the status of a command.
LEMMA StepShows == IdeInv /\ I!Shows => IdeInv'
<1> SUFFICES ASSUME IdeInv, I!Shows PROVE IdeInv'
  OBVIOUS
<1>2. DriveType'
  BY DEF IdeInv, DriveType, Statuses, I!Statuses, I!Resting, I!Busy, I!Failing, I!Offers, I!OffersErr, I!Errs, I!Shows
<1>3. DriverType'
  BY DEF IdeInv, DriverType, DriveType, Places, I!Shows
<1>4. ShowsOrLags' /\ BlockThere'
  BY DEF IdeInv, DriveType, DriverType, ShowsOrLags, BlockThere, Between, Places, Statuses, I!Statuses, I!Resting, I!Busy, I!Failing, I!Offers, I!OffersErr, I!Errs, I!Shows
<1>5. InStep' /\ Between'
  BY DEF IdeInv, DriveType, DriverType, BlockThere, InStep, Between, Over, Places, Statuses, I!Statuses, I!Resting, I!Busy, I!Failing, I!Offers, I!OffersErr, I!Errs, I!Shows
<1> QED BY <1>2, <1>3, <1>4, <1>5 DEF IdeInv

\* A drive has a block, or an error.
LEMMA StepAnswers == IdeInv /\ I!Answers => IdeInv'
<1> SUFFICES ASSUME IdeInv, I!Answers PROVE IdeInv'
  OBVIOUS
<1>2. DriveType'
  BY DEF IdeInv, DriveType, Statuses, I!Statuses, I!Resting, I!Busy, I!Failing, I!Offers, I!OffersErr, I!Errs, I!Answers
<1>3. DriverType'
  BY DEF IdeInv, DriverType, DriveType, Places, I!Answers
<1>4. ShowsOrLags' /\ BlockThere'
  BY DEF IdeInv, DriveType, DriverType, ShowsOrLags, BlockThere, Between, Places, Statuses, I!Statuses, I!Resting, I!Busy, I!Failing, I!Offers, I!OffersErr, I!Errs, I!Answers
<1>5. InStep' /\ Between'
  BY DEF IdeInv, DriveType, DriverType, BlockThere, InStep, Between, Over, Places, Statuses, I!Statuses, I!Resting, I!Busy, I!Failing, I!Offers, I!OffersErr, I!Errs, I!Answers
<1> QED BY <1>2, <1>3, <1>4, <1>5 DEF IdeInv

\* A product of numbers that are not 0 is none either.
LEMMA Positive ==
  ASSUME NEW a \in Nat \ {0}
  PROVE  a * a \in Nat \ {0} /\ a * a * a \in Nat \ {0} /\ a * a * a * a \in Nat \ {0}
<1>1. \A b, c \in Nat \ {0} : b * c \in Nat \ {0}
  OBVIOUS
<1>2. a * a \in Nat \ {0}
  BY <1>1
<1>3. a * a * a \in Nat \ {0}
  BY <1>1, <1>2
<1> QED BY <1>1, <1>2, <1>3

\* The next command of a read is given.
LEMMA StepNextCommand == IdeInv /\ I!NextCommand => IdeInv'
<1> SUFFICES ASSUME IdeInv, I!NextCommand PROVE IdeInv'
  OBVIOUS
<1>1. CASE io.lba = io.endLBA
  <2>1. io.at = "command" /\ io' = [io EXCEPT !.at = "returned", !.ok = TRUE] /\ ide' = ide
    BY <1>1 DEF I!NextCommand, I!Return
  <2>2. DriveType' /\ DriverType'
    BY <2>1 DEF IdeInv, DriveType, DriverType, Places
  <2>3. ShowsOrLags' /\ BlockThere' /\ InStep' /\ Between'
    BY <1>1, <2>1 DEF IdeInv, DriverType, ShowsOrLags, BlockThere, InStep, Between, Over
  <2> QED BY <2>2, <2>3 DEF IdeInv
<1>2. CASE io.lba # io.endLBA
  <2> DEFINE disk == ideDisks[io.disk]
             most == IF disk.lba48 THEN MAX48 ELSE MAX28
             sectors_to_read == I!Minimum(io.endLBA - io.lba, most)
             job == [command |-> "read", count |-> sectors_to_read, sent |-> 0,
                     lba |-> IF disk.lba48 THEN I!Masked(io.lba) ELSE io.lba]
             at == disk.at
  <2>1. /\ io.at = "command" /\ I!Command(at, job)
        /\ io' = [io EXCEPT !.at = "delay", !.left = sectors_to_read, !.lba = @ + sectors_to_read]
    BY <1>2 DEF I!NextCommand
  <2>2. sectors_to_read \in Nat /\ sectors_to_read >= 1 /\ io.lba + sectors_to_read <= io.endLBA
    <3>1. io.lba \in Nat /\ io.endLBA \in Nat /\ io.lba < io.endLBA
      BY <1>2, <2>1 DEF IdeInv, DriverType, Between
    <3>2. most \in Nat \ {0}
      BY CommandsAssumption
    <3> HIDE DEF most
    <3> QED BY <3>1, <3>2 DEF I!Minimum
  <2> HIDE DEF sectors_to_read
  <2> DEFINE lba == IF disk.lba48 THEN I!Masked(io.lba) ELSE io.lba
  <2>a. lba \in Nat
    <3>1. /\ io.lba \in Nat /\ BYTE \in Nat \ {0} /\ NIBBLE \in Nat \ {0}
      BY CommandsAssumption DEF IdeInv, DriverType
    <3> DEFINE three == BYTE * BYTE * BYTE
    <3>2. three \in Nat \ {0} /\ three * BYTE \in Nat \ {0} /\ BYTE * BYTE \in Nat \ {0}
      BY <3>1, Positive
    <3>3. I!Masked(io.lba) \in Nat
      <4> DEFINE above == io.lba \div (three * BYTE)
                 fourth == (io.lba \div three) % NIBBLE
                 middle == (io.lba \div BYTE) % (BYTE * BYTE)
                 first == io.lba % NIBBLE
      <4> HIDE DEF three
      <4>1. above \in Nat /\ fourth \in Nat /\ middle \in Nat /\ first \in Nat
        <5>1. io.lba \div (three * BYTE) \in Nat /\ io.lba \div three \in Nat /\ io.lba \div BYTE \in Nat
          BY <3>1, <3>2
        <5> QED BY <3>1, <3>2, <5>1
      <4>2. I!Masked(io.lba) = above * (three * BYTE) + fourth * three + middle * BYTE + first
        BY DEF I!Masked, three
      <4> HIDE DEF above, fourth, middle, first
      <4>3. /\ above * (three * BYTE) \in Nat /\ fourth * three \in Nat /\ middle * BYTE \in Nat
        BY <3>1, <3>2, <4>1
      <4> QED BY <4>1, <4>2, <4>3
    <3> QED BY <3>1, <3>3
  <2> HIDE DEF lba
  <2>3. job.command = "read" /\ job.count = sectors_to_read /\ job.sent = 0
        /\ job \in [command : {"none", "identify", "read"}, lba : Nat, count : Nat, sent : Nat]
    BY <2>2, <2>a DEF lba
  <2> HIDE DEF job, at
  <2>4. Commanded(at, job)
    BY <2>1, CommandGiven DEF IdeInv
  <2>5. PICK status \in {{}, I!Busy}, old \in Statuses :
          ide' = [ide EXCEPT !.at = at, !.job = job, !.status = status, !.shown = old]
    BY <2>4 DEF Commanded
  <2>6. DriveType'
    <3>1. status \in Statuses
      BY <2>5 DEF Statuses, I!Statuses
    <3> QED BY <2>3, <2>5, <3>1 DEF IdeInv, DriveType
  <2>7. DriverType'
    <3> DEFINE next == io.lba + sectors_to_read
    <3>1. next \in Nat /\ "delay" \in Places
      BY <2>2 DEF IdeInv, DriverType, Places
    <3>2. io' = [io EXCEPT !.at = "delay", !.left = sectors_to_read, !.lba = next]
      BY <2>1
    <3> HIDE DEF next
    <3> QED BY <2>2, <3>1, <3>2 DEF IdeInv, DriverType
  <2>8. ShowsOrLags' /\ BlockThere'
    BY <2>1 DEF IdeInv, DriverType, ShowsOrLags, BlockThere
  <2>9. InStep' /\ Between'
    BY <2>1, <2>2, <2>3, <2>5 DEF IdeInv, DriveType, DriverType, InStep, Between
  <2> QED BY <2>6, <2>7, <2>8, <2>9 DEF IdeInv
<1> QED BY <1>1, <1>2

\* A block is taken from the data register.
LEMMA StepReadData == IdeInv /\ I!ReadData => IdeInv'
<1> SUFFICES ASSUME IdeInv, I!ReadData PROVE IdeInv'
  OBVIOUS
<1> DEFINE sent == ide.job.sent + 1
<1>1. io.at = "data" /\ "DRQ" \in ide.status /\ ~io.missed
  BY DEF IdeInv, BlockThere, I!ReadData
<1>2. I!Offered # I!Junk
  <2>1. CASE io.op = "identify"
    BY <1>1, <2>1 DEF I!Offered, I!Junk, I!Identification
  <2>2. CASE io.op # "identify"
    <3>1. ide.job.lba \in Nat /\ ide.job.sent \in Nat
      BY DEF IdeInv, DriveType
    <3> QED BY <1>1, <2>2, <3>1 DEF I!Offered, I!Junk
  <2> QED BY <2>1, <2>2
<1>3. ide' = [ide EXCEPT !.job.sent = sent, !.status = IF sent < ide.job.count THEN I!Busy ELSE I!Resting]
  BY <1>1 DEF I!ReadData
<1>4. io' = IF io.op = "identify" THEN [io EXCEPT !.at = "returned", !.ok = TRUE, !.missed = FALSE]
            ELSE [io EXCEPT !.left = @ - 1, !.missed = FALSE,
                            !.at = IF io.left = 1 THEN "command" ELSE "delay"]
  BY <1>1, <1>2 DEF I!ReadData
<1>5. ide.job.sent \in Nat /\ ide.job.count \in Nat /\ io.left \in Nat
  BY DEF IdeInv, DriveType, DriverType
<1>6. DriveType'
  <2> DEFINE status == IF sent < ide.job.count THEN I!Busy ELSE I!Resting
             job == [ide.job EXCEPT !.sent = sent]
  <2>1. status \in Statuses
    BY DEF Statuses, I!Statuses
  <2>2. job \in [command : {"none", "identify", "read"}, lba : Nat, count : Nat, sent : Nat]
    BY <1>5 DEF IdeInv, DriveType
  <2>3. ide' = [ide EXCEPT !.job = job, !.status = status]
    BY <1>3
  <2> HIDE DEF status, job
  <2> QED BY <2>1, <2>2, <2>3 DEF IdeInv, DriveType
<1>7. io.op # "identify" => io.op = "read" /\ io.lba <= io.endLBA /\ io.left >= 1 /\ sent + (io.left - 1) = ide.job.count
  BY <1>1, <1>5 DEF IdeInv, InStep, Between
<1>8. DriverType'
  <2>1. CASE io.op = "identify"
    BY <1>4, <2>1 DEF IdeInv, DriverType, Places
  <2>2. CASE io.op # "identify"
    <3> DEFINE at == IF io.left = 1 THEN "command" ELSE "delay"
    <3>1. at \in Places /\ io.left - 1 \in Nat
      BY <1>5, <1>7, <2>2 DEF Places
    <3>2. io' = [io EXCEPT !.left = @ - 1, !.missed = FALSE, !.at = at]
      BY <1>4, <2>2
    <3> HIDE DEF at
    <3> QED BY <3>1, <3>2 DEF IdeInv, DriverType
  <2> QED BY <2>1, <2>2
<1>9. ShowsOrLags' /\ BlockThere'
  BY <1>4 DEF IdeInv, DriverType, ShowsOrLags, BlockThere
<1>10. InStep' /\ Between'
  <2>1. ide'.job.sent = sent /\ ide'.job.count = ide.job.count
        /\ ide'.status = IF sent < ide.job.count THEN I!Busy ELSE I!Resting
    BY <1>3 DEF IdeInv, DriveType
  <2>2. CASE io.op = "identify"
    BY <1>4, <2>2 DEF IdeInv, DriverType, InStep, Between
  <2>3. CASE io.op # "identify"
    BY <1>4, <1>5, <1>7, <2>1, <2>3 DEF IdeInv, DriverType, InStep, Between, Over
  <2> QED BY <2>2, <2>3
<1> QED BY <1>6, <1>8, <1>9, <1>10 DEF IdeInv

\* EnumerateDisks and Read, by a client.
LEMMA StepCall == IdeInv /\ I!Call => IdeInv'
<1> SUFFICES ASSUME IdeInv, I!Call PROVE IdeInv'
  OBVIOUS
<1>1. CASE I!Enumerate
  BY <1>1, StepEnumerate
<1>2. ASSUME NEW d, NEW request \in Requests, I!Read(d, request)
      PROVE  IdeInv'
  <2> DEFINE end == request.lba + request.count
  <2>1. /\ io.at = "idle" /\ ide' = ide
        /\ io' = [io EXCEPT !.at = "command", !.op = "read", !.disk = d, !.lba = request.lba,
                            !.start = request.lba, !.endLBA = end, !.reads = @ + 1]
    BY <1>2 DEF I!Read
  <2>2. request.lba \in Nat /\ end \in Nat /\ request.lba < end
    BY RequestsAssumption
  <2> HIDE DEF end
  <2>3. DriveType' /\ DriverType'
    BY <2>1, <2>2 DEF IdeInv, DriveType, DriverType, Places
  <2>4. ShowsOrLags' /\ BlockThere'
    BY <2>1 DEF IdeInv, DriverType, ShowsOrLags, BlockThere
  <2>5. InStep' /\ Between'
    BY <2>1, <2>2 DEF IdeInv, DriverType, InStep, Between
  <2> QED BY <2>3, <2>4, <2>5 DEF IdeInv
<1> QED BY <1>1, <1>2 DEF I!Call

\* No step of either driver, of a client or of a device breaks the invariant.
LEMMA StepIde == IdeInv /\ [Next]_vars => IdeInv'
<1> SUFFICES ASSUME IdeInv, [Next]_vars PROVE IdeInv'
  OBVIOUS
<1>1. CASE UNCHANGED <<ide, io>>
  BY <1>1 DEF IdeInv, DriveType, DriverType, ShowsOrLags, BlockThere, InStep, Between, Over
<1>2. CASE I!Driver
  BY <1>2, IdeStepIdentify, StepNoMoreDrives, StepPollIdentify, IdeStepIdentified, StepNextCommand, StepDelay,
     StepPollRead, StepReadData, IdeStepReadReturned DEF I!Driver
<1>3. CASE I!Device
  BY <1>3, StepShows, StepAnswers DEF I!Device
<1>4. CASE Call
  <2>1. I!Call \/ I!Enumerate \/ UNCHANGED <<ide, io>>
    BY <1>4 DEF Call, ideVars
  <2> QED BY <1>1, <2>1, StepCall, StepEnumerate
<1> QED BY <1>1, <1>2, <1>3, <1>4 DEF Next, vars, ideVars, AhciRuns, IdeRuns, AhciDevice, IdeDevice

\* At boot nothing was asked of any drive.
LEMMA InitIde == Init => IdeInv
<1> SUFFICES ASSUME Init PROVE IdeInv
  OBVIOUS
<1>1. PICK m \in Machines : I!Init(m.ide)
  BY DEF Init
<1>2. DriveType
  BY <1>1 DEF I!Init, I!NoCommand, DriveType, Statuses
<1>3. DriverType
  BY <1>1 DEF I!Init, DriverType, Places
<1>4. ShowsOrLags /\ BlockThere /\ InStep /\ Between
  BY <1>1 DEF I!Init, ShowsOrLags, BlockThere, InStep, Between
<1> QED BY <1>2, <1>3, <1>4 DEF IdeInv

\* The invariant holds in every state, whatever the drives are and do.
THEOREM IdeInvariant == Spec => []IdeInv
<1>1. Init => IdeInv
  BY InitIde
<1>2. IdeInv /\ [Next]_vars => IdeInv'
  BY StepIde
<1> QED BY <1>1, <1>2, PTL DEF Spec

\* The data register is read only while the drive offers a block, and a Read that
\* answers true has taken all of its last command.
THEOREM NothingMissed == Spec => []TakesWhatIsOffered
<1>1. IdeInv => TakesWhatIsOffered
  <2>1. "DRQ" \notin I!Resting
    BY DEF I!Resting
  <2> QED BY <2>1 DEF IdeInv, BlockThere, Between, Over, TakesWhatIsOffered, I!TakesWhatIsOffered
<1> QED BY <1>1, IdeInvariant, PTL
-----------------------------------------------------------------------------
(***************************************************************************)
(* The AHCI driver.                                                        *)
(***************************************************************************)

(***************************************************************************)
(* The types.                                                              *)
(***************************************************************************)
Controllers == A!Controllers
Ports == A!Ports
Cells ==
  [kind : {"fis"}, command : {"identify", "ext", "dma"}, lba : Nat, count : Nat]
  \cup [kind : {"prdt"}, dba : {0, 1}, blocks : Nat] \cup [kind : {"empty"}]
PortType ==
  [pi : BOOLEAN, drive : {"none", "lba28", "lba48"}, busy : BOOLEAN, st : BOOLEAN, cr : BOOLEAN,
   fre : BOOLEAN, fr : BOOLEAN, clb : Controllers \cup {NoController}, is : BOOLEAN, ci : BOOLEAN,
   phase : {"idle", "issued", "running"}, prdbc : Nat, fis : Cells]
DiskType ==
  [con : Controllers \cup {NoController}, port : Ports, lba48 : BOOLEAN, capacity : Int]

HwType == hw \in [Controllers -> [Ports -> PortType]]
TablesType == tables \in [Controllers -> [0 .. NPORT -> Cells]]
DisksType == disks \in [A!Slots -> DiskType]
DrvType ==
  drv \in [at : {drv.at}, c : 0 .. NCON, p : 0 .. NPORT, length : 0 .. MaxDisks,
           cur : 0 .. MaxDisks, spin : {drv.spin}, op : {drv.op}, lba : Nat, count : Nat,
           dba : {0, 1}, ok : {drv.ok}, reads : {drv.reads}]

(***************************************************************************)
(* Where the driver is.                                                    *)
(***************************************************************************)
Enumerating == {"memory", "stopList", "stopFis", "ports", "start engines", "identify"}
Polls == {"poll errors", "poll completion"}
Commands == {"spin", "issue", "poll errors", "poll completion", "returned"}
AtPort == {"stopList", "stopFis", "start engines", "identify"} \cup Commands
OfIdentify == drv.at \in {"start engines", "identify"} \/ (drv.at \in Commands /\ drv.op = "identify")

Placed ==
  /\ drv.at \in Enumerating \cup Commands => drv.c \in Controllers
  /\ drv.at \in AtPort => drv.p \in Ports
  /\ drv.at \in Commands => drv.op \in {"identify", "read"}
Counted ==
  /\ drv.length + drv.cur <= MaxDisks
  /\ drv.at \notin {"ports", "halted"} /\ ~OfIdentify => drv.cur = 0
  /\ OfIdentify => drv.length + drv.cur < MaxDisks

(***************************************************************************)
(* What the ports have been told.                                          *)
(***************************************************************************)
Given(c, p) == hw[c][p].pi => hw[c][p].clb = c
MemoryGiven ==
  /\ drv.at \in {"memory", "stopList", "stopFis"} => \A q \in Ports : q < drv.p => Given(drv.c, q)
  /\ drv.at = "ports" \/ OfIdentify => \A q \in Ports : Given(drv.c, q)
Ready(c, p) == c \in Controllers /\ p \in Ports /\ hw[c][p].pi /\ hw[c][p].clb = c
DisksReady == \A d \in 1 .. drv.length + drv.cur : Ready(disks[d].con, disks[d].port)
PortReady ==
  /\ drv.at \in {"stopList", "stopFis"} => A!Port.pi
  /\ drv.at \in Commands \cup {"identify"} => Ready(drv.c, drv.p)
SlotFilled == OfIdentify => disks[A!Slot].con = drv.c /\ disks[A!Slot].port = drv.p

EnginesStopped ==
  /\ drv.at = "stopList" => ~A!Port.st
  /\ drv.at = "stopFis" => ~A!Port.st /\ ~A!Port.cr /\ ~A!Port.fre

\* A command is under way at one port at most, and the driver is waiting for it.
OneCommand ==
  \A c \in Controllers, p \in Ports :
    hw[c][p].phase # "idle" =>
      drv.at \in Polls /\ c = drv.c /\ p = drv.p /\ hw[c][p].ci /\ ~hw[c][p].is

\* Its cells, which the next port's may overlap, are this command's, and the buffer
\* holds what was asked for as far as prdbc counts.
Asked(fis) ==
  fis.kind = "fis" /\ fis.lba = drv.lba /\ (fis.command = "identify" <=> drv.op = "identify")
Expected(i) == A!Block([command |-> drv.op, lba |-> drv.lba], i)
Prepared ==
  drv.at \in {"spin", "issue"} \cup Polls =>
    /\ tables[drv.c][A!PrdtCell(drv.c, drv.p)] = A!Prdt(drv.dba, drv.count)
    /\ Asked(tables[drv.c][A!FisCell(drv.c, drv.p)])
    /\ buf \in [1 .. drv.count -> Int]
    /\ A!Port.phase = "running" => Asked(A!Port.fis)
    /\ A!Port.prdbc <= drv.count
    /\ \A i \in 1 .. A!Port.prdbc : buf[i] = Expected(i)
    /\ drv.at \in {"spin", "issue"} => A!Port.prdbc = 0 /\ ~A!Port.is

Types == HwType /\ TablesType /\ DisksType /\ DrvType
Told == MemoryGiven /\ DisksReady /\ PortReady /\ SlotFilled /\ EnginesStopped
IInv ==
  /\ Types /\ Placed /\ Counted /\ Told /\ OneCommand /\ Prepared
  /\ A!ReadsWhole /\ ~stray
-----------------------------------------------------------------------------
(***************************************************************************)
(* Steps of a port, and what they leave as it was.                         *)
(***************************************************************************)
PortIs(c, p, new) ==
  \A a \in Controllers, b \in Ports : hw'[a][b] = IF a = c /\ b = p THEN new ELSE hw[a][b]

\* A step that changes one port.
LEMMA PortChanged ==
  ASSUME HwType, NEW c \in Controllers, NEW p \in Ports, NEW new \in PortType,
         hw' = [hw EXCEPT ![c][p] = new]
  PROVE  HwType' /\ PortIs(c, p, new)
<1> USE DEF HwType
<1> HIDE DEF PortType
<1>1. hw' \in [Controllers -> [Ports -> PortType]]
  OBVIOUS
<1>2. PortIs(c, p, new)
  BY DEF PortIs
<1> QED BY <1>1, <1>2

\* A step that changes none.
LEMMA PortsSame ==
  ASSUME HwType, UNCHANGED hw
  PROVE  HwType' /\ \A c \in Controllers, p \in Ports : hw'[c][p] = hw[c][p]
BY DEF HwType

\* Ports stay implemented, and are given their own controller's memory if any.
Registers ==
  \A c \in Controllers, p \in Ports :
    /\ hw'[c][p].pi = hw[c][p].pi
    /\ hw'[c][p].clb = hw[c][p].clb \/ hw'[c][p].clb = c

\* A step that leaves the ports leaves what they were given.
LEMMA RegistersSame ==
  ASSUME UNCHANGED hw PROVE Registers
BY DEF Registers

\* So does one that changes a port, but not what it was given.
LEMMA RegistersChanged ==
  ASSUME NEW c \in Controllers, NEW p \in Ports, NEW new, PortIs(c, p, new),
         new.pi = hw[c][p].pi, new.clb = hw[c][p].clb \/ new.clb = c
  PROVE  Registers
BY DEF Registers, PortIs


\* Which cells a port works with depends on what is implemented only.
LEMMA CellsSame ==
  ASSUME Registers, NEW c \in Controllers, NEW p \in Ports
  PROVE  A!PrdtCell(c, p)' = A!PrdtCell(c, p) /\ A!FisCell(c, p)' = A!FisCell(c, p)
<1>1. A!Implemented(c)' = A!Implemented(c)
  BY DEF Registers, A!Implemented, Ports
<1>2. A!Which(c, p)' = A!Which(c, p)
  BY <1>1 DEF A!Which
<1> QED BY <1>2 DEF A!PrdtCell, A!FisCell

\* The instance counts what the standard module counts.
LEMMA CardinalitySame ==
  ASSUME NEW S PROVE A!Cardinality(S) = Cardinality(S)
BY DEF A!Cardinality, Cardinality

\* The cells of an implemented port are two, and there are such cells.
LEMMA CellsExist ==
  ASSUME NEW c \in Controllers, NEW p \in Ports, hw[c][p].pi
  PROVE  /\ A!FisCell(c, p) \in 0 .. NPORT /\ A!PrdtCell(c, p) \in 0 .. NPORT
         /\ A!FisCell(c, p) # A!PrdtCell(c, p)
<1> DEFINE Before == {q \in A!Implemented(c) : q < p}
<1>1. p \in A!Implemented(c)
  BY DEF A!Implemented, Ports
<1>2. p \in Nat /\ p <= NPORT - 1 /\ NPORT \in Nat
  BY AhciAssumption DEF Ports, A!Ports
<1>3. Before \subseteq 0 .. p - 1
  BY <1>2 DEF A!Implemented, Ports, A!Ports
<1>4. IsFiniteSet(0 .. p - 1) /\ Cardinality(0 .. p - 1) <= p
  BY <1>2, FS_Interval
<1>5. Cardinality(Before) \in Nat /\ Cardinality(Before) <= p
  BY <1>2, <1>3, <1>4, FS_Subset, FS_CardinalityType
<1>6. A!Which(c, p) = Cardinality(Before)
  BY <1>1, CardinalitySame DEF A!Which
<1> HIDE DEF Before
<1> QED BY <1>2, <1>5, <1>6 DEF A!FisCell, A!PrdtCell

Found == drv.length + drv.cur
DisksSame == \A d \in 1 .. Found : disks'[d].con = disks[d].con /\ disks'[d].port = disks[d].port

\* The disks found so far stay usable.
LEMMA DisksStayReady ==
  ASSUME DrvType, DrvType', DisksReady, Registers, DisksSame, Found' <= Found
  PROVE  DisksReady'
<1>1. Found \in Int /\ Found' \in Int
  BY AhciAssumption, SMTT(30) DEF DrvType, Found
<1>2. SUFFICES ASSUME NEW d \in 1 .. Found'
               PROVE  Ready(disks[d].con, disks[d].port)'
  BY DEF DisksReady, Found
<1>3. d \in 1 .. Found
  BY <1>1, <1>2
<1>4. Ready(disks[d].con, disks[d].port)
  BY <1>3 DEF DisksReady, Found
<1>5. disks'[d].con = disks[d].con /\ disks'[d].port = disks[d].port
  BY <1>3 DEF DisksSame
<1> QED BY <1>4, <1>5 DEF Ready, Registers, Controllers, Ports, A!Controllers, A!Ports

\* A port that has its memory keeps it.
LEMMA GivenStays ==
  ASSUME Registers, NEW c \in Controllers, NEW p \in Ports, Given(c, p)
  PROVE  Given(c, p)'
BY DEF Given, Registers

\* A port that is ready stays ready.
LEMMA ReadyStays ==
  ASSUME Registers, NEW c, NEW p, Ready(c, p)
  PROVE  Ready(c, p)'
BY DEF Ready, Registers, Controllers, Ports, A!Controllers, A!Ports

PhasesSame == \A c \in Controllers, p \in Ports : hw'[c][p].phase = hw[c][p].phase
Waiting == drv.at \in {"spin", "issue", "poll errors", "poll completion"}

\* While no command is under way, none is after a step that begins none.
LEMMA NoCommandYet ==
  ASSUME OneCommand, drv.at \notin Polls, PhasesSame, ~Waiting', drv'.at # "returned"
  PROVE  OneCommand' /\ Prepared' /\ A!ReadsWhole'
<1>1. \A c \in Controllers, p \in Ports : hw'[c][p].phase = "idle"
  BY DEF OneCommand, PhasesSame
<1>2. OneCommand'
  BY <1>1 DEF OneCommand, Controllers, Ports, A!Controllers, A!Ports
<1>3. Prepared'
  BY DEF Waiting, Prepared, Polls
<1>4. A!ReadsWhole'
  BY DEF A!ReadsWhole
<1> QED BY <1>2, <1>3, <1>4

\* What every step keeps that changes no command: the types, the disks found so
\* far, and what is said of commands.
LEMMA NoCommandStep ==
  ASSUME IInv, HwType', DisksType', DrvType', UNCHANGED <<tables, stray>>,
         Registers, PhasesSame, DisksSame, Found' <= Found,
         drv.at \notin Polls, ~Waiting', drv'.at # "returned"
  PROVE  Types' /\ DisksReady' /\ OneCommand' /\ Prepared' /\ A!ReadsWhole' /\ ~stray'
<1>1. Types' /\ ~stray'
  BY DEF IInv, Types, TablesType
<1>2. DisksReady'
  BY DisksStayReady DEF IInv, Types, Told
<1> QED BY <1>1, <1>2, NoCommandYet DEF IInv

\* The same for a step that changes no port and finds no disk either.
LEMMA DriverStep ==
  ASSUME IInv, DrvType', UNCHANGED <<hw, tables, disks, stray>>, Found' <= Found,
         drv.at \notin Polls, ~Waiting', drv'.at # "returned"
  PROVE  Types' /\ DisksReady' /\ OneCommand' /\ Prepared' /\ A!ReadsWhole' /\ ~stray'
<1>1. HwType' /\ DisksType'
  BY DEF IInv, Types, HwType, DisksType
<1>2. Registers /\ PhasesSame /\ DisksSame
  BY DEF Registers, PhasesSame, DisksSame
<1> QED BY <1>1, <1>2, NoCommandStep
-----------------------------------------------------------------------------
(***************************************************************************)
(* The steps of the driver that enumerate.                                 *)
(***************************************************************************)

\* EnumerateDisks is called.
LEMMA StepEnumerateDisks == IInv /\ A!EnumerateDisks => IInv'
<1> SUFFICES ASSUME IInv, A!EnumerateDisks PROVE IInv'
  OBVIOUS
<1>1. /\ drv.at = "start" /\ drv' = [drv EXCEPT !.at = "devices"]
      /\ UNCHANGED <<hw, tables, disks, stray>>
  BY DEF A!EnumerateDisks, A!Goto
<1>2. /\ drv'.at = "devices" /\ drv'.c = drv.c /\ drv'.p = drv.p /\ drv'.length = drv.length
      /\ drv'.cur = drv.cur /\ DrvType'
  BY <1>1 DEF IInv, Types, DrvType
<1>3. Types' /\ DisksReady' /\ OneCommand' /\ Prepared' /\ A!ReadsWhole' /\ ~stray'
  <2>1. Found' <= Found
    BY <1>2, AhciAssumption DEF IInv, Types, DrvType, Found
  <2> QED BY <1>1, <1>2, <2>1, DriverStep DEF Polls, Waiting
<1>4. Placed' /\ Counted'
  <2>1. Placed'
    BY <1>1, <1>2 DEF IInv, Placed, Enumerating, AtPort, Commands
  <2>2. Counted'
    BY <1>1, <1>2 DEF IInv, Counted, Commands, OfIdentify
  <2> QED BY <2>1, <2>2
<1>5. MemoryGiven' /\ PortReady' /\ SlotFilled' /\ EnginesStopped'
  BY <1>2 DEF MemoryGiven, PortReady, SlotFilled, EnginesStopped, OfIdentify, Commands
<1> QED BY <1>3, <1>4, <1>5 DEF IInv, Told

\* Where the counters begin.
LEMMA Zero == 0 \in 0 .. NCON /\ 0 \in 0 .. NPORT /\ 0 \in 0 .. MaxDisks /\ 0 \in Nat
BY AhciAssumption

\* Between calls the locals are gone.
LEMMA BackToIdle ==
  ASSUME DrvType, drv' = A!Idle(drv)
  PROVE  drv'.at = "idle" /\ drv'.length = drv.length /\ drv'.cur = 0 /\ DrvType'
<1>2. drv' = [at |-> "idle", c |-> 0, p |-> 0, length |-> drv.length, cur |-> 0, spin |-> 0,
              op |-> "none", lba |-> 0, count |-> 0, dba |-> drv.dba, ok |-> FALSE,
              reads |-> drv.reads]
  BY DEF DrvType, A!Idle
<1>3. drv.length \in 0 .. MaxDisks /\ drv.dba \in {0, 1}
  BY DEF DrvType
<1> QED BY Zero, <1>2, <1>3 DEF DrvType

\* EnumerateDisks returns.
LEMMA StepNoMoreControllers == IInv /\ A!NoMoreControllers => IInv'
<1> SUFFICES ASSUME IInv, A!NoMoreControllers PROVE IInv'
  OBVIOUS
<1>1. /\ drv.at = "devices" /\ drv' = A!Idle(drv)
      /\ UNCHANGED <<hw, tables, disks, stray>>
  BY DEF A!NoMoreControllers
<1>2. drv'.at = "idle" /\ drv'.length = drv.length /\ drv'.cur = 0 /\ DrvType'
  BY <1>1, BackToIdle DEF IInv, Types
<1>3. Types' /\ DisksReady' /\ OneCommand' /\ Prepared' /\ A!ReadsWhole' /\ ~stray'
  <2>1. Found' <= Found
    BY <1>2, AhciAssumption DEF IInv, Types, DrvType, Found
  <2> QED BY <1>1, <1>2, <2>1, DriverStep DEF Polls, Waiting
<1>4. Placed' /\ Counted'
  <2>1. Placed'
    BY <1>1, <1>2, AhciAssumption DEF IInv, Placed, Enumerating, AtPort, Commands, Types, DrvType
  <2>2. Counted'
    BY <1>1, <1>2, AhciAssumption DEF IInv, Counted, Commands, OfIdentify, Types, DrvType
  <2> QED BY <2>1, <2>2
<1>5. MemoryGiven' /\ PortReady' /\ SlotFilled' /\ EnginesStopped'
  BY <1>2 DEF MemoryGiven, PortReady, SlotFilled, EnginesStopped, OfIdentify, Commands
<1> QED BY <1>3, <1>4, <1>5 DEF IInv, Told

\* A client is done with the answer of Read.
LEMMA StepReadReturned == IInv /\ A!ReadReturned => IInv'
<1> SUFFICES ASSUME IInv, A!ReadReturned PROVE IInv'
  OBVIOUS
<1>1. /\ drv.at = "returned" /\ drv.op = "read" /\ drv' = A!Idle(drv)
      /\ UNCHANGED <<hw, tables, disks, stray>>
  BY DEF A!ReadReturned
<1>2. drv'.at = "idle" /\ drv'.length = drv.length /\ drv'.cur = 0 /\ DrvType'
  BY <1>1, BackToIdle DEF IInv, Types
<1>3. Types' /\ DisksReady' /\ OneCommand' /\ Prepared' /\ A!ReadsWhole' /\ ~stray'
  <2>1. Found' <= Found
    BY <1>2, AhciAssumption DEF IInv, Types, DrvType, Found
  <2> QED BY <1>1, <1>2, <2>1, DriverStep DEF Polls, Waiting
<1>4. Placed' /\ Counted'
  <2>1. Placed'
    BY <1>1, <1>2, AhciAssumption DEF IInv, Placed, Enumerating, AtPort, Commands, Types, DrvType
  <2>2. Counted'
    BY <1>1, <1>2, AhciAssumption DEF IInv, Counted, Commands, OfIdentify, Types, DrvType
  <2> QED BY <2>1, <2>2
<1>5. MemoryGiven' /\ PortReady' /\ SlotFilled' /\ EnginesStopped'
  BY <1>2 DEF MemoryGiven, PortReady, SlotFilled, EnginesStopped, OfIdentify, Commands
<1> QED BY <1>3, <1>4, <1>5 DEF IInv, Told

\* The next controller.
LEMMA StepController == IInv /\ A!Controller => IInv'
<1> SUFFICES ASSUME IInv, A!Controller PROVE IInv'
  OBVIOUS
<1>1. /\ drv.at = "devices" /\ drv.c < NCON
      /\ \/ drv' = [drv EXCEPT !.c = drv.c + 1]
         \/ drv' = [drv EXCEPT !.c = drv.c + 1, !.p = 0, !.at = "memory"]
      /\ UNCHANGED <<hw, tables, disks, stray>>
  BY DEF A!Controller
<1>2. /\ drv'.at = "devices" \/ (drv'.at = "memory" /\ drv'.p = 0)
      /\ drv'.c = drv.c + 1 /\ drv'.length = drv.length /\ drv'.cur = drv.cur /\ DrvType'
  <2> DEFINE next == drv.c + 1
  <2>1. next \in 0 .. NCON /\ 0 \in 0 .. NPORT
    BY <1>1, AhciAssumption DEF IInv, Types, DrvType
  <2>2. \/ drv' = [drv EXCEPT !.c = next]
        \/ drv' = [drv EXCEPT !.c = next, !.p = 0, !.at = "memory"]
    BY <1>1
  <2>3. next = drv.c + 1
    OBVIOUS
  <2> HIDE DEF next
  <2> QED BY <1>1, <2>1, <2>2, <2>3, ZenonT(40) DEF IInv, Types, DrvType
<1>3. Types' /\ DisksReady' /\ OneCommand' /\ Prepared' /\ A!ReadsWhole' /\ ~stray'
  <2>1. Found' <= Found
    BY <1>2, AhciAssumption DEF IInv, Types, DrvType, Found
  <2> QED BY <1>1, <1>2, <2>1, DriverStep DEF Polls, Waiting
<1>4. Placed' /\ Counted'
  <2>1. Placed'
    <3>1. drv'.c \in Controllers
      BY <1>1, <1>2, AhciAssumption DEF IInv, Types, DrvType, Controllers, A!Controllers
    <3>2. drv'.at \in {"devices", "memory"}
      BY <1>2
    <3> QED BY <3>1, <3>2 DEF Placed, AtPort, Commands, Controllers, A!Controllers
  <2>2. Counted'
    BY <1>1, <1>2, AhciAssumption DEF IInv, Counted, Commands, OfIdentify, Types, DrvType, Controllers, A!Controllers
  <2> QED BY <2>1, <2>2
<1>5. MemoryGiven' /\ PortReady' /\ SlotFilled' /\ EnginesStopped'
  <2>1. \A q \in Ports : ~(q < 0)
    BY AhciAssumption DEF Ports, A!Ports
  <2>2. MemoryGiven'
    <3>1. CASE drv'.at = "devices"
      BY <3>1 DEF MemoryGiven, OfIdentify, Commands
    <3>2. CASE drv'.at = "memory" /\ drv'.p = 0
      BY <2>1, <3>2 DEF MemoryGiven, OfIdentify, Commands, Ports, A!Ports
    <3> QED BY <1>2, <3>1, <3>2
  <2> QED BY <1>2, <2>2 DEF PortReady, SlotFilled, EnginesStopped, OfIdentify, Commands
<1> QED BY <1>3, <1>4, <1>5 DEF IInv, Told

\* MemoryInit has been through all ports.
LEMMA StepMemoryReady == IInv /\ A!MemoryReady => IInv'
<1> SUFFICES ASSUME IInv, A!MemoryReady PROVE IInv'
  OBVIOUS
<1>1. /\ drv.at = "memory" /\ drv.p = NPORT
      /\ drv' = [drv EXCEPT !.at = "ports", !.p = 0, !.cur = 0]
      /\ UNCHANGED <<hw, tables, disks, stray>>
  BY DEF A!MemoryReady
<1>2. /\ drv'.at = "ports" /\ drv'.c = drv.c /\ drv'.length = drv.length /\ drv'.cur = 0
      /\ DrvType'
  BY <1>1, Zero DEF IInv, Types, DrvType
<1>3. Types' /\ DisksReady' /\ OneCommand' /\ Prepared' /\ A!ReadsWhole' /\ ~stray'
  <2>1. Found' <= Found
    BY <1>2, AhciAssumption DEF IInv, Types, DrvType, Found
  <2> QED BY <1>1, <1>2, <2>1, DriverStep DEF Polls, Waiting
<1>4. Placed' /\ Counted'
  <2>1. Placed'
    BY <1>1, <1>2, AhciAssumption DEF IInv, Placed, Enumerating, AtPort, Commands, Types, DrvType, Controllers, A!Controllers
  <2>2. Counted'
    BY <1>1, <1>2, AhciAssumption DEF IInv, Counted, Commands, OfIdentify, Types, DrvType, Controllers, A!Controllers
  <2> QED BY <2>1, <2>2
<1>5. MemoryGiven' /\ PortReady' /\ SlotFilled' /\ EnginesStopped'
  <2>1. \A q \in Ports : Given(drv.c, q)
    BY <1>1, AhciAssumption DEF IInv, Told, MemoryGiven, Ports, A!Ports
  <2>2. MemoryGiven'
    BY <1>1, <1>2, <2>1 DEF MemoryGiven, Given, OfIdentify, Commands, Ports, A!Ports
  <2> QED BY <1>2, <2>2 DEF PortReady, SlotFilled, EnginesStopped, OfIdentify, Commands
<1> QED BY <1>3, <1>4, <1>5 DEF IInv, Told

\* Its disks are counted.
LEMMA StepControllerDone == IInv /\ A!ControllerDone => IInv'
<1> SUFFICES ASSUME IInv, A!ControllerDone PROVE IInv'
  OBVIOUS
<1>1. /\ drv.at = "ports"
      /\ \/ drv' = A!Idle([drv EXCEPT !.length = Found, !.cur = 0, !.at = "devices"])
         \/ drv' = [drv EXCEPT !.length = Found, !.cur = 0, !.at = "devices"]
      /\ UNCHANGED <<hw, tables, disks, stray>>
  BY DEF A!ControllerDone, Found
<1>2. drv'.at \in {"devices", "idle"} /\ drv'.length = Found /\ drv'.cur = 0 /\ DrvType'
  <2>1. Found \in 0 .. MaxDisks
    BY AhciAssumption DEF IInv, Types, DrvType, Counted, Found
  <2> DEFINE done == [drv EXCEPT !.length = Found, !.cur = 0, !.at = "devices"]
  <2>2. CASE drv' = done
    <3> HIDE DEF Found
    <3> QED BY <2>1, <2>2, Zero DEF IInv, Types, DrvType
  <2>3. CASE drv' = A!Idle(done)
    <3>1. drv' = [at |-> "idle", c |-> 0, p |-> 0, length |-> Found, cur |-> 0, spin |-> 0,
                  op |-> "none", lba |-> 0, count |-> 0, dba |-> drv.dba, ok |-> FALSE,
                  reads |-> drv.reads]
      BY <2>3 DEF IInv, Types, DrvType, A!Idle
    <3>2. drv.dba \in {0, 1}
      BY DEF IInv, Types, DrvType
    <3> HIDE DEF Found
    <3> QED BY <2>1, <3>1, <3>2, Zero DEF DrvType
  <2> QED BY <1>1, <2>2, <2>3
<1>3. Types' /\ DisksReady' /\ OneCommand' /\ Prepared' /\ A!ReadsWhole' /\ ~stray'
  <2>1. Found' <= Found
    BY <1>2, AhciAssumption DEF IInv, Types, DrvType, Found
  <2> QED BY <1>1, <1>2, <2>1, DriverStep DEF Polls, Waiting
<1>4. Placed' /\ Counted'
  <2>1. Placed'
    BY <1>1, <1>2, AhciAssumption DEF IInv, Placed, Enumerating, AtPort, Commands, Types, DrvType
  <2>2. Counted'
    <3>1. drv'.length + drv'.cur <= MaxDisks
      BY <1>2, AhciAssumption DEF DrvType
    <3> QED BY <1>2, <3>1 DEF Counted, Commands, OfIdentify
  <2> QED BY <2>1, <2>2
<1>5. MemoryGiven' /\ PortReady' /\ SlotFilled' /\ EnginesStopped'
  BY <1>2 DEF MemoryGiven, PortReady, SlotFilled, EnginesStopped, OfIdentify, Commands
<1> QED BY <1>3, <1>4, <1>5 DEF IInv, Told

\* The port the driver works on is left changed in one register or two.
LEMMA PortStep ==
  ASSUME IInv, drv.c \in Controllers, drv.p \in Ports, NEW new \in PortType,
         hw' = [hw EXCEPT ![drv.c][drv.p] = new], UNCHANGED <<tables, disks, stray>>,
         new.pi = A!Port.pi, new.clb = A!Port.clb \/ new.clb = drv.c,
         new.phase = A!Port.phase, DrvType', Found' = Found,
         drv.at \notin Polls, ~Waiting', drv'.at # "returned"
  PROVE  /\ Types' /\ DisksReady' /\ OneCommand' /\ Prepared' /\ A!ReadsWhole' /\ ~stray'
         /\ Registers /\ PortIs(drv.c, drv.p, new)
<1>1. HwType' /\ PortIs(drv.c, drv.p, new)
  BY PortChanged DEF IInv, Types
<1>2. Registers
  BY <1>1, RegistersChanged DEF A!Port
<1>3. PhasesSame
  BY <1>1 DEF PhasesSame, PortIs, A!Port
<1>4. DisksType' /\ DisksSame
  BY DEF IInv, Types, DisksType, DisksSame
<1>5. Found' <= Found
  BY AhciAssumption DEF IInv, Types, DrvType, Found
<1> QED BY <1>1, <1>2, <1>3, <1>4, <1>5, NoCommandStep

\* The type of the port the driver works on.
LEMMA PortTyped ==
  ASSUME HwType, NEW c \in Controllers, NEW p \in Ports PROVE hw[c][p] \in PortType
BY DEF HwType

GivenHere == \A q \in Ports : q = drv.p => Given(drv.c, q)'

\* What has been given remains given; ports that are not implemented need nothing.
LEMMA MemoryStaysGiven ==
  ASSUME IInv, Registers, drv.c \in Controllers,
         drv.at \in {"memory", "stopList", "stopFis"}, drv'.c = drv.c, drv'.at \in {"memory", "stopList", "stopFis"},
         drv'.p = drv.p \/ (drv'.p = drv.p + 1 /\ GivenHere)
  PROVE  MemoryGiven'
<1>1. SUFFICES ASSUME NEW q \in Ports, q < drv'.p PROVE Given(drv.c, q)'
  BY DEF MemoryGiven, OfIdentify, Commands, Given, Ports, A!Ports
<1>2. CASE q < drv.p
  <2>1. Given(drv.c, q)
    BY <1>2 DEF IInv, Told, MemoryGiven
  <2> QED BY <2>1, GivenStays
<1>3. CASE ~(q < drv.p)
  <2>1. drv.p \in Nat /\ q \in Nat
    BY AhciAssumption DEF IInv, Types, DrvType, Ports, A!Ports
  <2>2. q = drv.p /\ GivenHere
    BY <1>1, <1>3, <2>1
  <2> QED BY <2>2 DEF GivenHere
<1> QED BY <1>2, <1>3

\* StopEngines begins, or there is no such port.
LEMMA StepStopEngines == IInv /\ A!StopEngines => IInv'
<1> SUFFICES ASSUME IInv, A!StopEngines PROVE IInv'
  OBVIOUS
<1>1. /\ drv.at = "memory" /\ drv.c \in Controllers /\ drv.p \in Ports
      /\ UNCHANGED <<tables, disks, stray>>
  BY AhciAssumption DEF IInv, Types, DrvType, Placed, Enumerating, Ports, A!Ports, A!StopEngines
<1>2. A!Port \in PortType
  BY <1>1, PortTyped DEF IInv, Types, A!Port
<1>3. CASE drv.p \in A!Implemented(drv.c)
  <2> DEFINE new == [A!Port EXCEPT !.st = FALSE]
  <2>1. new \in PortType /\ new.pi = A!Port.pi /\ new.clb = A!Port.clb /\ new.phase = A!Port.phase
        /\ ~new.st
    BY <1>2 DEF PortType
  <2>2. hw' = [hw EXCEPT ![drv.c][drv.p] = new] /\ drv' = [drv EXCEPT !.at = "stopList"]
    BY <1>3 DEF A!StopEngines, A!SetPort, A!Goto
  <2> HIDE DEF new
  <2>3. drv'.at = "stopList" /\ drv'.c = drv.c /\ drv'.p = drv.p /\ drv'.length = drv.length
        /\ drv'.cur = drv.cur /\ DrvType'
    BY <2>2 DEF IInv, Types, DrvType
  <2>4. Found' = Found
    BY <2>3 DEF Found
  <2>5. /\ Types' /\ DisksReady' /\ OneCommand' /\ Prepared' /\ A!ReadsWhole' /\ ~stray'
        /\ Registers /\ PortIs(drv.c, drv.p, new)
    BY <1>1, <2>1, <2>2, <2>3, <2>4, PortStep DEF Polls, Waiting
  <2>6. Placed' /\ Counted'
    <3>1. Placed'
      BY <1>1, <2>3 DEF Placed, AtPort, Commands, Controllers, A!Controllers, Ports, A!Ports
    <3>2. Counted'
      BY <1>1, <2>3 DEF IInv, Counted, OfIdentify, Commands
    <3> QED BY <3>1, <3>2
  <2>7. MemoryGiven'
    BY <1>1, <2>3, <2>5, MemoryStaysGiven
  <2>8. PortReady' /\ SlotFilled' /\ EnginesStopped'
    <3>1. A!Port' = new
      BY <1>1, <2>3, <2>5 DEF PortIs, A!Port
    <3>2. new.pi
      BY <1>3, <2>1 DEF A!Implemented, A!Port
    <3> QED BY <2>1, <2>3, <3>1, <3>2 DEF PortReady, SlotFilled, EnginesStopped, OfIdentify, Commands
  <2> QED BY <2>5, <2>6, <2>7, <2>8 DEF IInv, Told
<1>4. CASE drv.p \notin A!Implemented(drv.c)
  <2>1. drv' = [drv EXCEPT !.p = drv.p + 1] /\ UNCHANGED hw
    BY <1>4 DEF A!StopEngines
  <2>2. drv'.at = "memory" /\ drv'.c = drv.c /\ drv'.p = drv.p + 1 /\ drv'.length = drv.length
        /\ drv'.cur = drv.cur /\ DrvType'
    <3>1. drv.p + 1 \in 0 .. NPORT
      BY <1>1, AhciAssumption DEF Ports, A!Ports
    <3> DEFINE next == drv.p + 1
    <3>2. drv' = [drv EXCEPT !.p = next] /\ next \in 0 .. NPORT
      BY <2>1, <3>1
    <3> HIDE DEF next
    <3>3. drv'.at = "memory" /\ drv'.c = drv.c /\ drv'.p = next /\ drv'.length = drv.length
          /\ drv'.cur = drv.cur /\ DrvType'
      BY <1>1, <3>2 DEF IInv, Types, DrvType
    <3> QED BY <3>3 DEF next
  <2>3. Types' /\ DisksReady' /\ OneCommand' /\ Prepared' /\ A!ReadsWhole' /\ ~stray'
    <3>1. Found' <= Found
      BY <2>2, AhciAssumption DEF IInv, Types, DrvType, Found
    <3> QED BY <1>1, <2>1, <2>2, <3>1, DriverStep DEF Polls, Waiting
  <2>4. Placed' /\ Counted'
    <3>1. Placed'
      BY <1>1, <2>2 DEF Placed, AtPort, Commands, Controllers, A!Controllers
    <3>2. Counted'
      BY <1>1, <2>2 DEF IInv, Counted, OfIdentify, Commands
    <3> QED BY <3>1, <3>2
  <2>5. MemoryGiven'
    <3>1. Registers
      BY <2>1, RegistersSame
    <3>2. GivenHere
      BY <1>1, <1>4, <2>1, <2>2 DEF GivenHere, Given, A!Implemented, Ports
    <3> QED BY <1>1, <2>2, <3>1, <3>2, MemoryStaysGiven
  <2>6. PortReady' /\ SlotFilled' /\ EnginesStopped'
    BY <2>2 DEF PortReady, SlotFilled, EnginesStopped, OfIdentify, Commands
  <2> QED BY <2>3, <2>4, <2>5, <2>6 DEF IInv, Told
<1> QED BY <1>3, <1>4

\* The command list has stopped; the FIS receiver is told to.
LEMMA StepListStopped == IInv /\ A!ListStopped => IInv'
<1> SUFFICES ASSUME IInv, A!ListStopped PROVE IInv'
  OBVIOUS
<1> DEFINE new == [A!Port EXCEPT !.fre = FALSE]
<1>1. /\ drv.at = "stopList" /\ drv.c \in Controllers /\ drv.p \in Ports
      /\ UNCHANGED <<tables, disks, stray>> /\ hw' = [hw EXCEPT ![drv.c][drv.p] = new]
      /\ drv' = [drv EXCEPT !.at = "stopFis"]
  BY DEF IInv, Placed, Enumerating, AtPort, A!ListStopped, A!SetPort, A!Goto
<1>2. new \in PortType /\ new.pi = A!Port.pi /\ new.clb = A!Port.clb /\ new.phase = A!Port.phase
      /\ ~new.fre /\ ~new.cr /\ ~new.st /\ new.pi
  <2>1. A!Port \in PortType
    BY <1>1, PortTyped DEF IInv, Types, A!Port
  <2>2. ~A!Port.cr /\ ~A!Port.st /\ A!Port.pi
    BY <1>1 DEF A!ListStopped, IInv, Told, EnginesStopped, PortReady
  <2> QED BY <2>1, <2>2 DEF PortType
<1> HIDE DEF new
<1>3. drv'.at = "stopFis" /\ drv'.c = drv.c /\ drv'.p = drv.p /\ drv'.length = drv.length
      /\ drv'.cur = drv.cur /\ DrvType'
  BY <1>1 DEF IInv, Types, DrvType
<1>4. Found' = Found
  BY <1>3 DEF Found
<1>5. /\ Types' /\ DisksReady' /\ OneCommand' /\ Prepared' /\ A!ReadsWhole' /\ ~stray'
      /\ Registers /\ PortIs(drv.c, drv.p, new)
  BY <1>1, <1>2, <1>3, <1>4, PortStep DEF Polls, Waiting
<1>6. Placed' /\ Counted'
  <2>1. Placed'
    BY <1>1, <1>3 DEF Placed, AtPort, Commands, Controllers, A!Controllers, Ports, A!Ports
  <2>2. Counted'
    BY <1>1, <1>3 DEF IInv, Counted, OfIdentify, Commands
  <2> QED BY <2>1, <2>2
<1>7. MemoryGiven'
  BY <1>1, <1>3, <1>5, MemoryStaysGiven
<1>8. PortReady' /\ SlotFilled' /\ EnginesStopped'
  <2>1. A!Port' = new
    BY <1>1, <1>3, <1>5 DEF PortIs, A!Port
  <2> QED BY <1>2, <1>3, <2>1 DEF PortReady, SlotFilled, EnginesStopped, OfIdentify, Commands
<1> QED BY <1>5, <1>6, <1>7, <1>8 DEF IInv, Told

\* The port gets its controller's memory.
LEMMA StepFisStopped == IInv /\ A!FisStopped => IInv'
<1> SUFFICES ASSUME IInv, A!FisStopped PROVE IInv'
  OBVIOUS
<1> DEFINE new == [A!Port EXCEPT !.clb = drv.c]
           next == drv.p + 1
<1>1. /\ drv.at = "stopFis" /\ drv.c \in Controllers /\ drv.p \in Ports
      /\ UNCHANGED <<tables, disks, stray>> /\ hw' = [hw EXCEPT ![drv.c][drv.p] = new]
      /\ drv' = [drv EXCEPT !.at = "memory", !.p = next]
  BY DEF IInv, Placed, Enumerating, AtPort, A!FisStopped, A!SetPort
<1>2. new \in PortType /\ new.pi = A!Port.pi /\ new.clb = drv.c /\ new.phase = A!Port.phase
  <2>1. A!Port \in PortType
    BY <1>1, PortTyped DEF IInv, Types, A!Port
  <2> QED BY <1>1, <2>1 DEF PortType
<1>3. next = drv.p + 1 /\ next \in 0 .. NPORT
  BY <1>1, AhciAssumption DEF Ports, A!Ports
<1> HIDE DEF new, next
<1>4. drv'.at = "memory" /\ drv'.c = drv.c /\ drv'.p = next /\ drv'.length = drv.length
      /\ drv'.cur = drv.cur /\ DrvType'
  BY <1>1, <1>3 DEF IInv, Types, DrvType
<1>5. Found' = Found
  BY <1>4 DEF Found
<1>6. /\ Types' /\ DisksReady' /\ OneCommand' /\ Prepared' /\ A!ReadsWhole' /\ ~stray'
      /\ Registers /\ PortIs(drv.c, drv.p, new)
  BY <1>1, <1>2, <1>4, <1>5, PortStep DEF Polls, Waiting
<1>7. Placed' /\ Counted'
  <2>1. Placed'
    BY <1>1, <1>4 DEF Placed, AtPort, Commands, Controllers, A!Controllers
  <2>2. Counted'
    BY <1>1, <1>4 DEF IInv, Counted, OfIdentify, Commands
  <2> QED BY <2>1, <2>2
<1>8. MemoryGiven'
  <2>1. GivenHere
    BY <1>1, <1>2, <1>4, <1>6 DEF GivenHere, Given, PortIs
  <2> QED BY <1>1, <1>3, <1>4, <1>6, <2>1, MemoryStaysGiven
<1>9. PortReady' /\ SlotFilled' /\ EnginesStopped'
  BY <1>4 DEF PortReady, SlotFilled, EnginesStopped, OfIdentify, Commands
<1> QED BY <1>6, <1>7, <1>8, <1>9 DEF IInv, Told

\* The engines run again, or a kassert fails.
LEMMA StepStartEngines == IInv /\ A!StartEngines => IInv'
<1> SUFFICES ASSUME IInv, A!StartEngines PROVE IInv'
  OBVIOUS
<1>1. drv.at = "start engines" /\ drv.c \in Controllers /\ drv.p \in Ports
  BY DEF IInv, Placed, Enumerating, AtPort, A!StartEngines
<1>2. A!Port \in PortType
  BY <1>1, PortTyped DEF IInv, Types, A!Port
<1>3. CASE A!Port.st \/ A!Which(drv.c, drv.p) = -1
  <2>1. drv' = [drv EXCEPT !.at = "halted"] /\ UNCHANGED <<hw, tables, disks, stray>>
    BY <1>3 DEF A!StartEngines, A!Halt, A!Goto
  <2>2. drv'.at = "halted" /\ drv'.length = drv.length /\ drv'.cur = drv.cur /\ DrvType'
    BY <2>1 DEF IInv, Types, DrvType
  <2>3. Found' <= Found
    BY <2>2, AhciAssumption DEF IInv, Types, DrvType, Found
  <2>4. Types' /\ DisksReady' /\ OneCommand' /\ Prepared' /\ A!ReadsWhole' /\ ~stray'
    BY <1>1, <2>1, <2>2, <2>3, DriverStep DEF Polls, Waiting
  <2>5. Placed' /\ Counted'
    BY <2>2 DEF IInv, Placed, Counted, Enumerating, AtPort, Commands, OfIdentify
  <2>6. MemoryGiven' /\ PortReady' /\ SlotFilled' /\ EnginesStopped'
    BY <2>2 DEF MemoryGiven, PortReady, SlotFilled, EnginesStopped, OfIdentify, Commands
  <2> QED BY <2>4, <2>5, <2>6 DEF IInv, Told
<1>4. CASE ~(A!Port.st \/ A!Which(drv.c, drv.p) = -1)
  <2> DEFINE new == [A!Port EXCEPT !.fre = TRUE, !.st = TRUE]
  <2>1. new \in PortType /\ new.pi = A!Port.pi /\ new.clb = A!Port.clb /\ new.phase = A!Port.phase
    BY <1>2 DEF PortType
  <2>2. /\ hw' = [hw EXCEPT ![drv.c][drv.p] = new] /\ drv' = [drv EXCEPT !.at = "identify"]
        /\ UNCHANGED <<tables, disks, stray>>
    BY <1>4 DEF A!StartEngines, A!SetPort, A!Goto
  <2> HIDE DEF new
  <2>3. drv'.at = "identify" /\ drv'.c = drv.c /\ drv'.p = drv.p /\ drv'.length = drv.length
        /\ drv'.cur = drv.cur /\ DrvType'
    BY <2>2 DEF IInv, Types, DrvType
  <2>4. Found' = Found
    BY <2>3 DEF Found
  <2>5. /\ Types' /\ DisksReady' /\ OneCommand' /\ Prepared' /\ A!ReadsWhole' /\ ~stray'
        /\ Registers /\ PortIs(drv.c, drv.p, new)
    BY <1>1, <2>1, <2>2, <2>3, <2>4, PortStep DEF Polls, Waiting
  <2>6. Placed' /\ Counted'
    <3>1. Placed'
      BY <1>1, <2>3 DEF Placed, AtPort, Commands, Controllers, A!Controllers, Ports, A!Ports
    <3>2. Counted'
      BY <1>1, <2>3 DEF IInv, Counted, OfIdentify, Commands
    <3> QED BY <3>1, <3>2
  <2>7. MemoryGiven'
    <3>1. \A q \in Ports : Given(drv.c, q)'
      BY <1>1, <2>3, <2>5, GivenStays DEF IInv, Told, MemoryGiven, OfIdentify
    <3> QED BY <2>3, <3>1 DEF MemoryGiven, Given, Ports, A!Ports
  <2>8. PortReady'
    <3>1. drv.p \in A!Implemented(drv.c)
      BY <1>4 DEF A!Which
    <3>2. A!Port.pi /\ Given(drv.c, drv.p)
      BY <1>1, <3>1 DEF A!Implemented, A!Port, IInv, Told, MemoryGiven, OfIdentify
    <3>3. Ready(drv.c, drv.p)
      BY <1>1, <3>2 DEF Given, Ready, A!Port
    <3>4. Ready(drv.c, drv.p)'
      BY <2>3, <2>5, <3>3 DEF Ready, Registers, Controllers, Ports, A!Controllers, A!Ports
    <3> QED BY <2>3, <3>4 DEF PortReady
  <2>9. SlotFilled' /\ EnginesStopped'
    <3>1. disks[A!Slot].con = drv.c /\ disks[A!Slot].port = drv.p
      BY <1>1 DEF IInv, Told, SlotFilled, OfIdentify
    <3>2. A!Slot' = A!Slot
      BY <2>3 DEF A!Slot
    <3>3. SlotFilled'
      BY <2>2, <2>3, <3>1, <3>2 DEF SlotFilled
    <3> QED BY <2>3, <3>3 DEF EnginesStopped
  <2> QED BY <2>5, <2>6, <2>7, <2>8, <2>9 DEF IInv, Told
<1> QED BY <1>3, <1>4

\* The slot of a disk is new, and keeps its number while the disk is initialized.
LEMMA SlotNew ==
  ASSUME IInv, drv.length + drv.cur < MaxDisks
  PROVE  A!Slot \in A!Slots /\ A!Slot = Found + 1 /\ Found \in Int /\ \A d \in 1 .. Found : d # A!Slot
BY AhciAssumption DEF IInv, Types, DrvType, A!Slot, A!Slots, Found

\* A disk is tried; a port without a drive leaves nothing of it.
LEMMA StepTryPort == IInv /\ A!TryPort => IInv'
<1> SUFFICES ASSUME IInv, A!TryPort PROVE IInv'
  OBVIOUS
<1> DEFINE next == drv.p + 1
           new == [disks[A!Slot] EXCEPT !.con = drv.c, !.port = drv.p]
<1>1. /\ drv.at = "ports" /\ drv.c \in Controllers /\ drv.p \in Ports
      /\ drv.length + drv.cur < MaxDisks /\ UNCHANGED <<hw, tables, stray>>
      /\ \/ drv' = [drv EXCEPT !.p = next]
         \/ drv' = [drv EXCEPT !.at = "start engines"]
  <2>1. drv.at = "ports" /\ drv.p < NPORT /\ drv.length + drv.cur < MaxDisks
        /\ UNCHANGED <<hw, tables, stray>>
    BY DEF A!TryPort
  <2>2. drv' = [drv EXCEPT !.p = next] \/ drv' = [drv EXCEPT !.at = "start engines"]
    BY DEF A!TryPort, A!Goto
  <2>3. drv.c \in Controllers
    BY <2>1 DEF IInv, Placed, Enumerating
  <2>4. drv.p \in Ports
    BY <2>1, AhciAssumption DEF IInv, Types, DrvType, Ports, A!Ports
  <2> HIDE DEF next
  <2> QED BY <2>1, <2>2, <2>3, <2>4
<1>2. A!Slot \in A!Slots /\ A!Slot = Found + 1 /\ Found \in Int /\ \A d \in 1 .. Found : d # A!Slot
  BY <1>1, SlotNew
<1>3. new \in DiskType /\ new.con = drv.c /\ new.port = drv.p
  <2>1. disks[A!Slot] \in DiskType
    BY <1>2 DEF IInv, Types, DisksType
  <2> QED BY <1>1, <2>1 DEF DiskType
<1>4. disks' = [disks EXCEPT ![A!Slot] = new]
  <2>1. disks' = [disks EXCEPT ![A!Slot].con = drv.c, ![A!Slot].port = drv.p]
    BY DEF A!TryPort
  <2> QED BY <1>2, <2>1 DEF IInv, Types, DisksType
<1>5. next = drv.p + 1 /\ next \in 0 .. NPORT
  <2>1. drv.p \in 0 .. NPORT - 1
    BY <1>1 DEF Ports, A!Ports
  <2> QED BY <2>1, AhciAssumption
<1> HIDE DEF new, next
<1>6. drv'.at \in {"ports", "start engines"} /\ drv'.c = drv.c /\ drv'.length = drv.length
      /\ drv'.cur = drv.cur /\ DrvType'
      /\ (drv'.at = "start engines" => drv'.p = drv.p)
  BY <1>1, <1>5 DEF IInv, Types, DrvType
<1>7. Types' /\ DisksReady' /\ OneCommand' /\ Prepared' /\ A!ReadsWhole' /\ ~stray'
  <2>1. HwType' /\ Registers /\ PhasesSame
    BY <1>1, RegistersSame DEF IInv, Types, HwType, PhasesSame
  <2>2. DisksType'
    BY <1>2, <1>3, <1>4 DEF IInv, Types, DisksType
  <2>3. DisksSame
    <3>1. SUFFICES ASSUME NEW d \in 1 .. Found PROVE disks'[d] = disks[d]
      BY DEF DisksSame
    <3>2. d # A!Slot
      BY <1>2
    <3> QED BY <1>4, <3>2 DEF IInv, Types, DisksType
  <2>4. Found' <= Found
    <3>1. Found' = Found
      BY <1>6 DEF Found
    <3> QED BY <1>2, <3>1
  <2> QED BY <1>1, <1>6, <2>1, <2>2, <2>3, <2>4, NoCommandStep DEF Polls, Waiting
<1>8. Placed' /\ Counted'
  <2>1. Placed'
    BY <1>1, <1>6 DEF Placed, AtPort, Commands, Controllers, A!Controllers, Ports, A!Ports
  <2>2. Counted'
    BY <1>1, <1>6 DEF IInv, Counted, OfIdentify, Commands
  <2> QED BY <2>1, <2>2
<1>9. MemoryGiven'
  <2>1. \A q \in Ports : Given(drv.c, q)
    BY <1>1 DEF IInv, Told, MemoryGiven
  <2> QED BY <1>1, <1>6, <2>1 DEF MemoryGiven, Given, Ports, A!Ports
<1>10. PortReady' /\ SlotFilled' /\ EnginesStopped'
  <2>1. A!Slot' = A!Slot
    BY <1>6 DEF A!Slot
  <2>2. disks'[A!Slot] = new
    BY <1>2, <1>4 DEF IInv, Types, DisksType
  <2>3. SlotFilled'
    BY <1>3, <1>6, <2>1, <2>2 DEF SlotFilled, OfIdentify, Commands
  <2> QED BY <1>6, <2>3 DEF PortReady, EnginesStopped, Commands
<1> QED BY <1>7, <1>8, <1>9, <1>10 DEF IInv, Told

\* A disk that answered to Identify is found, at a port that is ready.
LEMMA StepIdentified == IInv /\ A!Identified => IInv'
<1> SUFFICES ASSUME IInv, A!Identified PROVE IInv'
  OBVIOUS
<1> DEFINE next == drv.p + 1
           found == IF drv.ok THEN drv.cur + 1 ELSE drv.cur
           new == [disks[A!Slot] EXCEPT !.lba48 = (A!Port.drive = "lba48"),
                                        !.capacity = A!Capacity(A!Port.drive)]
<1>1. /\ drv.at = "returned" /\ drv.op = "identify" /\ UNCHANGED <<hw, tables, stray>>
      /\ drv' = [drv EXCEPT !.at = "ports", !.p = next, !.cur = found]
  BY DEF A!Identified
<1>2. OfIdentify /\ drv.c \in Controllers /\ drv.p \in Ports /\ drv.length + drv.cur < MaxDisks
  BY <1>1 DEF IInv, Placed, Counted, AtPort, Commands, OfIdentify
<1>3. A!Slot \in A!Slots /\ A!Slot = Found + 1 /\ Found \in Int /\ \A d \in 1 .. Found : d # A!Slot
  BY <1>2, SlotNew
<1>4. new \in DiskType /\ new.con = disks[A!Slot].con /\ new.port = disks[A!Slot].port
  <2>1. disks[A!Slot] \in DiskType
    BY <1>3 DEF IInv, Types, DisksType
  <2>2. A!Capacity(A!Port.drive) \in Int
    BY AhciAssumption DEF A!Capacity
  <2> QED BY <2>1, <2>2 DEF DiskType
<1>5. disks' = disks \/ disks' = [disks EXCEPT ![A!Slot] = new]
  <2>1. CASE drv.ok
    <3>1. disks' = [disks EXCEPT ![A!Slot].lba48 = (A!Port.drive = "lba48"),
                                 ![A!Slot].capacity = A!Capacity(A!Port.drive)]
      BY <2>1 DEF A!Identified
    <3> QED BY <1>3, <3>1 DEF IInv, Types, DisksType
  <2>2. CASE ~drv.ok
    BY <2>2 DEF A!Identified
  <2> QED BY <2>1, <2>2
<1>6. next \in 0 .. NPORT /\ found \in 0 .. MaxDisks /\ found \in {drv.cur, drv.cur + 1}
  BY <1>2, AhciAssumption DEF Ports, A!Ports, IInv, Types, DrvType
<1> HIDE DEF new, next, found
<1>7. drv'.at = "ports" /\ drv'.c = drv.c /\ drv'.length = drv.length /\ drv'.cur = found /\ DrvType'
  BY <1>1, <1>6 DEF IInv, Types, DrvType
<1>8. Registers /\ PhasesSame
  BY <1>1 DEF Registers, PhasesSame
<1>9. Types'
  <2>1. HwType' /\ TablesType'
    BY <1>1 DEF IInv, Types, HwType, TablesType
  <2>2. DisksType'
    BY <1>3, <1>4, <1>5 DEF IInv, Types, DisksType
  <2> QED BY <1>7, <2>1, <2>2 DEF Types
<1>10. OneCommand' /\ Prepared' /\ A!ReadsWhole' /\ ~stray'
  BY <1>1, <1>7, <1>8, NoCommandYet DEF IInv, Waiting, Polls
<1>11. DisksReady'
  <2>1. \A d \in A!Slots : disks'[d].con = disks[d].con /\ disks'[d].port = disks[d].port
    BY <1>3, <1>4, <1>5 DEF IInv, Types, DisksType
  <2>2. SUFFICES ASSUME NEW d \in 1 .. Found'
                 PROVE  Ready(disks[d].con, disks[d].port)'
    BY DEF DisksReady, Found
  <2>3. Found' \in {Found, Found + 1} /\ Found < MaxDisks
    <3>1. drv.length \in Int /\ drv.cur \in Int
      BY AhciAssumption DEF IInv, Types, DrvType
    <3>2. Found < MaxDisks
      BY <1>2 DEF Found
    <3>3. Found' = drv.length + found
      BY <1>7 DEF Found
    <3> QED BY <1>6, <3>1, <3>2, <3>3 DEF Found
  <2>4. d \in A!Slots /\ (d \in 1 .. Found \/ d = A!Slot)
    BY <1>3, <2>3, AhciAssumption DEF A!Slots
  <2>5. Ready(disks[d].con, disks[d].port)
    <3>1. CASE d \in 1 .. Found
      BY <3>1 DEF IInv, Told, DisksReady, Found
    <3>2. CASE d = A!Slot
      BY <1>1, <1>2, <3>2 DEF IInv, Told, PortReady, SlotFilled, Commands
    <3> QED BY <2>4, <3>1, <3>2
  <2>6. Ready(disks'[d].con, disks'[d].port)
    BY <2>1, <2>4, <2>5
  <2> QED BY <1>8, <2>6 DEF Ready, Registers, Controllers, Ports, A!Controllers, A!Ports
<1>12. Placed' /\ Counted'
  <2>1. Placed'
    BY <1>2, <1>7 DEF Placed, AtPort, Commands, Controllers, A!Controllers
  <2>2. drv'.length + drv'.cur <= MaxDisks
    BY <1>2, <1>6, <1>7, AhciAssumption, SMTT(30) DEF IInv, Types, DrvType
  <2>3. Counted'
    BY <1>7, <2>2 DEF Counted, OfIdentify, Commands
  <2> QED BY <2>1, <2>3
<1>13. MemoryGiven'
  <2>1. \A q \in Ports : Given(drv.c, q)
    BY <1>2 DEF IInv, Told, MemoryGiven
  <2> QED BY <1>1, <1>7, <2>1 DEF MemoryGiven, Given, Ports, A!Ports
<1>14. PortReady' /\ SlotFilled' /\ EnginesStopped'
  BY <1>7 DEF PortReady, SlotFilled, EnginesStopped, OfIdentify, Commands
<1> QED BY <1>9, <1>10, <1>11, <1>12, <1>13, <1>14 DEF IInv, Told
-----------------------------------------------------------------------------
(***************************************************************************)
(* The steps of the driver that read.                                      *)
(***************************************************************************)
FisType == [kind : {"fis"}, command : {"identify", "ext", "dma"}, lba : Nat, count : Nat]

\* What a command needs is where the device looks for it.
LEMMA CommandPrepared ==
  ASSUME IInv, drv.at \notin Polls, NEW op \in {"identify", "read"}, NEW c, NEW p, Ready(c, p),
         NEW blocks \in Nat, NEW fis \in FisType, fis.command = "identify" <=> op = "identify",
         NEW reads, A!Prepare(op, c, p, blocks, fis, [drv EXCEPT !.reads = reads])
  PROVE  /\ drv'.at = "spin" /\ drv'.op = op /\ drv'.c = c /\ drv'.p = p
         /\ drv'.length = drv.length /\ drv'.cur = drv.cur /\ disks' = disks
         /\ Types' /\ OneCommand' /\ Prepared' /\ A!ReadsWhole' /\ ~stray' /\ Registers
<1> DEFINE new == [hw[c][p] EXCEPT !.is = FALSE, !.prdbc = 0]
           dba == 1 - drv.dba
           prdt == A!Prdt(dba, blocks)
           lba == fis.lba
<1>1. c \in Controllers /\ p \in Ports /\ hw[c][p].pi
  BY DEF Ready
<1>2. drv.dba \in {0, 1} /\ drv \in [at : {drv.at}, c : 0 .. NCON, p : 0 .. NPORT, length : 0 .. MaxDisks,
           cur : 0 .. MaxDisks, spin : {drv.spin}, op : {drv.op}, lba : Nat, count : Nat,
           dba : {0, 1}, ok : {drv.ok}, reads : {drv.reads}]
  BY DEF IInv, Types, DrvType
<1>3. /\ drv' = [[drv EXCEPT !.reads = reads] EXCEPT !.at = "spin", !.spin = 0, !.op = op, !.c = c, !.p = p,
                           !.count = blocks, !.lba = lba, !.dba = dba]
      /\ buf' = A!Zeros(blocks) /\ UNCHANGED <<disks, stray>>
      /\ tables' = [tables EXCEPT ![c][A!PrdtCell(c, p)] = prdt, ![c][A!FisCell(c, p)] = fis]
      /\ hw' = [hw EXCEPT ![c][p].is = FALSE, ![c][p].prdbc = 0]
  BY <1>2 DEF A!Prepare
<1>4. hw' = [hw EXCEPT ![c][p] = new]
  BY <1>1, <1>3 DEF IInv, Types, HwType
<1>5. new \in PortType /\ new.pi = hw[c][p].pi /\ new.clb = hw[c][p].clb /\ ~new.is
      /\ new.prdbc = 0 /\ new.phase = hw[c][p].phase
  <2>1. hw[c][p] \in PortType
    BY <1>1, PortTyped DEF IInv, Types
  <2> HIDE DEF new
  <2>2. new = [hw[c][p] EXCEPT !.is = FALSE, !.prdbc = 0]
    BY DEF new
  <2> QED BY <2>1, <2>2 DEF PortType
<1>6. lba \in Nat /\ dba \in {0, 1} /\ c \in 0 .. NCON /\ p \in 0 .. NPORT
  <2>1. lba \in Nat
    BY DEF FisType
  <2>2. dba \in {0, 1}
    BY <1>2
  <2>3. c \in 0 .. NCON /\ p \in 0 .. NPORT
    BY <1>1, AhciAssumption DEF Controllers, Ports, A!Controllers, A!Ports
  <2> QED BY <2>1, <2>2, <2>3
<1>7. prdt \in Cells /\ prdt = A!Prdt(dba, blocks) /\ fis \in Cells
  BY <1>6 DEF Cells, A!Prdt, FisType
<1> HIDE DEF new, dba, prdt, lba
<1>8. /\ drv'.at = "spin" /\ drv'.op = op /\ drv'.c = c /\ drv'.p = p /\ drv'.count = blocks
      /\ drv'.lba = lba /\ drv'.dba = dba
      /\ drv'.length = drv.length /\ drv'.cur = drv.cur /\ DrvType'
  BY <1>2, <1>3, <1>6 DEF DrvType
<1>9. HwType' /\ PortIs(c, p, new)
  BY <1>1, <1>4, <1>5, PortChanged DEF IInv, Types
<1>10. Registers
  BY <1>1, <1>5, <1>9, RegistersChanged
<1>11. /\ A!FisCell(c, p) \in 0 .. NPORT /\ A!PrdtCell(c, p) \in 0 .. NPORT
       /\ A!FisCell(c, p) # A!PrdtCell(c, p)
  BY <1>1, CellsExist
<1>12. /\ TablesType' /\ tables'[c][A!PrdtCell(c, p)] = prdt /\ tables'[c][A!FisCell(c, p)] = fis
  BY <1>1, <1>3, <1>7, <1>11 DEF IInv, Types, TablesType
<1>13. Types'
  BY <1>3, <1>8, <1>9, <1>12 DEF IInv, Types, DisksType
<1>14. OneCommand'
  <2>1. \A a \in Controllers, b \in Ports : hw'[a][b].phase = "idle"
    BY <1>5, <1>9 DEF IInv, OneCommand, PortIs
  <2> QED BY <2>1 DEF OneCommand, Controllers, Ports, A!Controllers, A!Ports
<1>15. Prepared'
  <2>1. A!Port' = new
    BY <1>1, <1>8, <1>9 DEF PortIs, A!Port
  <2>2. A!PrdtCell(drv.c, drv.p)' = A!PrdtCell(c, p) /\ A!FisCell(drv.c, drv.p)' = A!FisCell(c, p)
    <3>1. A!PrdtCell(c, p)' = A!PrdtCell(c, p) /\ A!FisCell(c, p)' = A!FisCell(c, p)
      BY <1>1, <1>10, CellsSame
    <3> QED BY <1>8, <3>1
  <2>3. tables'[drv'.c][A!PrdtCell(drv.c, drv.p)'] = A!Prdt(drv'.dba, drv'.count)
    BY <1>7, <1>8, <1>12, <2>2
  <2>4. Asked(tables[drv.c][A!FisCell(drv.c, drv.p)])'
    <3>1. tables'[drv'.c][A!FisCell(drv.c, drv.p)'] = fis
      BY <1>8, <1>12, <2>2
    <3>2. fis.kind = "fis" /\ fis.lba = drv'.lba /\ (fis.command = "identify" <=> drv'.op = "identify")
      BY <1>8 DEF FisType, lba
    <3> QED BY <3>1, <3>2 DEF Asked
  <2>5. buf' \in [1 .. drv'.count -> Int]
    BY <1>3, <1>8 DEF A!Zeros
  <2>6. new.phase = "idle"
    BY <1>1, <1>5 DEF IInv, OneCommand
  <2>7. \A i \in 1 .. 0 : FALSE
    OBVIOUS
  <2> QED BY <1>5, <1>8, <2>1, <2>3, <2>4, <2>5, <2>6, <2>7 DEF Prepared, A!Prdt
<1>16. A!ReadsWhole' /\ ~stray'
  BY <1>3, <1>8 DEF IInv, A!ReadsWhole
<1> QED BY <1>3, <1>8, <1>10, <1>13, <1>14, <1>15, <1>16

\* Identify prepares its command at the port whose engines were started.
LEMMA StepIdentify == IInv /\ A!Identify => IInv'
<1> SUFFICES ASSUME IInv, A!Identify PROVE IInv'
  OBVIOUS
<1> DEFINE fis == A!Fis("identify", 0, 0)
<1>1. drv.at = "identify" /\ A!Prepare("identify", drv.c, drv.p, 1, fis, drv)
  BY DEF A!Identify
<1>2. fis \in FisType /\ fis.command = "identify"
  BY DEF A!Fis, FisType
<1>3. drv = [drv EXCEPT !.reads = drv.reads]
  BY DEF IInv, Types, DrvType
<1> HIDE DEF fis
<1>4. OfIdentify /\ Ready(drv.c, drv.p)
  BY <1>1 DEF OfIdentify, IInv, Told, PortReady
<1>5. A!Prepare("identify", drv.c, drv.p, 1, fis, [drv EXCEPT !.reads = drv.reads])
  BY <1>1, <1>3
<1>6. /\ drv'.at = "spin" /\ drv'.op = "identify" /\ drv'.c = drv.c /\ drv'.p = drv.p
      /\ drv'.length = drv.length /\ drv'.cur = drv.cur /\ disks' = disks
      /\ Types' /\ OneCommand' /\ Prepared' /\ A!ReadsWhole' /\ ~stray' /\ Registers
  <2>1. drv.at \notin Polls
    BY <1>1 DEF Polls
  <2> QED BY <1>2, <1>4, <1>5, <2>1, CommandPrepared
<1>7. Placed' /\ Counted'
  <2>1. Placed'
    BY <1>4, <1>6 DEF Placed, AtPort, Commands, Ready, Controllers, A!Controllers, Ports, A!Ports
  <2>2. Counted'
    BY <1>1, <1>6 DEF IInv, Counted, OfIdentify, Commands
  <2> QED BY <2>1, <2>2
<1>8. MemoryGiven'
  <2>1. \A q \in Ports : Given(drv.c, q)'
    BY <1>4, <1>6, GivenStays DEF IInv, Told, MemoryGiven, Ready
  <2> QED BY <1>6, <2>1 DEF MemoryGiven, Given, Ports, A!Ports
<1>9. PortReady'
  BY <1>4, <1>6, ReadyStays DEF PortReady, Ready, Controllers, Ports, A!Controllers, A!Ports, Registers
<1>10. DisksReady' /\ SlotFilled' /\ EnginesStopped'
  <2>1. Found' = Found /\ Found \in Int
    BY <1>6, AhciAssumption DEF IInv, Types, DrvType, Found
  <2>2. DisksReady'
    BY <1>6, <2>1, DisksStayReady DEF IInv, Types, Told, DisksSame
  <2>3. SlotFilled'
    BY <1>4, <1>6 DEF IInv, Told, SlotFilled, A!Slot
  <2> QED BY <1>6, <2>2, <2>3 DEF EnginesStopped
<1> QED BY <1>6, <1>7, <1>8, <1>9, <1>10 DEF IInv, Told

\* A client's call reads a disk that has been found.
LEMMA StepRead ==
  ASSUME IInv, NEW d \in A!Slots, NEW request \in Requests, A!Read(d, request)
  PROVE  IInv'
<1> DEFINE fis == A!Fis(IF disks[d].lba48 THEN "ext" ELSE "dma", request.lba, request.count)
           c == disks[d].con
           p == disks[d].port
<1>1. /\ drv.at = "idle" /\ d <= drv.length
      /\ A!Prepare("read", c, p, request.count, fis, [drv EXCEPT !.reads = drv.reads + 1])
  BY DEF A!Read
<1>2. fis \in FisType /\ fis.command # "identify" /\ request.count \in Nat
  BY RequestsAssumption DEF A!Fis, FisType
<1>3. drv.cur = 0 /\ ~OfIdentify
  BY <1>1 DEF IInv, Counted, OfIdentify, Commands
<1>4. Ready(c, p)
  <2>1. d \in 1 .. drv.length + drv.cur
    BY <1>1, <1>3, AhciAssumption DEF IInv, Types, DrvType, A!Slots
  <2> QED BY <2>1 DEF IInv, Told, DisksReady
<1> HIDE DEF fis, c, p
<1>5. /\ drv'.at = "spin" /\ drv'.op = "read" /\ drv'.c = c /\ drv'.p = p
      /\ drv'.length = drv.length /\ drv'.cur = drv.cur /\ disks' = disks
      /\ Types' /\ OneCommand' /\ Prepared' /\ A!ReadsWhole' /\ ~stray' /\ Registers
  <2>1. drv.at \notin Polls
    BY <1>1 DEF Polls
  <2> QED BY <1>1, <1>2, <1>4, <2>1, CommandPrepared
<1>6. Placed' /\ Counted'
  <2>1. Placed'
    BY <1>4, <1>5 DEF Placed, AtPort, Commands, Ready, Controllers, A!Controllers, Ports, A!Ports
  <2>2. Counted'
    BY <1>1, <1>3, <1>5 DEF IInv, Counted, OfIdentify, Commands
  <2> QED BY <2>1, <2>2
<1>7. PortReady'
  BY <1>4, <1>5 DEF PortReady, Ready, Controllers, Ports, A!Controllers, A!Ports, Registers
<1>8. DisksReady'
  <2>1. Found' = Found /\ Found \in Int
    BY <1>5, AhciAssumption DEF IInv, Types, DrvType, Found
  <2> QED BY <1>5, <2>1, DisksStayReady DEF IInv, Types, Told, DisksSame
<1>9. MemoryGiven' /\ SlotFilled' /\ EnginesStopped'
  BY <1>5 DEF MemoryGiven, SlotFilled, EnginesStopped, OfIdentify, Commands
<1> QED BY <1>5, <1>6, <1>7, <1>8, <1>9 DEF IInv, Told

SameCall ==
  /\ drv'.c = drv.c /\ drv'.p = drv.p /\ drv'.length = drv.length /\ drv'.cur = drv.cur
  /\ drv'.op = drv.op /\ drv'.lba = drv.lba /\ drv'.count = drv.count /\ drv'.dba = drv.dba

\* While the driver waits it moves neither to another port nor to another command.
LEMMA CallGoesOn ==
  ASSUME IInv, Waiting, SameCall, drv'.at \in Commands, DrvType', HwType', Registers,
         UNCHANGED <<tables, disks, stray>>
  PROVE  Types' /\ Placed' /\ Counted' /\ Told' /\ ~stray'
<1>1. Types'
  BY DEF IInv, Types, TablesType, DisksType
<1>2. drv.at \in Commands
  BY DEF Waiting, Commands
<1>3. Placed'
  BY <1>2 DEF IInv, Placed, SameCall, AtPort, Controllers, A!Controllers, Ports, A!Ports
<1>4. OfIdentify' = OfIdentify
  BY <1>2 DEF OfIdentify, SameCall, Commands
<1>5. Counted'
  BY <1>2, <1>4 DEF IInv, Counted, SameCall, Commands
<1>6. MemoryGiven'
  <2>1. OfIdentify => \A q \in Ports : Given(drv.c, q)'
    BY <1>2, GivenStays DEF IInv, Told, MemoryGiven, PortReady, Ready, SameCall
  <2>2. drv'.at \notin {"memory", "stopList", "stopFis", "ports"} /\ drv'.c = drv.c
    BY DEF SameCall, Commands
  <2>3. OfIdentify' => \A q \in Ports : Given(drv.c, q)'
    BY <1>4, <2>1
  <2> QED BY <2>2, <2>3 DEF MemoryGiven, Given, Ports, A!Ports
<1>7. PortReady'
  <2>1. Ready(drv.c, drv.p)
    BY <1>2 DEF IInv, Told, PortReady
  <2>2. Ready(drv.c, drv.p)'
    BY <2>1 DEF SameCall, Ready, Controllers, Ports, A!Controllers, A!Ports, Registers
  <2>3. drv'.at \notin {"stopList", "stopFis"}
    BY DEF Commands
  <2> QED BY <2>2, <2>3 DEF PortReady
<1>8. DisksReady'
  <2>1. Found' = Found /\ Found \in Int
    BY AhciAssumption DEF IInv, Types, DrvType, Found, SameCall
  <2> QED BY <1>1, <2>1, DisksStayReady DEF IInv, Types, Told, DisksSame
<1>9. SlotFilled'
  <2>1. A!Slot' = A!Slot
    BY DEF A!Slot, SameCall
  <2> QED BY <1>4, <2>1 DEF IInv, Told, SlotFilled, SameCall
<1>10. EnginesStopped' /\ ~stray'
  BY DEF IInv, EnginesStopped, Commands
<1> QED BY <1>1, <1>3, <1>5, <1>6, <1>7, <1>8, <1>9, <1>10 DEF Told

\* What was prepared stays, while only the port that was told about it goes on.
LEMMA StaysPrepared ==
  ASSUME IInv, Waiting, SameCall, UNCHANGED <<tables, buf>>, Registers, NEW new,
         A!Port' = new, new.prdbc = A!Port.prdbc,
         drv.at \in {"spin", "issue"} => new.is = A!Port.is,
         new.phase = "running" => Asked(new.fis),
         drv'.at \in {"spin", "issue"} => drv.at \in {"spin", "issue"}
  PROVE  Prepared'
<1>1. drv.c \in Controllers /\ drv.p \in Ports
  BY DEF Waiting, Commands, AtPort, IInv, Placed
<1>2. A!Port' = new
  OBVIOUS
<1>3. A!PrdtCell(drv.c, drv.p)' = A!PrdtCell(drv.c, drv.p)
      /\ A!FisCell(drv.c, drv.p)' = A!FisCell(drv.c, drv.p)
  BY <1>1, CellsSame DEF SameCall
<1>4. /\ tables[drv.c][A!PrdtCell(drv.c, drv.p)] = A!Prdt(drv.dba, drv.count)
      /\ Asked(tables[drv.c][A!FisCell(drv.c, drv.p)])
      /\ buf \in [1 .. drv.count -> Int]
      /\ A!Port.prdbc <= drv.count
      /\ \A i \in 1 .. A!Port.prdbc : buf[i] = Expected(i)
      /\ drv.at \in {"spin", "issue"} => A!Port.prdbc = 0 /\ ~A!Port.is
  BY DEF IInv, Waiting, Prepared, Polls
<1>5. (tables[drv.c][A!PrdtCell(drv.c, drv.p)] = A!Prdt(drv.dba, drv.count))'
  BY <1>3, <1>4 DEF SameCall, A!Prdt
<1>6. \A fis : Asked(fis) => Asked(fis)'
  BY DEF Asked, SameCall
<1>7. Asked(tables[drv.c][A!FisCell(drv.c, drv.p)])'
  BY <1>3, <1>4 DEF Asked, SameCall
<1>8. (A!Port.phase = "running" => Asked(A!Port.fis))'
  BY <1>2, <1>6 DEF Asked, SameCall
<1>9. (\A i \in 1 .. A!Port.prdbc : buf[i] = Expected(i))'
  BY <1>2, <1>4 DEF Expected, A!Block, SameCall
<1>10. (buf \in [1 .. drv.count -> Int] /\ A!Port.prdbc <= drv.count)'
  BY <1>2, <1>4 DEF SameCall
<1>11. (drv.at \in {"spin", "issue"} => A!Port.prdbc = 0 /\ ~A!Port.is)'
  BY <1>2, <1>4
<1> QED BY <1>5, <1>7, <1>8, <1>9, <1>10, <1>11 DEF Prepared

\* A step that only reads registers.
LEMMA ReadingStep ==
  ASSUME IInv, Waiting, UNCHANGED <<hw, tables, disks, buf, stray>>, SameCall, DrvType',
         drv'.at \in Commands, drv'.at \in {"spin", "issue"} => drv.at \in {"spin", "issue"},
         drv.at \in Polls => drv'.at \in Polls \/ A!Port.phase = "idle",
         A!ReadsWhole'
  PROVE  IInv'
<1>1. HwType' /\ Registers /\ drv.c \in Controllers /\ drv.p \in Ports
  BY RegistersSame DEF IInv, Types, HwType, Waiting, Commands, AtPort, Placed
<1>2. A!Port' = A!Port
  BY DEF A!Port, SameCall
<1>3. Types' /\ Placed' /\ Counted' /\ Told' /\ ~stray'
  BY <1>1, CallGoesOn
<1>4. A!Port.phase = "running" => Asked(A!Port.fis)
  BY DEF IInv, Waiting, Prepared, Polls
<1>5. Prepared'
  BY <1>1, <1>2, <1>4, StaysPrepared
<1>6. OneCommand'
  <2>1. SUFFICES ASSUME NEW c \in Controllers, NEW p \in Ports, hw[c][p].phase # "idle"
                 PROVE  drv'.at \in Polls /\ c = drv'.c /\ p = drv'.p /\ hw[c][p].ci /\ ~hw[c][p].is
    BY DEF OneCommand, Controllers, Ports, A!Controllers, A!Ports
  <2>2. drv.at \in Polls /\ c = drv.c /\ p = drv.p /\ hw[c][p].ci /\ ~hw[c][p].is
    BY <2>1 DEF IInv, OneCommand
  <2>3. A!Port.phase # "idle"
    BY <2>1, <2>2 DEF A!Port
  <2> QED BY <2>2, <2>3 DEF SameCall
<1> QED BY <1>3, <1>5, <1>6 DEF IInv

\* The busy bit is read.
LEMMA StepWaitUntilReady == IInv /\ A!WaitUntilReady => IInv'
<1> SUFFICES ASSUME IInv, A!WaitUntilReady PROVE IInv'
  OBVIOUS
<1> DEFINE next == drv.spin + 1
<1>1. /\ drv.at = "spin" /\ UNCHANGED <<hw, tables, disks, buf, stray>>
      /\ \/ drv' = [drv EXCEPT !.at = "issue"]
         \/ drv' = [drv EXCEPT !.spin = next]
         \/ drv' = [drv EXCEPT !.at = "returned", !.ok = FALSE]
  BY DEF A!WaitUntilReady, A!Goto, A!Return
<1> HIDE DEF next
<1>2. /\ drv'.at \in {"spin", "issue"} \/ (drv'.at = "returned" /\ ~drv'.ok)
      /\ SameCall /\ DrvType'
  BY <1>1 DEF IInv, Types, DrvType, SameCall
<1> QED BY <1>1, <1>2, ReadingStep DEF Waiting, Commands, Polls, A!ReadsWhole

\* The interrupt status is read: after an error no command is under way.
LEMMA StepPollErrors == IInv /\ A!PollErrors => IInv'
<1> SUFFICES ASSUME IInv, A!PollErrors PROVE IInv'
  OBVIOUS
<1>1. /\ drv.at = "poll errors" /\ UNCHANGED <<hw, tables, disks, buf, stray>>
      /\ \/ drv' = [drv EXCEPT !.at = "poll completion"]
         \/ drv' = [drv EXCEPT !.at = "returned", !.ok = FALSE] /\ A!Port.is
  BY DEF A!PollErrors, A!Goto, A!Return
<1>2. /\ drv'.at = "poll completion" \/ (drv'.at = "returned" /\ ~drv'.ok /\ A!Port.is)
      /\ SameCall /\ DrvType'
  BY <1>1 DEF IInv, Types, DrvType, SameCall
<1>3. A!Port.is => A!Port.phase = "idle"
  <2>1. drv.c \in Controllers /\ drv.p \in Ports
    BY <1>1 DEF IInv, Commands, AtPort, Placed
  <2> QED BY <2>1 DEF IInv, OneCommand, A!Port
<1> QED BY <1>1, <1>2, <1>3, ReadingStep DEF Waiting, Commands, Polls, A!ReadsWhole

\* The bit of the command is read: if it is clear no command is under way, and if
\* the byte count is what was asked for, so is the buffer.
LEMMA StepPollCompletion == IInv /\ A!PollCompletion => IInv'
<1> SUFFICES ASSUME IInv, A!PollCompletion PROVE IInv'
  OBVIOUS
<1> DEFINE ok == A!Port.prdbc = drv.count
<1>1. /\ drv.at = "poll completion" /\ UNCHANGED <<hw, tables, disks, buf, stray>>
      /\ \/ drv' = [drv EXCEPT !.at = "poll errors"]
         \/ drv' = [drv EXCEPT !.at = "returned", !.ok = ok] /\ ~A!Port.ci
  BY DEF A!PollCompletion, A!Goto, A!Return
<1> HIDE DEF ok
<1>2. /\ drv'.at = "poll errors" \/ (drv'.at = "returned" /\ drv'.ok = ok /\ ~A!Port.ci)
      /\ SameCall /\ DrvType'
  BY <1>1 DEF IInv, Types, DrvType, SameCall
<1>3. ~A!Port.ci => A!Port.phase = "idle"
  <2>1. drv.c \in Controllers /\ drv.p \in Ports
    BY <1>1 DEF IInv, Commands, AtPort, Placed
  <2> QED BY <2>1 DEF IInv, OneCommand, A!Port
<1>4. A!ReadsWhole'
  <2>1. SUFFICES ASSUME drv'.at = "returned", drv'.ok
                 PROVE  buf = [i \in 1 .. drv.count |->
                                 A!Block([command |-> drv.op, lba |-> drv.lba], i)]
    BY <1>1, <1>2 DEF A!ReadsWhole, SameCall, A!Block
  <2>2. A!Port.prdbc = drv.count
    BY <1>2, <2>1 DEF ok
  <2>3. buf \in [1 .. drv.count -> Int] /\ \A i \in 1 .. drv.count : buf[i] = Expected(i)
    BY <1>1, <2>2 DEF IInv, Prepared, Polls
  <2> QED BY <2>3 DEF Expected
<1> QED BY <1>1, <1>2, <1>3, <1>4, ReadingStep DEF Waiting, Commands, Polls

\* The command is issued.
LEMMA StepIssue == IInv /\ A!Issue => IInv'
<1> SUFFICES ASSUME IInv, A!Issue PROVE IInv'
  OBVIOUS
<1> DEFINE new == [A!Port EXCEPT !.ci = TRUE, !.phase = "issued"]
<1>1. /\ drv.at = "issue" /\ drv.c \in Controllers /\ drv.p \in Ports
      /\ UNCHANGED <<tables, disks, buf, stray>> /\ hw' = [hw EXCEPT ![drv.c][drv.p] = new]
      /\ drv' = [drv EXCEPT !.at = "poll errors"]
  BY DEF IInv, Placed, Commands, AtPort, A!Issue, A!SetPort, A!Goto
<1>2. new \in PortType /\ new.pi = A!Port.pi /\ new.clb = A!Port.clb /\ new.prdbc = A!Port.prdbc
      /\ new.is = A!Port.is /\ new.phase = "issued" /\ new.ci
  <2>1. A!Port \in PortType
    BY <1>1, PortTyped DEF IInv, Types, A!Port
  <2> QED BY <2>1 DEF PortType
<1> HIDE DEF new
<1>3. drv'.at = "poll errors" /\ SameCall /\ DrvType'
  BY <1>1 DEF IInv, Types, DrvType, SameCall
<1>4. HwType' /\ PortIs(drv.c, drv.p, new)
  BY <1>1, <1>2, PortChanged DEF IInv, Types
<1>5. Registers
  BY <1>1, <1>2, <1>4, RegistersChanged DEF A!Port
<1>6. Types' /\ Placed' /\ Counted' /\ Told' /\ ~stray'
  BY <1>1, <1>3, <1>4, <1>5, CallGoesOn DEF Waiting, Commands
<1>7. Prepared'
  <2>1. A!Port' = new
    BY <1>1, <1>3, <1>4 DEF PortIs, A!Port, SameCall
  <2> QED BY <1>1, <1>2, <1>3, <1>5, <2>1, StaysPrepared DEF Waiting
<1>8. OneCommand'
  <2>1. ~new.is
    BY <1>1, <1>2 DEF IInv, Prepared
  <2>2. \A c \in Controllers, p \in Ports : hw[c][p].phase = "idle"
    BY <1>1 DEF IInv, OneCommand, Polls
  <2>3. \A c \in Controllers, p \in Ports :
          hw'[c][p].phase # "idle" => c = drv.c /\ p = drv.p /\ hw'[c][p] = new
    BY <1>4, <2>2 DEF PortIs
  <2> QED BY <1>2, <1>3, <2>1, <2>3 DEF OneCommand, SameCall, Polls, Controllers, Ports, A!Controllers, A!Ports
<1>9. A!ReadsWhole'
  BY <1>3 DEF A!ReadsWhole
<1> QED BY <1>6, <1>7, <1>8, <1>9 DEF IInv
-----------------------------------------------------------------------------
(***************************************************************************)
(* The steps of the devices.                                               *)
(***************************************************************************)
\* A device changes neither where its memory is nor what it has been told, and a
\* command list that has stopped stays so until it is told otherwise.
LEMMA DeviceStep ==
  ASSUME IInv, NEW c \in Controllers, NEW p \in Ports, NEW new \in PortType,
         hw' = [hw EXCEPT ![c][p] = new], UNCHANGED <<tables, drv, disks>>,
         new.pi = hw[c][p].pi, new.clb = hw[c][p].clb, new.st = hw[c][p].st, new.fre = hw[c][p].fre,
         ~hw[c][p].st /\ ~hw[c][p].cr => ~new.cr
  PROVE  PortIs(c, p, new) /\ Registers /\ Types' /\ Placed' /\ Counted' /\ Told'
<1>1. HwType' /\ PortIs(c, p, new)
  BY PortChanged DEF IInv, Types
<1>2. Registers
  BY <1>1, RegistersChanged
<1>3. Types'
  BY <1>1 DEF IInv, Types, TablesType, DisksType, DrvType
<1>4. Placed' /\ Counted'
  BY DEF IInv, Placed, Counted, OfIdentify, Controllers, Ports, A!Controllers, A!Ports
<1>5. MemoryGiven'
  <2>1. \A a \in Controllers, q \in Ports : Given(a, q) => Given(a, q)'
    BY <1>2, GivenStays
  <2>2. drv.at \in {"memory", "stopList", "stopFis"} =>
          \A q \in Ports : q < drv.p => Given(drv.c, q)'
    <3>1. drv.at \in {"memory", "stopList", "stopFis"} => drv.c \in Controllers
      BY DEF IInv, Placed, Enumerating
    <3> QED BY <2>1, <3>1 DEF IInv, Told, MemoryGiven
  <2>3. drv.at = "ports" \/ OfIdentify => \A q \in Ports : Given(drv.c, q)'
    <3>1. drv.at = "ports" \/ OfIdentify => drv.c \in Controllers
      BY DEF IInv, Placed, Enumerating, OfIdentify
    <3> QED BY <2>1, <3>1 DEF IInv, Told, MemoryGiven
  <2>4. OfIdentify' = OfIdentify
    BY DEF OfIdentify
  <2> QED BY <2>2, <2>3, <2>4 DEF MemoryGiven, Ports, A!Ports
<1>6. DisksReady'
  <2>1. Found' = Found /\ Found \in Int
    BY AhciAssumption DEF IInv, Types, DrvType, Found
  <2> QED BY <1>2, <1>3, <2>1, DisksStayReady DEF IInv, Types, Told, DisksSame
<1>7. PortReady'
  <2>1. drv.at \in {"stopList", "stopFis"} =>
          drv.c \in Controllers /\ drv.p \in Ports /\ A!Port.pi
    BY DEF IInv, Told, PortReady, Placed, Enumerating, AtPort
  <2>2. drv.at \in Commands \cup {"identify"} => Ready(drv.c, drv.p)
    BY DEF IInv, Told, PortReady
  <2>3. (drv.at \in {"stopList", "stopFis"} => A!Port.pi)'
    BY <1>2, <2>1 DEF Registers, A!Port
  <2>4. (drv.at \in Commands \cup {"identify"} => Ready(drv.c, drv.p))'
    BY <1>2, <2>2 DEF Registers, Ready, Controllers, Ports, A!Controllers, A!Ports
  <2> QED BY <2>3, <2>4 DEF PortReady
<1>8. SlotFilled'
  BY DEF IInv, Told, SlotFilled, OfIdentify, A!Slot
<1>9. EnginesStopped'
  <2>1. CASE drv.at \in {"stopList", "stopFis"}
    <3>1. drv.c \in Controllers /\ drv.p \in Ports
      BY <2>1 DEF IInv, Placed, Enumerating, AtPort
    <3>2. A!Port' = IF drv.c = c /\ drv.p = p THEN new ELSE A!Port
      BY <1>1, <3>1 DEF PortIs, A!Port
    <3> QED BY <3>2 DEF IInv, Told, EnginesStopped, A!Port
  <2>2. CASE drv.at \notin {"stopList", "stopFis"}
    BY <2>2 DEF EnginesStopped
  <2> QED BY <2>1, <2>2
<1> QED BY <1>1, <1>2, <1>3, <1>4, <1>5, <1>6, <1>7, <1>8, <1>9 DEF Told

\* A device begins no command of its own.
LEMMA DeviceCommands ==
  ASSUME IInv, NEW c \in Controllers, NEW p \in Ports, NEW new, PortIs(c, p, new), UNCHANGED drv,
         new.phase # "idle" =>
           hw[c][p].phase # "idle" /\ new.ci = hw[c][p].ci /\ new.is = hw[c][p].is
  PROVE  OneCommand'
<1>1. SUFFICES ASSUME NEW a \in Controllers, NEW b \in Ports, hw'[a][b].phase # "idle"
               PROVE  drv.at \in Polls /\ a = drv.c /\ b = drv.p /\ hw'[a][b].ci /\ ~hw'[a][b].is
  BY DEF OneCommand, Controllers, Ports, A!Controllers, A!Ports
<1>2. /\ hw[a][b].phase # "idle" /\ hw'[a][b].ci = hw[a][b].ci /\ hw'[a][b].is = hw[a][b].is
  BY <1>1 DEF PortIs
<1> QED BY <1>2 DEF IInv, OneCommand

\* What it does to its registers leaves what was prepared.
LEMMA DevicePrepared ==
  ASSUME IInv, NEW c \in Controllers, NEW p \in Ports, NEW new, PortIs(c, p, new), Registers,
         UNCHANGED <<tables, drv, buf>>, new.prdbc = hw[c][p].prdbc,
         drv.at \in {"spin", "issue"} => new.is = hw[c][p].is,
         new.phase = "running" /\ Waiting /\ c = drv.c /\ p = drv.p => Asked(new.fis)
  PROVE  Prepared' /\ A!ReadsWhole'
<1>1. CASE Waiting
  <2> DEFINE port == IF c = drv.c /\ p = drv.p THEN new ELSE A!Port
  <2>1. drv.c \in Controllers /\ drv.p \in Ports
    BY <1>1 DEF Waiting, Commands, AtPort, IInv, Placed
  <2>2. A!Port' = port
    BY <2>1 DEF PortIs, A!Port
  <2>3. port.prdbc = A!Port.prdbc /\ (drv.at \in {"spin", "issue"} => port.is = A!Port.is)
    BY DEF A!Port
  <2>4. port.phase = "running" => Asked(port.fis)
    <3>1. A!Port.phase = "running" => Asked(A!Port.fis)
      BY <1>1 DEF IInv, Waiting, Prepared, Polls
    <3> QED BY <1>1, <3>1
  <2>5. SameCall
    BY DEF SameCall
  <2> HIDE DEF port
  <2>6. Prepared'
    BY <1>1, <2>2, <2>3, <2>4, <2>5, StaysPrepared
  <2>7. A!ReadsWhole'
    BY <1>1 DEF A!ReadsWhole, Waiting
  <2> QED BY <2>6, <2>7
<1>2. CASE ~Waiting
  BY <1>2 DEF Waiting, Prepared, Polls, IInv, A!ReadsWhole, A!Block
<1> QED BY <1>1, <1>2

\* The command list starts or stops as it was told.
LEMMA StepListFollows ==
  ASSUME IInv, NEW c \in Controllers, NEW p \in Ports, A!ListFollows(c, p) PROVE IInv'
<1> DEFINE new == [hw[c][p] EXCEPT !.cr = hw[c][p].st]
<1>1. hw[c][p] \in PortType
  BY PortTyped DEF IInv, Types
<1>2. hw' = [hw EXCEPT ![c][p] = new] /\ UNCHANGED <<tables, drv, disks, buf, stray>>
  <2>1. hw' = [hw EXCEPT ![c][p].cr = hw[c][p].st] /\ UNCHANGED <<tables, drv, disks, buf, stray>>
    BY DEF A!ListFollows
  <2> QED BY <2>1 DEF IInv, Types, HwType
<1>3. /\ new \in PortType /\ new.pi = hw[c][p].pi /\ new.clb = hw[c][p].clb
      /\ new.st = hw[c][p].st /\ new.fre = hw[c][p].fre
      /\ ~hw[c][p].st /\ ~hw[c][p].cr => ~new.cr
      /\ new.phase = hw[c][p].phase /\ new.ci = hw[c][p].ci /\ new.is = hw[c][p].is
      /\ new.prdbc = hw[c][p].prdbc /\ new.fis = hw[c][p].fis
  BY <1>1 DEF PortType
<1> HIDE DEF new
<1>4. PortIs(c, p, new) /\ Registers /\ Types' /\ Placed' /\ Counted' /\ Told'
  BY <1>2, <1>3, DeviceStep
<1>5. OneCommand'
  BY <1>2, <1>3, <1>4, DeviceCommands
<1>6. Prepared' /\ A!ReadsWhole'
  <2>1. new.phase = "running" /\ Waiting /\ c = drv.c /\ p = drv.p => Asked(new.fis)
    BY <1>3 DEF IInv, Waiting, Prepared, Polls, A!Port
  <2> QED BY <1>2, <1>3, <1>4, <2>1, DevicePrepared
<1> QED BY <1>2, <1>4, <1>5, <1>6 DEF IInv

\* The FIS receiver starts or stops as it was told.
LEMMA StepFisFollows ==
  ASSUME IInv, NEW c \in Controllers, NEW p \in Ports, A!FisFollows(c, p) PROVE IInv'
<1> DEFINE new == [hw[c][p] EXCEPT !.fr = hw[c][p].fre]
<1>1. hw[c][p] \in PortType
  BY PortTyped DEF IInv, Types
<1>2. hw' = [hw EXCEPT ![c][p] = new] /\ UNCHANGED <<tables, drv, disks, buf, stray>>
  <2>1. hw' = [hw EXCEPT ![c][p].fr = hw[c][p].fre] /\ UNCHANGED <<tables, drv, disks, buf, stray>>
    BY DEF A!FisFollows
  <2> QED BY <2>1 DEF IInv, Types, HwType
<1>3. /\ new \in PortType /\ new.pi = hw[c][p].pi /\ new.clb = hw[c][p].clb
      /\ new.st = hw[c][p].st /\ new.fre = hw[c][p].fre
      /\ ~hw[c][p].st /\ ~hw[c][p].cr => ~new.cr
      /\ new.phase = hw[c][p].phase /\ new.ci = hw[c][p].ci /\ new.is = hw[c][p].is
      /\ new.prdbc = hw[c][p].prdbc /\ new.fis = hw[c][p].fis
  BY <1>1 DEF PortType
<1> HIDE DEF new
<1>4. PortIs(c, p, new) /\ Registers /\ Types' /\ Placed' /\ Counted' /\ Told'
  BY <1>2, <1>3, DeviceStep
<1>5. OneCommand'
  BY <1>2, <1>3, <1>4, DeviceCommands
<1>6. Prepared' /\ A!ReadsWhole'
  <2>1. new.phase = "running" /\ Waiting /\ c = drv.c /\ p = drv.p => Asked(new.fis)
    BY <1>3 DEF IInv, Waiting, Prepared, Polls, A!Port
  <2> QED BY <1>2, <1>3, <1>4, <2>1, DevicePrepared
<1> QED BY <1>2, <1>4, <1>5, <1>6 DEF IInv

\* A drive becomes ready.
LEMMA StepBecomesReady ==
  ASSUME IInv, NEW c \in Controllers, NEW p \in Ports, A!BecomesReady(c, p) PROVE IInv'
<1> DEFINE new == [hw[c][p] EXCEPT !.busy = FALSE]
<1>1. hw[c][p] \in PortType
  BY PortTyped DEF IInv, Types
<1>2. hw' = [hw EXCEPT ![c][p] = new] /\ UNCHANGED <<tables, drv, disks, buf, stray>>
  <2>1. hw' = [hw EXCEPT ![c][p].busy = FALSE] /\ UNCHANGED <<tables, drv, disks, buf, stray>>
    BY DEF A!BecomesReady
  <2> QED BY <2>1 DEF IInv, Types, HwType
<1>3. /\ new \in PortType /\ new.pi = hw[c][p].pi /\ new.clb = hw[c][p].clb
      /\ new.st = hw[c][p].st /\ new.fre = hw[c][p].fre
      /\ ~hw[c][p].st /\ ~hw[c][p].cr => ~new.cr
      /\ new.phase = hw[c][p].phase /\ new.ci = hw[c][p].ci /\ new.is = hw[c][p].is
      /\ new.prdbc = hw[c][p].prdbc /\ new.fis = hw[c][p].fis
  BY <1>1 DEF PortType
<1> HIDE DEF new
<1>4. PortIs(c, p, new) /\ Registers /\ Types' /\ Placed' /\ Counted' /\ Told'
  BY <1>2, <1>3, DeviceStep
<1>5. OneCommand'
  BY <1>2, <1>3, <1>4, DeviceCommands
<1>6. Prepared' /\ A!ReadsWhole'
  <2>1. new.phase = "running" /\ Waiting /\ c = drv.c /\ p = drv.p => Asked(new.fis)
    BY <1>3 DEF IInv, Waiting, Prepared, Polls, A!Port
  <2> QED BY <1>2, <1>3, <1>4, <2>1, DevicePrepared
<1> QED BY <1>2, <1>4, <1>5, <1>6 DEF IInv

\* A command under way is the driver's, and waits for it.
LEMMA CommandWaits ==
  ASSUME IInv, NEW c \in Controllers, NEW p \in Ports, hw[c][p].phase # "idle"
  PROVE  /\ drv.at \in Polls /\ c = drv.c /\ p = drv.p /\ A!Port = hw[c][p]
         /\ hw[c][p].pi /\ hw[c][p].clb = c
<1>1. drv.at \in Polls /\ c = drv.c /\ p = drv.p
  BY DEF IInv, OneCommand
<1>2. Ready(drv.c, drv.p)
  BY <1>1 DEF IInv, Told, PortReady, Polls, Commands
<1> QED BY <1>1, <1>2 DEF Ready, A!Port

\* The device fetches the FIS of the command.
LEMMA StepAccept ==
  ASSUME IInv, NEW c \in Controllers, NEW p \in Ports, A!Accept(c, p) PROVE IInv'
<1> DEFINE fis == tables[hw[c][p].clb][A!FisCell(c, p)]
           new == [hw[c][p] EXCEPT !.busy = TRUE, !.phase = "running", !.fis = fis]
<1>1. hw[c][p] \in PortType /\ hw[c][p].phase = "issued"
  BY PortTyped DEF IInv, Types, A!Accept
<1>2. hw' = [hw EXCEPT ![c][p] = new] /\ UNCHANGED <<tables, drv, disks, buf, stray>>
  <2>1. /\ hw' = [hw EXCEPT ![c][p].busy = TRUE, ![c][p].phase = "running", ![c][p].fis = fis]
        /\ UNCHANGED <<tables, drv, disks, buf, stray>>
    BY DEF A!Accept
  <2> HIDE DEF fis
  <2> QED BY <2>1 DEF IInv, Types, HwType
<1>3. /\ drv.at \in Polls /\ c = drv.c /\ p = drv.p /\ A!Port = hw[c][p]
      /\ hw[c][p].pi /\ hw[c][p].clb = c
  BY <1>1, CommandWaits
<1>4. fis \in Cells /\ Asked(fis)
  <2>1. fis = tables[c][A!FisCell(c, p)] /\ A!FisCell(c, p) \in 0 .. NPORT
    BY <1>3, CellsExist
  <2>2. fis \in Cells
    BY <2>1 DEF IInv, Types, TablesType
  <2>3. Asked(tables[drv.c][A!FisCell(drv.c, drv.p)])
    BY <1>3 DEF IInv, Prepared
  <2> QED BY <1>3, <2>1, <2>2, <2>3
<1> HIDE DEF fis
<1>5. /\ new \in PortType /\ new.pi = hw[c][p].pi /\ new.clb = hw[c][p].clb
      /\ new.st = hw[c][p].st /\ new.fre = hw[c][p].fre /\ new.cr = hw[c][p].cr
      /\ new.ci = hw[c][p].ci /\ new.is = hw[c][p].is
      /\ new.prdbc = hw[c][p].prdbc /\ new.fis = fis
  BY <1>1, <1>4 DEF PortType
<1> HIDE DEF new
<1>6. PortIs(c, p, new) /\ Registers /\ Types' /\ Placed' /\ Counted' /\ Told'
  BY <1>2, <1>5, DeviceStep
<1>7. OneCommand'
  BY <1>1, <1>2, <1>5, <1>6, DeviceCommands
<1>8. Prepared' /\ A!ReadsWhole'
  BY <1>2, <1>4, <1>5, <1>6, DevicePrepared
<1> QED BY <1>2, <1>6, <1>7, <1>8 DEF IInv

\* The block that comes next goes where the driver waits for it.
LEMMA StepTransfer ==
  ASSUME IInv, NEW c \in Controllers, NEW p \in Ports, A!Transfer(c, p) PROVE IInv'
<1> DEFINE port == hw[c][p]
           sent == port.prdbc + 1
           new == [port EXCEPT !.prdbc = sent]
           block == A!Block(port.fis, sent)
<1>1. port \in PortType /\ port.phase = "running"
  BY PortTyped DEF IInv, Types, A!Transfer
<1>2. /\ drv.at \in Polls /\ c = drv.c /\ p = drv.p /\ A!Port = port
      /\ port.pi /\ port.clb = c
  BY <1>1, CommandWaits
<1>3. /\ tables[port.clb][A!PrdtCell(c, p)] = A!Prdt(drv.dba, drv.count) /\ Asked(port.fis)
      /\ buf \in [1 .. drv.count -> Int] /\ port.prdbc <= drv.count
      /\ \A i \in 1 .. port.prdbc : buf[i] = Expected(i)
  BY <1>1, <1>2 DEF IInv, Prepared
<1>4. /\ port.prdbc < drv.count /\ hw' = [hw EXCEPT ![c][p].prdbc = @ + 1]
      /\ buf' = [buf EXCEPT ![sent] = block] /\ ~stray'
      /\ UNCHANGED <<tables, drv, disks>>
  <2> DEFINE prdt == tables[port.clb][A!PrdtCell(c, p)]
             mine == drv.at \in {"poll errors", "poll completion"} /\ prdt.kind = "prdt"
                     /\ prdt.dba = drv.dba
  <2>1. prdt.kind = "prdt" /\ prdt.dba = drv.dba /\ prdt.blocks = drv.count
    BY <1>3 DEF A!Prdt
  <2>2. mine
    BY <1>2, <2>1 DEF Polls
  <2>3. /\ prdt.kind = "prdt" => port.prdbc < prdt.blocks
        /\ hw' = [hw EXCEPT ![c][p].prdbc = @ + 1]
        /\ buf' = IF mine THEN [buf EXCEPT ![sent] = block] ELSE buf
        /\ stray' = (stray \/ ~mine)
        /\ UNCHANGED <<tables, drv, disks>>
    BY DEF A!Transfer
  <2> HIDE DEF prdt, mine, sent, block
  <2>4. ~stray'
    BY <2>2, <2>3 DEF IInv
  <2> QED BY <2>1, <2>2, <2>3, <2>4
<1>5. hw' = [hw EXCEPT ![c][p] = new]
  BY <1>4 DEF IInv, Types, HwType
<1>6. port.prdbc \in Nat /\ sent \in Nat /\ sent = port.prdbc + 1 /\ drv.count \in Nat
      /\ sent \in 1 .. drv.count
  BY <1>1, <1>4 DEF PortType, IInv, Types, DrvType
<1>7. block = Expected(sent) /\ block \in Int
  <2>1. block = Expected(sent)
    BY <1>3 DEF Asked, Expected, A!Block
  <2>2. drv.lba \in Int
    BY DEF IInv, Types, DrvType
  <2> QED BY <1>6, <2>1, <2>2 DEF Expected, A!Block, A!Identification
<1> HIDE DEF sent, block
<1>8. /\ new \in PortType /\ new.pi = port.pi /\ new.clb = port.clb
      /\ new.st = port.st /\ new.fre = port.fre /\ new.cr = port.cr
      /\ new.ci = port.ci /\ new.is = port.is /\ new.phase = port.phase
      /\ new.prdbc = sent /\ new.fis = port.fis
  BY <1>1, <1>6 DEF PortType
<1> HIDE DEF new
<1>9. PortIs(c, p, new) /\ Registers /\ Types' /\ Placed' /\ Counted' /\ Told'
  <2>1. UNCHANGED <<tables, drv, disks>>
    BY <1>4
  <2>2. ~hw[c][p].st /\ ~hw[c][p].cr => ~new.cr
    BY <1>8
  <2> QED BY <1>5, <1>8, <2>1, <2>2, DeviceStep
<1>10. OneCommand'
  BY <1>1, <1>4, <1>8, <1>9, DeviceCommands
<1>11. Prepared'
  <2>1. A!Port' = new
    BY <1>2, <1>4, <1>9 DEF PortIs, A!Port
  <2>2. A!PrdtCell(drv.c, drv.p)' = A!PrdtCell(drv.c, drv.p)
        /\ A!FisCell(drv.c, drv.p)' = A!FisCell(drv.c, drv.p)
    BY <1>2, <1>4, <1>9, CellsSame
  <2>3. (tables[drv.c][A!PrdtCell(drv.c, drv.p)] = A!Prdt(drv.dba, drv.count))'
    BY <1>2, <1>3, <1>4, <2>2 DEF A!Prdt
  <2>4. Asked(tables[drv.c][A!FisCell(drv.c, drv.p)])
    BY <1>2 DEF IInv, Prepared
  <2>5. Asked(tables[drv.c][A!FisCell(drv.c, drv.p)])'
    BY <1>4, <2>2, <2>4 DEF Asked
  <2>6. Asked(A!Port.fis)'
    BY <1>3, <1>4, <1>8, <2>1 DEF Asked
  <2>7. (buf \in [1 .. drv.count -> Int])'
    BY <1>3, <1>4, <1>6, <1>7
  <2>8. (A!Port.prdbc <= drv.count)'
    BY <1>4, <1>6, <1>8, <2>1
  <2>9. (\A i \in 1 .. A!Port.prdbc : buf[i] = Expected(i))'
    <3>1. SUFFICES ASSUME NEW i \in 1 .. sent PROVE buf'[i] = Expected(i)
      BY <1>4, <1>8, <2>1 DEF Expected, A!Block
    <3>2. CASE i = sent
      BY <1>3, <1>4, <1>6, <1>7, <3>2
    <3>3. CASE i # sent
      <4>1. i \in 1 .. port.prdbc
        BY <1>6, <3>3
      <4> QED BY <1>3, <1>4, <1>6, <3>3, <4>1
    <3> QED BY <3>2, <3>3
  <2>10. drv'.at \notin {"spin", "issue"}
    BY <1>2, <1>4 DEF Polls
  <2> QED BY <2>3, <2>5, <2>6, <2>7, <2>8, <2>9, <2>10 DEF Prepared
<1>12. A!ReadsWhole' /\ ~stray'
  BY <1>2, <1>4 DEF A!ReadsWhole, Polls, IInv
<1> QED BY <1>9, <1>10, <1>11, <1>12 DEF IInv

\* A command ends, and leaves the port ready for the next.
LEMMA CommandEnds ==
  ASSUME IInv, NEW c \in Controllers, NEW p \in Ports, hw[c][p].phase = "running",
         NEW new \in PortType, hw' = [hw EXCEPT ![c][p] = new],
         UNCHANGED <<tables, drv, disks, buf, stray>>,
         new.pi = hw[c][p].pi, new.clb = hw[c][p].clb, new.st = hw[c][p].st,
         new.fre = hw[c][p].fre, new.cr = hw[c][p].cr, new.prdbc = hw[c][p].prdbc,
         new.phase = "idle"
  PROVE  IInv'
<1>1. drv.at \in Polls
  BY CommandWaits
<1>2. PortIs(c, p, new) /\ Registers /\ Types' /\ Placed' /\ Counted' /\ Told'
  BY DeviceStep
<1>3. OneCommand'
  BY <1>2, DeviceCommands
<1>4. Prepared' /\ A!ReadsWhole'
  BY <1>1, <1>2, DevicePrepared DEF Polls
<1> QED BY <1>2, <1>3, <1>4 DEF IInv

Ended(c, p, ci, is) ==
  [hw[c][p] EXCEPT !.busy = FALSE, !.phase = "idle", !.ci = ci, !.is = is, !.fis = A!Empty]

\* What the end of a command leaves of a port.
LEMMA EndedTyped ==
  ASSUME IInv, NEW c \in Controllers, NEW p \in Ports, NEW ci \in BOOLEAN, NEW is \in BOOLEAN
  PROVE  LET new == Ended(c, p, ci, is) IN
         /\ new \in PortType /\ new.pi = hw[c][p].pi /\ new.clb = hw[c][p].clb
         /\ new.st = hw[c][p].st /\ new.fre = hw[c][p].fre /\ new.cr = hw[c][p].cr
         /\ new.prdbc = hw[c][p].prdbc /\ new.phase = "idle"
<1>1. hw[c][p] \in PortType
  BY PortTyped DEF IInv, Types
<1>2. A!Empty \in Cells
  BY DEF A!Empty, Cells
<1> QED BY <1>1, <1>2, ZenonT(40) DEF Ended, PortType

\* It ends with or without all the data.
LEMMA StepComplete ==
  ASSUME IInv, NEW c \in Controllers, NEW p \in Ports, A!Complete(c, p) PROVE IInv'
<1> DEFINE new == Ended(c, p, FALSE, hw[c][p].is)
<1>1. hw[c][p].phase = "running" /\ UNCHANGED <<tables, drv, disks, buf, stray>>
  BY DEF A!Complete
<1>2. hw[c][p] \in PortType /\ hw[c][p].is \in BOOLEAN
  BY PortTyped DEF IInv, Types, PortType
<1>3. hw' = [hw EXCEPT ![c][p] = new]
  <2>1. hw' = [hw EXCEPT ![c][p].busy = FALSE, ![c][p].phase = "idle", ![c][p].ci = FALSE,
                         ![c][p].fis = A!Empty]
    BY DEF A!Complete
  <2>2. new = [hw[c][p] EXCEPT !.busy = FALSE, !.phase = "idle", !.ci = FALSE, !.fis = A!Empty]
    BY <1>2 DEF Ended, PortType
  <2> HIDE DEF new
  <2> QED BY <2>1, <2>2 DEF IInv, Types, HwType
<1>4. /\ new \in PortType /\ new.pi = hw[c][p].pi /\ new.clb = hw[c][p].clb
      /\ new.st = hw[c][p].st /\ new.fre = hw[c][p].fre /\ new.cr = hw[c][p].cr
      /\ new.prdbc = hw[c][p].prdbc /\ new.phase = "idle"
  BY <1>2, EndedTyped
<1> HIDE DEF new
<1> QED BY <1>1, <1>3, <1>4, CommandEnds

\* It ends with an error.
LEMMA StepFail ==
  ASSUME IInv, NEW c \in Controllers, NEW p \in Ports, A!Fail(c, p) PROVE IInv'
<1>1. PICK ci \in BOOLEAN :
        hw' = [hw EXCEPT ![c][p].busy = FALSE, ![c][p].phase = "idle", ![c][p].ci = ci,
                         ![c][p].is = TRUE, ![c][p].fis = A!Empty]
  BY DEF A!Fail
<1> DEFINE new == Ended(c, p, ci, TRUE)
<1>2. hw[c][p].phase = "running" /\ UNCHANGED <<tables, drv, disks, buf, stray>>
  BY DEF A!Fail
<1>3. hw' = [hw EXCEPT ![c][p] = new]
  BY <1>1, ZenonT(40) DEF Ended, IInv, Types, HwType
<1>4. /\ new \in PortType /\ new.pi = hw[c][p].pi /\ new.clb = hw[c][p].clb
      /\ new.st = hw[c][p].st /\ new.fre = hw[c][p].fre /\ new.cr = hw[c][p].cr
      /\ new.prdbc = hw[c][p].prdbc /\ new.phase = "idle"
  BY EndedTyped
<1> HIDE DEF new
<1> QED BY <1>2, <1>3, <1>4, CommandEnds
-----------------------------------------------------------------------------
(***************************************************************************)
(* The theorems.                                                           *)
(***************************************************************************)
\* No step of the driver, of a client or of a device breaks the invariant.
LEMMA StepAhci == IInv /\ [Next]_vars => IInv'
<1> SUFFICES ASSUME IInv, [Next]_vars PROVE IInv'
  OBVIOUS
<1>1. CASE UNCHANGED ahciVars
  <2>1. Types' /\ Placed' /\ Counted'
    BY <1>1 DEF ahciVars, IInv, Types, HwType, TablesType, DisksType, DrvType, Placed, Counted, OfIdentify
  <2>2. Told'
    BY <1>1 DEF ahciVars, IInv, Told, MemoryGiven, Given, DisksReady, PortReady, Ready, SlotFilled,
       EnginesStopped, OfIdentify, A!Port, A!Slot
  <2>3. OneCommand' /\ A!ReadsWhole' /\ ~stray'
    BY <1>1 DEF ahciVars, IInv, OneCommand, A!ReadsWhole, A!Block
  <2>4. Prepared'
    <3>1. A!PrdtCell(drv.c, drv.p)' = A!PrdtCell(drv.c, drv.p)
          /\ A!FisCell(drv.c, drv.p)' = A!FisCell(drv.c, drv.p)
      BY <1>1 DEF ahciVars, A!PrdtCell, A!FisCell, A!Which, A!Implemented
    <3> QED BY <1>1, <3>1 DEF ahciVars, IInv, Prepared, Asked, Expected, A!Port, A!Block, A!Prdt
  <2> QED BY <2>1, <2>2, <2>3, <2>4 DEF IInv
<1>2. CASE A!Driver
  BY <1>2, StepController, StepNoMoreControllers, StepStopEngines, StepListStopped, StepFisStopped,
     StepMemoryReady, StepTryPort, StepStartEngines, StepIdentify, StepIdentified,
     StepControllerDone, StepWaitUntilReady, StepIssue, StepPollErrors, StepPollCompletion,
     StepReadReturned DEF A!Driver
<1>3. CASE A!Call \/ A!EnumerateDisks
  BY <1>3, StepEnumerateDisks, StepRead DEF A!Call
<1>4. ASSUME NEW c \in Controllers, NEW p \in Ports, A!Device(c, p) PROVE IInv'
  BY <1>4, StepListFollows, StepFisFollows, StepBecomesReady, StepAccept, StepTransfer, StepComplete,
     StepFail DEF A!Device
<1>5. CASE Call
  BY <1>1, <1>3, <1>5 DEF Call
<1> QED BY <1>1, <1>2, <1>4, <1>5 DEF Next, vars, AhciRuns, IdeRuns, IdeDevice, AhciDevice,
    Controllers, Ports

\* At boot no port is under way, whatever the firmware left running.
LEMMA InitAhci == Init => IInv
<1> SUFFICES ASSUME Init PROVE IInv
  OBVIOUS
<1>1. PICK m \in Machines : A!Init(m.ahci)
  BY DEF Init
<1>2. m.ahci \in [1 .. NCON -> [0 .. NPORT - 1 ->
        [pi : BOOLEAN, drive : {"none", "lba28", "lba48"}, on : BOOLEAN, busy : BOOLEAN]]]
  BY AhciAssumption
<1>3. hw = [c \in Controllers |-> [p \in Ports |-> A!Register(m.ahci[c][p])]]
  BY <1>1 DEF A!Init, Controllers, Ports
<1>4. \A c \in Controllers, p \in Ports :
        /\ A!Register(m.ahci[c][p]) \in PortType
        /\ A!Register(m.ahci[c][p]).phase = "idle"
  <2>1. SUFFICES ASSUME NEW c \in Controllers, NEW p \in Ports
                 PROVE  /\ A!Register(m.ahci[c][p]) \in PortType
                        /\ A!Register(m.ahci[c][p]).phase = "idle"
    OBVIOUS
  <2>2. m.ahci[c][p] \in [pi : BOOLEAN, drive : {"none", "lba28", "lba48"}, on : BOOLEAN, busy : BOOLEAN]
    BY <1>2 DEF Controllers, Ports, A!Controllers, A!Ports
  <2>3. A!Empty \in Cells
    BY DEF A!Empty, Cells
  <2> QED BY <2>2, <2>3 DEF A!Register, PortType
<1>5. HwType /\ OneCommand
  BY <1>3, <1>4 DEF HwType, OneCommand
<1>6. TablesType
  <2>1. A!Empty \in Cells
    BY DEF A!Empty, Cells
  <2> QED BY <1>1, <2>1 DEF A!Init, TablesType, Controllers
<1>7. DisksType
  <2>1. A!NoDisk \in DiskType
    BY AhciAssumption DEF A!NoDisk, DiskType, Ports, A!Ports
  <2> QED BY <1>1, <2>1 DEF A!Init, DisksType
<1>8. DrvType /\ drv.at = "start" /\ drv.length = 0 /\ drv.cur = 0
  BY <1>1, Zero DEF A!Init, DrvType
<1>9. Placed /\ Counted /\ Prepared /\ A!ReadsWhole /\ ~stray
  BY <1>1, <1>8, AhciAssumption DEF A!Init, Placed, Counted, Enumerating, AtPort, Commands, Polls,
     OfIdentify, Prepared, A!ReadsWhole
<1>10. Told
  BY <1>8 DEF Told, MemoryGiven, DisksReady, PortReady, SlotFilled, EnginesStopped, OfIdentify, Commands
<1> QED BY <1>5, <1>6, <1>7, <1>8, <1>9, <1>10 DEF IInv, Types

\* The invariant holds in every state, whatever the controllers are and do.
THEOREM AhciInvariant == Spec => []IInv
<1>1. Init => IInv
  BY InitAhci
<1>2. IInv /\ [Next]_vars => IInv'
  BY StepAhci
<1> QED BY <1>1, <1>2, PTL DEF Spec

\* Identify and Read answer true only if every block asked for is in the buffer.
THEOREM WholeOrNothing == Spec => []ReadsWhole
<1>1. IInv => ReadsWhole
  BY DEF IInv, ReadsWhole
<1> QED BY <1>1, AhciInvariant, PTL

\* A device writes only to the buffer of the call that waits for it.
THEOREM DmaOnlyToBuffer == Spec => []NoStrayDma
<1>1. IInv => NoStrayDma
  BY DEF IInv, NoStrayDma, A!NoStrayDma
<1> QED BY <1>1, AhciInvariant, PTL

MemoryStays == \A c \in Controllers, p \in Ports : hw'[c][p].clb = hw[c][p].clb

\* A step of one port that is not given memory.
LEMMA PortKeepsMemory ==
  ASSUME IInv, NEW c \in Controllers, NEW p \in Ports, NEW new,
         hw' = [hw EXCEPT ![c][p] = new], new.clb = hw[c][p].clb
  PROVE  MemoryStays
BY DEF IInv, Types, HwType, MemoryStays

\* One step of the driver gives memory to a port.
LEMMA DriverKeepsMemory ==
  ASSUME IInv, A!Driver \/ A!Call, ~A!FisStopped
  PROVE  MemoryStays
<1>1. CASE UNCHANGED hw
  BY <1>1 DEF MemoryStays
<1>2. CASE A!StopEngines \/ A!ListStopped \/ A!StartEngines \/ A!Issue
  <2>1. CASE UNCHANGED hw
    BY <2>1 DEF MemoryStays
  <2>2. CASE ~UNCHANGED hw
    <3>1. drv.c \in Controllers
      BY <1>2 DEF IInv, Placed, Enumerating, Commands, A!StopEngines, A!ListStopped, A!StartEngines, A!Issue
    <3>2. drv.p \in Ports
      <4>1. CASE A!StopEngines
        BY <2>2, <4>1 DEF A!StopEngines, A!Implemented, Ports
      <4>2. CASE A!ListStopped \/ A!StartEngines \/ A!Issue
        BY <4>2 DEF IInv, Placed, AtPort, Commands, A!ListStopped, A!StartEngines, A!Issue
      <4> QED BY <1>2, <4>1, <4>2
    <3>3. A!Port \in PortType
      BY <3>1, <3>2, PortTyped DEF IInv, Types, A!Port
    <3>4. CASE A!StopEngines
      <4> DEFINE new == [A!Port EXCEPT !.st = FALSE]
      <4>1. hw' = [hw EXCEPT ![drv.c][drv.p] = new]
        BY <2>2, <3>4 DEF A!StopEngines, A!SetPort
      <4>2. new.clb = hw[drv.c][drv.p].clb
        BY <3>3 DEF PortType, A!Port
      <4> HIDE DEF new
      <4> QED BY <3>1, <3>2, <4>1, <4>2, PortKeepsMemory
    <3>5. CASE A!ListStopped
      <4> DEFINE new == [A!Port EXCEPT !.fre = FALSE]
      <4>1. hw' = [hw EXCEPT ![drv.c][drv.p] = new]
        BY <2>2, <3>5 DEF A!ListStopped, A!SetPort
      <4>2. new.clb = hw[drv.c][drv.p].clb
        BY <3>3 DEF PortType, A!Port
      <4> HIDE DEF new
      <4> QED BY <3>1, <3>2, <4>1, <4>2, PortKeepsMemory
    <3>6. CASE A!StartEngines
      <4> DEFINE new == [A!Port EXCEPT !.fre = TRUE, !.st = TRUE]
      <4>1. hw' = [hw EXCEPT ![drv.c][drv.p] = new]
        BY <2>2, <3>6 DEF A!StartEngines, A!SetPort, A!Halt
      <4>2. new.clb = hw[drv.c][drv.p].clb
        BY <3>3 DEF PortType, A!Port
      <4> HIDE DEF new
      <4> QED BY <3>1, <3>2, <4>1, <4>2, PortKeepsMemory
    <3>7. CASE A!Issue
      <4> DEFINE new == [A!Port EXCEPT !.ci = TRUE, !.phase = "issued"]
      <4>1. hw' = [hw EXCEPT ![drv.c][drv.p] = new]
        BY <2>2, <3>7 DEF A!Issue, A!SetPort
      <4>2. new.clb = hw[drv.c][drv.p].clb
        BY <3>3 DEF PortType, A!Port
      <4> HIDE DEF new
      <4> QED BY <3>1, <3>2, <4>1, <4>2, PortKeepsMemory
    <3> QED BY <1>2, <3>4, <3>5, <3>6, <3>7
  <2> QED BY <2>1, <2>2
<1>3. ASSUME NEW op, NEW c, NEW p, NEW blocks, NEW fis, NEW driver, Ready(c, p),
             A!Prepare(op, c, p, blocks, fis, driver)
      PROVE  MemoryStays
  <2> DEFINE new == [hw[c][p] EXCEPT !.is = FALSE, !.prdbc = 0]
  <2>1. c \in Controllers /\ p \in Ports
    BY <1>3 DEF Ready
  <2>2. hw' = [hw EXCEPT ![c][p].is = FALSE, ![c][p].prdbc = 0]
    BY <1>3 DEF A!Prepare
  <2>3. hw' = [hw EXCEPT ![c][p] = new]
    BY <2>1, <2>2 DEF IInv, Types, HwType
  <2>4. new.clb = hw[c][p].clb
    BY <2>1, PortTyped DEF IInv, Types, PortType
  <2> HIDE DEF new
  <2> QED BY <2>1, <2>3, <2>4, PortKeepsMemory
<1>4. CASE A!Identify
  <2>1. Ready(drv.c, drv.p)
    BY <1>4 DEF A!Identify, IInv, Told, PortReady
  <2> QED BY <1>3, <1>4, <2>1 DEF A!Identify
<1>5. ASSUME NEW d \in A!Slots, NEW request \in Requests, A!Read(d, request) PROVE MemoryStays
  <2>1. d \in 1 .. drv.length + drv.cur
    BY <1>5, AhciAssumption DEF A!Read, IInv, Types, DrvType, A!Slots
  <2>2. Ready(disks[d].con, disks[d].port)
    BY <2>1 DEF IInv, Told, DisksReady
  <2> QED BY <1>3, <1>5, <2>2 DEF A!Read
<1>6. CASE A!Driver
  BY <1>1, <1>2, <1>4, <1>6 DEF A!Driver, A!Controller, A!NoMoreControllers, A!MemoryReady, A!TryPort,
     A!Identified, A!ControllerDone, A!WaitUntilReady, A!PollErrors, A!PollCompletion, A!ReadReturned
<1>7. CASE A!Call
  BY <1>1, <1>5, <1>7 DEF A!Call, A!EnumerateDisks
<1> QED BY <1>6, <1>7

\* No device moves memory.
LEMMA DeviceKeepsMemory ==
  ASSUME IInv, NEW c \in Controllers, NEW p \in Ports, A!Device(c, p)
  PROVE  MemoryStays
<1>1. hw[c][p] \in PortType
  BY PortTyped DEF IInv, Types
<1>2. CASE A!ListFollows(c, p)
  <2>1. hw' = [hw EXCEPT ![c][p].cr = hw[c][p].st]
    BY <1>2 DEF A!ListFollows
  <2> DEFINE new == [hw[c][p] EXCEPT !.cr = hw[c][p].st]
  <2>2. hw' = [hw EXCEPT ![c][p] = new] /\ new.clb = hw[c][p].clb
    BY <1>1, <2>1 DEF IInv, Types, HwType, PortType
  <2> HIDE DEF new
  <2> QED BY <2>2, PortKeepsMemory
<1>3. CASE A!FisFollows(c, p)
  <2>1. hw' = [hw EXCEPT ![c][p].fr = hw[c][p].fre]
    BY <1>3 DEF A!FisFollows
  <2> DEFINE new == [hw[c][p] EXCEPT !.fr = hw[c][p].fre]
  <2>2. hw' = [hw EXCEPT ![c][p] = new] /\ new.clb = hw[c][p].clb
    BY <1>1, <2>1 DEF IInv, Types, HwType, PortType
  <2> HIDE DEF new
  <2> QED BY <2>2, PortKeepsMemory
<1>4. CASE A!BecomesReady(c, p)
  <2>1. hw' = [hw EXCEPT ![c][p].busy = FALSE]
    BY <1>4 DEF A!BecomesReady
  <2> DEFINE new == [hw[c][p] EXCEPT !.busy = FALSE]
  <2>2. hw' = [hw EXCEPT ![c][p] = new] /\ new.clb = hw[c][p].clb
    BY <1>1, <2>1 DEF IInv, Types, HwType, PortType
  <2> HIDE DEF new
  <2> QED BY <2>2, PortKeepsMemory
<1>5. CASE A!Accept(c, p)
  <2>1. PICK fis : hw' = [hw EXCEPT ![c][p].busy = TRUE, ![c][p].phase = "running", ![c][p].fis = fis]
    BY <1>5 DEF A!Accept
  <2> DEFINE new == [hw[c][p] EXCEPT !.busy = TRUE, !.phase = "running", !.fis = fis]
  <2>2. hw' = [hw EXCEPT ![c][p] = new] /\ new.clb = hw[c][p].clb
    BY <1>1, <2>1, ZenonT(40) DEF IInv, Types, HwType, PortType
  <2> HIDE DEF new
  <2> QED BY <2>2, PortKeepsMemory
<1>6. CASE A!Transfer(c, p)
  <2> DEFINE sent == hw[c][p].prdbc + 1
  <2>1. hw' = [hw EXCEPT ![c][p].prdbc = sent]
    BY <1>6 DEF A!Transfer, IInv, Types, HwType
  <2> DEFINE new == [hw[c][p] EXCEPT !.prdbc = sent]
  <2>2. hw' = [hw EXCEPT ![c][p] = new] /\ new.clb = hw[c][p].clb
    BY <1>1, <2>1 DEF IInv, Types, HwType, PortType
  <2> HIDE DEF new
  <2> QED BY <2>2, PortKeepsMemory
<1>7. CASE A!Complete(c, p)
  <2>1. hw' = [hw EXCEPT ![c][p].busy = FALSE, ![c][p].phase = "idle", ![c][p].ci = FALSE, ![c][p].fis = A!Empty]
    BY <1>7 DEF A!Complete
  <2> DEFINE new == [hw[c][p] EXCEPT !.busy = FALSE, !.phase = "idle", !.ci = FALSE, !.fis = A!Empty]
  <2>2. hw' = [hw EXCEPT ![c][p] = new] /\ new.clb = hw[c][p].clb
    BY <1>1, <2>1, ZenonT(40) DEF IInv, Types, HwType, PortType
  <2> HIDE DEF new
  <2> QED BY <2>2, PortKeepsMemory
<1>8. CASE A!Fail(c, p)
  <2>1. PICK ci \in BOOLEAN :
          hw' = [hw EXCEPT ![c][p].busy = FALSE, ![c][p].phase = "idle", ![c][p].ci = ci, ![c][p].is = TRUE, ![c][p].fis = A!Empty]
    BY <1>8 DEF A!Fail
  <2> DEFINE new == [hw[c][p] EXCEPT !.busy = FALSE, !.phase = "idle", !.ci = ci, !.is = TRUE, !.fis = A!Empty]
  <2>2. hw' = [hw EXCEPT ![c][p] = new]
    BY <2>1, ZenonT(40) DEF IInv, Types, HwType
  <2>3. new.clb = hw[c][p].clb
    BY <1>1 DEF PortType
  <2> HIDE DEF new
  <2> QED BY <2>2, <2>3, PortKeepsMemory
<1> QED BY <1>2, <1>3, <1>4, <1>5, <1>6, <1>7, <1>8 DEF A!Device

Moves(c, p) == hw'[c][p].clb # hw[c][p].clb => ~hw[c][p].cr /\ ~hw[c][p].fr

\* A port gets memory only while its engines are stopped, whatever the firmware left.
THEOREM MemoryMovesStopped == Spec => MovesOnlyStopped
<1>1. IInv /\ [Next]_vars => \A c \in Controllers, p \in Ports : Moves(c, p)
  <2> SUFFICES ASSUME IInv, [Next]_vars PROVE \A c \in Controllers, p \in Ports : Moves(c, p)
    OBVIOUS
  <2>1. CASE MemoryStays
    BY <2>1 DEF MemoryStays, Moves
  <2>2. CASE A!FisStopped
    <3>1. drv.at = "stopFis" /\ hw' = [hw EXCEPT ![drv.c][drv.p] = [A!Port EXCEPT !.clb = drv.c]]
          /\ ~A!Port.fr
      BY <2>2 DEF A!FisStopped, A!SetPort
    <3>2. ~A!Port.cr
      BY <3>1 DEF IInv, Told, EnginesStopped
    <3> QED BY <3>1, <3>2 DEF IInv, Types, HwType, Moves, A!Port
  <2>3. CASE UNCHANGED hw
    BY <2>1, <2>3 DEF MemoryStays
  <2>4. CASE A!Driver \/ A!Call
    BY <2>1, <2>2, <2>4, DriverKeepsMemory
  <2>5. ASSUME NEW c \in Controllers, NEW p \in Ports, A!Device(c, p) PROVE MemoryStays
    BY <2>5, DeviceKeepsMemory
  <2>6. CASE Call
    BY <2>3, <2>4, <2>6 DEF Call, A!EnumerateDisks, ahciVars
  <2> QED BY <2>1, <2>3, <2>4, <2>5, <2>6 DEF Next, vars, ahciVars, AhciRuns, IdeRuns, IdeDevice,
      AhciDevice, Controllers, Ports
<1>2. IInv /\ [Next]_vars => [\A c \in A!Controllers, p \in A!Ports : Moves(c, p)]_A!vars
  BY <1>1 DEF Controllers, Ports
<1> QED BY <1>2, AhciInvariant, PTL DEF Spec, MovesOnlyStopped, A!MovesOnlyStopped, Moves
-----------------------------------------------------------------------------
(***************************************************************************)
(* The shared pointers: what the operations on them preserve.              *)
(***************************************************************************)
RefsType ==
  [p : [A!Pointers -> Controllers \cup {NoController}], cnt : [Controllers -> Nat],
   freed : SUBSET Controllers]
Owners(r, o) == {x \in A!Pointers : r.p[x] = o}
Sound(r) ==
  /\ r \in RefsType
  /\ \A o \in Controllers : r.cnt[o] = Cardinality(Owners(r, o)) /\ (o \in r.freed => r.cnt[o] = 0)
Unseen(r, c) == r.cnt[c] = 0 /\ c \notin r.freed
\* What an operation does that makes x point to o, which was seen before.
Repointed(r, s, x, o) ==
  /\ Sound(s) /\ s.p = [r.p EXCEPT ![x] = o]
  /\ \A c \in Controllers : Unseen(r, c) /\ c # o => Unseen(s, c)

\* The instance counts what the standard module counts.
LEMMA SharedCardinality ==
  ASSUME NEW S PROVE A!Shared!Cardinality(S) = Cardinality(S)
BY DEF A!Shared!Cardinality, Cardinality

\* What the property says of the counts is part of what is kept.
LEMMA CountedIsSound ==
  ASSUME NEW r \in RefsType
  PROVE  A!Shared!Counted(r) <=> Sound(r)
BY SharedCardinality DEF A!Shared!Counted, Sound, Owners, Controllers

\* There are finitely many pointers,
LEMMA PointersFinite == IsFiniteSet(A!Pointers)
<1>1. IsFiniteSet(-2 .. MaxDisks)
  BY AhciAssumption, FS_Interval
<1>2. A!Pointers \subseteq -2 .. MaxDisks
  BY AhciAssumption DEF A!Pointers, A!Slots, A!Local, A!Argument, A!InitArgument
<1> QED BY <1>1, <1>2, FS_Subset

\* and so many to one object.
LEMMA OwnersFinite ==
  ASSUME NEW r, NEW o
  PROVE  IsFiniteSet(Owners(r, o)) /\ Cardinality(Owners(r, o)) \in Nat
<1>1. Owners(r, o) \subseteq A!Pointers
  BY DEF Owners
<1> QED BY <1>1, PointersFinite, FS_Subset, FS_CardinalityType

\* An object that is pointed to is counted, and alive.
LEMMA OwnedIsCounted ==
  ASSUME NEW r, Sound(r), NEW x \in A!Pointers, r.p[x] \in Controllers
  PROVE  r.cnt[r.p[x]] >= 1 /\ r.cnt[r.p[x]] \in Nat /\ r.p[x] \notin r.freed
<1> DEFINE o == r.p[x]
<1>1. x \in Owners(r, o)
  BY DEF Owners
<1>2. Cardinality(Owners(r, o)) # 0 /\ Cardinality(Owners(r, o)) \in Nat
  BY <1>1, OwnersFinite, FS_EmptySet
<1>3. r.cnt[o] = Cardinality(Owners(r, o)) /\ (o \in r.freed => r.cnt[o] = 0)
  BY DEF Sound
<1> QED BY <1>2, <1>3

\* One pointer fewer.
LEMMA DestroyCounts ==
  ASSUME NEW r, Sound(r), NEW x \in A!Pointers
  PROVE  Repointed(r, A!Shared!Destroy(r, x), x, NoController)
<1> DEFINE o == r.p[x]
           s == A!Shared!Destroy(r, x)
<1>1. r \in RefsType /\ o \in Controllers \cup {NoController} /\ NoController \notin Controllers
  BY AhciAssumption DEF Sound, RefsType, Controllers, A!Controllers
<1> SUFFICES Repointed(r, s, x, NoController)
  OBVIOUS
<1>2. CASE o = NoController
  <2>1. s = [r EXCEPT !.p[x] = NoController]
    BY <1>2 DEF A!Shared!Destroy, A!Shared!Reset
  <2>2. s = r
    BY <1>1, <1>2, <2>1 DEF RefsType
  <2>3. r.p = [r.p EXCEPT ![x] = NoController]
    BY <1>1, <1>2 DEF RefsType
  <2> HIDE DEF s
  <2> QED BY <2>2, <2>3 DEF Repointed
<1>3. CASE o # NoController
  <2>1. o \in Controllers /\ r.cnt[o] \in Nat /\ r.cnt[o] >= 1 /\ o \notin r.freed
    BY <1>1, <1>3, OwnedIsCounted
  <2>2. /\ s.p = [r.p EXCEPT ![x] = NoController] /\ s.cnt = [r.cnt EXCEPT ![o] = r.cnt[o] - 1]
        /\ s.freed = IF r.cnt[o] = 1 THEN r.freed \cup {o} ELSE r.freed
        /\ s = [p |-> s.p, cnt |-> s.cnt, freed |-> s.freed]
    <3>1. CASE r.cnt[o] = 1
      <4>1. s = [r EXCEPT !.p = [[r.p EXCEPT ![x] = NoController] EXCEPT ![x] = NoController],
                          !.cnt = [r.cnt EXCEPT ![o] = 0], !.freed = r.freed \cup {o}]
        BY <1>1, <1>3, <3>1 DEF A!Shared!Destroy, A!Shared!Reset, RefsType
      <4>2. [[r.p EXCEPT ![x] = NoController] EXCEPT ![x] = NoController] = [r.p EXCEPT ![x] = NoController]
        BY <1>1 DEF RefsType
      <4>3. r.cnt[o] - 1 = 0
        BY <3>1
      <4> HIDE DEF s, o
      <4> QED BY <1>1, <3>1, <4>1, <4>2, <4>3 DEF RefsType
    <3>2. CASE r.cnt[o] # 1
      <4>1. s = [r EXCEPT !.p = [r.p EXCEPT ![x] = NoController],
                          !.cnt = [r.cnt EXCEPT ![o] = r.cnt[o] - 1]]
        BY <1>1, <1>3, <3>2 DEF A!Shared!Destroy, A!Shared!Reset, RefsType
      <4> HIDE DEF s, o
      <4> QED BY <1>1, <3>2, <4>1 DEF RefsType
    <3> QED BY <3>1, <3>2
  <2> HIDE DEF s
  <2>3. s \in RefsType
    <3>1. s.p \in [A!Pointers -> Controllers \cup {NoController}]
      BY <1>1, <2>2 DEF RefsType
    <3>2. s.cnt \in [Controllers -> Nat]
      BY <1>1, <2>1, <2>2 DEF RefsType
    <3>3. s.freed \subseteq Controllers
      BY <1>1, <2>1, <2>2 DEF RefsType
    <3> HIDE DEF o
    <3> QED BY <2>2, <3>1, <3>2, <3>3 DEF RefsType
  <2>4. ASSUME NEW c \in Controllers
        PROVE  s.cnt[c] = Cardinality(Owners(s, c)) /\ (c \in s.freed => s.cnt[c] = 0)
    <3>1. r.cnt[c] = Cardinality(Owners(r, c)) /\ (c \in r.freed => r.cnt[c] = 0)
      BY DEF Sound
    <3>2. CASE c = o
      <4>1. Owners(s, c) = Owners(r, c) \ {x} /\ x \in Owners(r, c)
        BY <1>1, <2>1, <2>2, <3>2 DEF Owners, RefsType
      <4>2. Cardinality(Owners(s, c)) = Cardinality(Owners(r, c)) - 1
        BY <4>1, OwnersFinite, FS_RemoveElement
      <4>3. s.cnt[c] = r.cnt[c] - 1
        BY <1>1, <2>2, <3>2 DEF RefsType
      <4>4. c \in s.freed => s.cnt[c] = 0
        BY <2>1, <2>2, <3>2, <4>3
      <4> QED BY <3>1, <4>2, <4>3, <4>4
    <3>3. CASE c # o
      <4>1. Owners(s, c) = Owners(r, c)
        BY <1>1, <2>2, <3>3 DEF Owners, RefsType
      <4>2. s.cnt[c] = r.cnt[c] /\ (c \in s.freed <=> c \in r.freed)
        BY <1>1, <2>2, <3>3 DEF RefsType
      <4> QED BY <3>1, <4>1, <4>2
    <3> QED BY <3>2, <3>3
  <2>5. ASSUME NEW c \in Controllers, Unseen(r, c) PROVE Unseen(s, c)
    <3>1. c # o
      BY <2>1, <2>5 DEF Unseen
    <3> QED BY <1>1, <2>2, <2>5, <3>1 DEF Unseen, RefsType
  <2> QED BY <2>2, <2>3, <2>4, <2>5 DEF Repointed, Sound
<1> QED BY <1>2, <1>3

\* One pointer more, to an object that is counted right.
LEMMA PointedCounts ==
  ASSUME NEW r, Sound(r), NEW x \in A!Pointers, r.p[x] = NoController,
         NEW o \in Controllers, o \notin r.freed, NEW s,
         s = [r EXCEPT !.p = [r.p EXCEPT ![x] = o], !.cnt = [r.cnt EXCEPT ![o] = r.cnt[o] + 1]]
  PROVE  Repointed(r, s, x, o)
<1>1. r \in RefsType /\ NoController \notin Controllers
  BY AhciAssumption DEF Sound, RefsType, Controllers, A!Controllers
<1>2. /\ s.p = [r.p EXCEPT ![x] = o] /\ s.cnt = [r.cnt EXCEPT ![o] = r.cnt[o] + 1]
      /\ s.freed = r.freed /\ s = [p |-> s.p, cnt |-> s.cnt, freed |-> s.freed]
  BY <1>1 DEF RefsType
<1>3. s \in RefsType
  <2>1. s.p \in [A!Pointers -> Controllers \cup {NoController}]
    BY <1>1, <1>2 DEF RefsType
  <2>2. s.cnt \in [Controllers -> Nat]
    BY <1>1, <1>2 DEF RefsType
  <2>3. s.freed \subseteq Controllers
    BY <1>1, <1>2 DEF RefsType
  <2> QED BY <1>2, <2>1, <2>2, <2>3 DEF RefsType
<1>4. ASSUME NEW c \in Controllers
      PROVE  s.cnt[c] = Cardinality(Owners(s, c)) /\ (c \in s.freed => s.cnt[c] = 0)
  <2>1. r.cnt[c] = Cardinality(Owners(r, c)) /\ (c \in r.freed => r.cnt[c] = 0)
    BY DEF Sound
  <2>2. CASE c = o
    <3>1. Owners(s, c) = Owners(r, c) \cup {x} /\ x \notin Owners(r, c)
      BY <1>1, <1>2, <2>2 DEF Owners, RefsType
    <3>2. Cardinality(Owners(s, c)) = Cardinality(Owners(r, c)) + 1
      BY <3>1, OwnersFinite, FS_AddElement
    <3>3. s.cnt[c] = r.cnt[c] + 1 /\ c \notin s.freed
      BY <1>1, <1>2, <2>2 DEF RefsType
    <3> QED BY <2>1, <3>2, <3>3
  <2>3. CASE c # o
    <3>1. Owners(s, c) = Owners(r, c)
      BY <1>1, <1>2, <2>3 DEF Owners, RefsType
    <3>2. s.cnt[c] = r.cnt[c] /\ (c \in s.freed <=> c \in r.freed)
      BY <1>1, <1>2, <2>3 DEF RefsType
    <3> QED BY <2>1, <3>1, <3>2
  <2> QED BY <2>2, <2>3
<1>5. ASSUME NEW c \in Controllers, Unseen(r, c), c # o PROVE Unseen(s, c)
  BY <1>1, <1>2, <1>5 DEF Unseen, RefsType
<1> QED BY <1>2, <1>3, <1>4, <1>5 DEF Repointed, Sound

\* operator=, and copy construction: x points where y does.
LEMMA AssignCounts ==
  ASSUME NEW r, Sound(r), NEW x \in A!Pointers, NEW y \in A!Pointers, x # y,
         r.p[y] \in Controllers
  PROVE  Repointed(r, A!Shared!Assign(r, x, y), x, r.p[y])
<1> DEFINE o == r.p[y]
           t == A!Shared!Reset(r, x)
           d == A!Shared!Destroy(r, x)
           s == A!Shared!Assign(r, x, y)
<1> SUFFICES Repointed(r, s, x, o)
  OBVIOUS
<1>1. r \in RefsType /\ NoController \notin Controllers /\ o # NoController
  BY AhciAssumption DEF Sound, RefsType, Controllers, A!Controllers
<1>2. Repointed(r, d, x, NoController) /\ d = [t EXCEPT !.p[x] = NoController]
  BY DestroyCounts DEF A!Shared!Destroy
<1>3. t.p[y] = o /\ t = [p |-> t.p, cnt |-> t.cnt, freed |-> t.freed] /\ t.p \in [A!Pointers -> Controllers \cup {NoController}]
  <2>1. CASE r.p[x] = NoController
    BY <1>1, <2>1 DEF A!Shared!Reset, RefsType
  <2>2. CASE r.p[x] # NoController /\ r.cnt[r.p[x]] = 1
    BY <1>1, <2>2 DEF A!Shared!Reset, RefsType
  <2>3. CASE r.p[x] # NoController /\ r.cnt[r.p[x]] # 1
    BY <1>1, <2>3 DEF A!Shared!Reset, RefsType
  <2> QED BY <2>1, <2>2, <2>3
<1>4. s = [t EXCEPT !.p[x] = o, !.cnt[o] = @ + 1]
  BY <1>1, <1>3 DEF A!Shared!Assign
<1> HIDE DEF t, d, s, o
<1>5. d.p = [r.p EXCEPT ![x] = NoController] /\ Sound(d) /\ d \in RefsType
  BY <1>2 DEF Repointed, Sound
<1>6. d.p[x] = NoController /\ d.p[y] = o /\ o \in Controllers
  BY <1>1, <1>5 DEF RefsType, o
<1>7. o \notin d.freed
  BY <1>5, <1>6, OwnedIsCounted
<1>8. s = [d EXCEPT !.p = [d.p EXCEPT ![x] = o], !.cnt = [d.cnt EXCEPT ![o] = d.cnt[o] + 1]]
  <2>1. d.p = [t.p EXCEPT ![x] = NoController] /\ d.cnt = t.cnt /\ d.freed = t.freed
        /\ d = [p |-> d.p, cnt |-> d.cnt, freed |-> d.freed]
    BY <1>2, <1>3
  <2>2. s = [p |-> [t.p EXCEPT ![x] = o], cnt |-> [t.cnt EXCEPT ![o] = t.cnt[o] + 1], freed |-> t.freed]
    BY <1>3, <1>4
  <2>3. [d.p EXCEPT ![x] = o] = [t.p EXCEPT ![x] = o]
    BY <1>3, <2>1
  <2>4. d \in RefsType
    BY <1>2 DEF Repointed, Sound
  <2>5. [d EXCEPT !.p = [d.p EXCEPT ![x] = o], !.cnt = [d.cnt EXCEPT ![o] = d.cnt[o] + 1]]
        = [p |-> [d.p EXCEPT ![x] = o], cnt |-> [d.cnt EXCEPT ![o] = d.cnt[o] + 1],
           freed |-> d.freed]
    <3> DEFINE p == [d.p EXCEPT ![x] = o]
               cnt == [d.cnt EXCEPT ![o] = d.cnt[o] + 1]
    <3> HIDE DEF p, cnt
    <3>1. ASSUME NEW e, e = [d EXCEPT !.p = p, !.cnt = cnt]
          PROVE  e = [p |-> p, cnt |-> cnt, freed |-> d.freed]
      BY <2>4, <3>1 DEF RefsType
    <3> QED BY <3>1 DEF p, cnt
  <2> QED BY <2>1, <2>2, <2>3, <2>5
<1>9. Repointed(d, s, x, o)
  BY <1>5, <1>6, <1>7, <1>8, PointedCounts
<1>10. s.p = [r.p EXCEPT ![x] = o]
  BY <1>1, <1>5, <1>9 DEF Repointed, RefsType
<1>11. ASSUME NEW c \in Controllers, Unseen(r, c), c # o PROVE Unseen(s, c)
  <2>1. c # NoController
    BY <1>1
  <2> QED BY <1>2, <1>9, <1>11, <2>1 DEF Repointed
<1> QED BY <1>9, <1>10, <1>11 DEF Repointed

\* reset(_p) with an object that is new.
LEMMA ResetToCounts ==
  ASSUME NEW r, Sound(r), NEW x \in A!Pointers, NEW o \in Controllers, Unseen(r, o)
  PROVE  Repointed(r, A!Shared!ResetTo(r, x, o), x, o)
<1> DEFINE t == A!Shared!Reset(r, x)
           d == A!Shared!Destroy(r, x)
           s == A!Shared!ResetTo(r, x, o)
<1> SUFFICES Repointed(r, s, x, o)
  OBVIOUS
<1>1. r \in RefsType /\ NoController \notin Controllers /\ o # NoController
  BY AhciAssumption DEF Sound, RefsType, Controllers, A!Controllers
<1>2. Repointed(r, d, x, NoController) /\ d = [t EXCEPT !.p[x] = NoController]
  BY DestroyCounts DEF A!Shared!Destroy
<1>3. r.p[x] # o
  BY OwnedIsCounted DEF Unseen
<1>4. t = [p |-> t.p, cnt |-> t.cnt, freed |-> t.freed] /\ t.p \in [A!Pointers -> Controllers \cup {NoController}]
  <2>1. CASE r.p[x] = NoController
    BY <1>1, <2>1 DEF A!Shared!Reset, RefsType
  <2>2. CASE r.p[x] # NoController /\ r.cnt[r.p[x]] = 1
    BY <1>1, <2>2 DEF A!Shared!Reset, RefsType
  <2>3. CASE r.p[x] # NoController /\ r.cnt[r.p[x]] # 1
    BY <1>1, <2>3 DEF A!Shared!Reset, RefsType
  <2> QED BY <2>1, <2>2, <2>3
<1>5. s = [t EXCEPT !.p[x] = o, !.cnt[o] = 1]
  BY <1>3 DEF A!Shared!ResetTo
<1> HIDE DEF t, d, s
<1>6. d.p = [r.p EXCEPT ![x] = NoController] /\ Sound(d) /\ d \in RefsType /\ Unseen(d, o)
  BY <1>1, <1>2 DEF Repointed, Sound
<1>7. d.p[x] = NoController /\ d.cnt[o] = 0 /\ o \notin d.freed
  BY <1>1, <1>6 DEF RefsType, Unseen
<1>8. s = [d EXCEPT !.p = [d.p EXCEPT ![x] = o], !.cnt = [d.cnt EXCEPT ![o] = d.cnt[o] + 1]]
  <2>1. d.p = [t.p EXCEPT ![x] = NoController] /\ d.cnt = t.cnt /\ d.freed = t.freed
        /\ d = [p |-> d.p, cnt |-> d.cnt, freed |-> d.freed]
    BY <1>2, <1>4
  <2>2. s = [p |-> [t.p EXCEPT ![x] = o], cnt |-> [t.cnt EXCEPT ![o] = 1], freed |-> t.freed]
    BY <1>4, <1>5
  <2>3. [d.p EXCEPT ![x] = o] = [t.p EXCEPT ![x] = o]
    BY <1>4, <2>1
  <2>4. d \in RefsType
    BY <1>2 DEF Repointed, Sound
  <2>5. [d EXCEPT !.p = [d.p EXCEPT ![x] = o], !.cnt = [d.cnt EXCEPT ![o] = d.cnt[o] + 1]]
        = [p |-> [d.p EXCEPT ![x] = o], cnt |-> [d.cnt EXCEPT ![o] = d.cnt[o] + 1],
           freed |-> d.freed]
    <3> DEFINE p == [d.p EXCEPT ![x] = o]
               cnt == [d.cnt EXCEPT ![o] = d.cnt[o] + 1]
    <3> HIDE DEF p, cnt
    <3>1. ASSUME NEW e, e = [d EXCEPT !.p = p, !.cnt = cnt]
          PROVE  e = [p |-> p, cnt |-> cnt, freed |-> d.freed]
      BY <2>4, <3>1 DEF RefsType
    <3> QED BY <3>1 DEF p, cnt
  <2>6. d.cnt[o] + 1 = 1
    BY <1>7
  <2> QED BY <2>1, <2>2, <2>3, <2>5, <2>6
<1>9. Repointed(d, s, x, o)
  BY <1>6, <1>7, <1>8, PointedCounts
<1>10. s.p = [r.p EXCEPT ![x] = o]
  BY <1>1, <1>6, <1>9 DEF Repointed, RefsType
<1>11. ASSUME NEW c \in Controllers, Unseen(r, c), c # o PROVE Unseen(s, c)
  <2>1. c # NoController
    BY <1>1
  <2> QED BY <1>2, <1>9, <1>11, <2>1 DEF Repointed
<1> QED BY <1>9, <1>10, <1>11 DEF Repointed
-----------------------------------------------------------------------------
(***************************************************************************)
(* Which pointers there are while the driver works.                        *)
(***************************************************************************)
Holding == drv.at \in Enumerating \/ OfIdentify
Looking == drv.at \in {"start", "devices"} \/ Holding
Passing == drv.at = "ports" \/ OfIdentify
PointersHeld ==
  /\ Looking => \A c \in Controllers : c > drv.c => Unseen(refs, c)
  /\ Holding => refs.p[A!Local] = drv.c
  /\ Passing => refs.p[A!Argument] = drv.c
  /\ OfIdentify => refs.p[A!InitArgument] = drv.c /\ refs.p[A!Slot] = drv.c
  /\ \A d \in 1 .. Found : refs.p[d] = disks[d].con
PointersInv == Sound(refs) /\ PointersHeld

\* Steps that leave the pointers, and do not go where more of them are held.
LEMMA PointersStay ==
  ASSUME IInv, PointersInv, UNCHANGED refs, drv'.length = drv.length, drv'.cur = drv.cur, DisksSame,
         Looking' => Looking /\ drv'.c = drv.c, Holding' => Holding, Passing' => Passing,
         OfIdentify' => OfIdentify
  PROVE  PointersInv'
<1>1. Sound(refs)'
  BY DEF PointersInv, Sound, Owners
<1>2. Found' = Found /\ A!Slot' = A!Slot
  BY DEF Found, A!Slot
<1>3. /\ Holding' => Looking'
      /\ Passing' => Looking'
      /\ OfIdentify' => Looking'
  BY DEF Looking, Holding, Passing, Enumerating
<1>4. \A d \in 1 .. Found' : refs'.p[d] = disks'[d].con
  BY <1>2 DEF PointersInv, PointersHeld, DisksSame
<1>5. PointersHeld'
  <2>1. (Looking => \A c \in Controllers : c > drv.c => Unseen(refs, c))'
    BY DEF PointersInv, PointersHeld, Controllers, A!Controllers, Unseen
  <2>2. (Holding => refs.p[A!Local] = drv.c)'
    BY <1>3 DEF PointersInv, PointersHeld, A!Local
  <2>3. (Passing => refs.p[A!Argument] = drv.c)'
    BY <1>3 DEF PointersInv, PointersHeld, A!Argument
  <2>4. (OfIdentify => refs.p[A!InitArgument] = drv.c /\ refs.p[A!Slot] = drv.c)'
    BY <1>2, <1>3 DEF PointersInv, PointersHeld, A!InitArgument
  <2> QED BY <1>4, <2>1, <2>2, <2>3, <2>4 DEF PointersHeld
<1> QED BY <1>1, <1>5 DEF PointersInv

\* What an operation on one pointer says of the others.
LEMMA OthersStay ==
  ASSUME NEW r, Sound(r), NEW s, NEW x \in A!Pointers, NEW o, Repointed(r, s, x, o)
  PROVE  Sound(s) /\ s.p[x] = o /\ \A y \in A!Pointers : y # x => s.p[y] = r.p[y]
BY DEF Repointed, Sound, RefsType

UnseenAbove(r, k) == \A c \in Controllers : c > k => Unseen(r, c)

\* A pointer to what was seen before leaves the rest unseen.
LEMMA StaysUnseen ==
  ASSUME NEW r, NEW s, NEW x, NEW o, Repointed(r, s, x, o), NEW k \in Nat,
         o = NoController \/ (o \in Controllers /\ o <= k), UnseenAbove(r, k)
  PROVE  UnseenAbove(s, k)
<1>1. SUFFICES ASSUME NEW c \in Controllers, c > k PROVE Unseen(s, c)
  BY DEF UnseenAbove
<1>2. c # o
  BY <1>1, AhciAssumption DEF Controllers, A!Controllers
<1> QED BY <1>1, <1>2 DEF Repointed, UnseenAbove

\* The pointers are different ones.
LEMMA Distinct ==
  /\ A!Local \in A!Pointers /\ A!Argument \in A!Pointers /\ A!InitArgument \in A!Pointers
  /\ A!Local # A!Argument /\ A!Local # A!InitArgument /\ A!Argument # A!InitArgument
  /\ \A d \in A!Slots : d \in A!Pointers /\ d # A!Local /\ d # A!Argument /\ d # A!InitArgument
BY DEF A!Pointers, A!Local, A!Argument, A!InitArgument, A!Slots

\* The disks found have room in the array.
LEMMA FoundAreSlots ==
  ASSUME IInv
  PROVE  \A d \in 1 .. Found : d \in A!Slots
<1>1. Found \in Int /\ Found <= MaxDisks
  BY AhciAssumption DEF IInv, Types, DrvType, Counted, Found
<1> QED BY <1>1, AhciAssumption DEF A!Slots

\* A new controller is pointed to, and none is if it has no ports.
LEMMA PointersController == IInv /\ PointersInv /\ A!Controller => PointersInv'
<1> SUFFICES ASSUME IInv, PointersInv, A!Controller PROVE PointersInv'
  OBVIOUS
<1> DEFINE c == drv.c + 1
           r == A!Shared!ResetTo(refs, A!Local, c)
           s == A!Shared!Destroy(r, A!Local)
<1>1. /\ drv.at = "devices" /\ drv.c < NCON /\ drv'.c = c /\ UNCHANGED disks
      /\ drv'.length = drv.length /\ drv'.cur = drv.cur
      /\ (refs' = s /\ drv'.at = "devices") \/ (refs' = r /\ drv'.at = "memory")
  <2>1. CASE A!Implemented(c) = {}
    <3>1. drv.at = "devices" /\ drv.c < NCON /\ refs' = s /\ drv' = [drv EXCEPT !.c = c] /\ UNCHANGED disks
      BY <2>1 DEF A!Controller
    <3> HIDE DEF c, r, s
    <3> QED BY <3>1 DEF IInv, Types, DrvType
  <2>2. CASE A!Implemented(c) # {}
    <3>1. drv.at = "devices" /\ drv.c < NCON /\ refs' = r /\ drv' = [drv EXCEPT !.c = c, !.p = 0, !.at = "memory"]
          /\ UNCHANGED disks
      BY <2>2 DEF A!Controller
    <3> HIDE DEF c, r, s
    <3> QED BY <3>1 DEF IInv, Types, DrvType
  <2> QED BY <2>1, <2>2
<1>2. drv.c \in Nat /\ c \in Controllers /\ c \in Nat /\ c > drv.c /\ c = drv.c + 1
  BY <1>1, AhciAssumption DEF IInv, Types, DrvType, Controllers, A!Controllers
<1>3. Sound(refs) /\ UnseenAbove(refs, drv.c) /\ \A d \in 1 .. Found : refs.p[d] = disks[d].con
  BY <1>1 DEF PointersInv, PointersHeld, Looking, UnseenAbove
<1> HIDE DEF c
<1>4. Repointed(refs, r, A!Local, c)
  BY <1>2, <1>3, Distinct, ResetToCounts DEF UnseenAbove
<1>5. Sound(r) /\ r.p[A!Local] = c /\ \A y \in A!Pointers : y # A!Local => r.p[y] = refs.p[y]
  BY <1>3, <1>4, Distinct, OthersStay
<1>6. UnseenAbove(refs, c)
  BY <1>2, <1>3 DEF UnseenAbove, Controllers, A!Controllers
<1>7. UnseenAbove(r, c)
  BY <1>2, <1>4, <1>6, StaysUnseen
<1> HIDE DEF r
<1>8. Repointed(r, s, A!Local, NoController)
  BY <1>5, Distinct, DestroyCounts
<1> HIDE DEF s
<1>9. Sound(s) /\ UnseenAbove(s, c) /\ \A y \in A!Pointers : y # A!Local => s.p[y] = r.p[y]
  <2>1. Sound(s) /\ \A y \in A!Pointers : y # A!Local => s.p[y] = r.p[y]
    BY <1>5, <1>8, Distinct, OthersStay
  <2>2. UnseenAbove(s, c)
    BY <1>2, <1>7, <1>8, StaysUnseen
  <2> QED BY <2>1, <2>2
<1>10. Sound(refs') /\ UnseenAbove(refs', c)
       /\ (\A y \in A!Pointers : y # A!Local => refs'.p[y] = refs.p[y])
       /\ (drv'.at = "memory" => refs'.p[A!Local] = c)
  BY <1>1, <1>5, <1>7, <1>9
<1>11. Found' = Found /\ \A d \in 1 .. Found : d \in A!Slots
  BY <1>1, FoundAreSlots DEF Found
<1>12. \A d \in 1 .. Found : refs'.p[d] = disks'[d].con
  BY <1>1, <1>3, <1>10, <1>11, Distinct
<1>13. PointersHeld'
  <2>1. ~Passing' /\ ~OfIdentify' /\ (Holding' => drv'.at = "memory")
    BY <1>1 DEF Passing, Holding, Enumerating, OfIdentify, Commands
  <2>2. \A b \in Controllers : b > c => Unseen(refs', b)
    BY <1>10 DEF UnseenAbove
  <2> QED BY <1>1, <1>10, <1>11, <1>12, <2>1, <2>2 DEF PointersHeld, Unseen, Controllers,
      A!Controllers, A!Local
<1> QED BY <1>10, <1>13 DEF PointersInv, Sound, Owners

\* EnumerateDisksInController gets a copy.
LEMMA PointersMemoryReady == IInv /\ PointersInv /\ A!MemoryReady => PointersInv'
<1> SUFFICES ASSUME IInv, PointersInv, A!MemoryReady PROVE PointersInv'
  OBVIOUS
<1>1. /\ drv.at = "memory" /\ drv.cur = 0 /\ drv'.at = "ports" /\ drv'.c = drv.c /\ drv'.length = drv.length
      /\ drv'.cur = 0 /\ UNCHANGED disks /\ refs' = A!Shared!Assign(refs, A!Argument, A!Local)
  BY DEF A!MemoryReady, A!Shared!Copy, IInv, Types, DrvType, Counted, OfIdentify, Commands
<1>2. drv.c \in Nat /\ drv.c \in Controllers
  BY <1>1, AhciAssumption DEF IInv, Types, DrvType, Placed, Enumerating
<1>3. Sound(refs) /\ UnseenAbove(refs, drv.c) /\ refs.p[A!Local] = drv.c
      /\ \A d \in 1 .. Found : refs.p[d] = disks[d].con
  BY <1>1 DEF PointersInv, PointersHeld, Looking, Holding, Enumerating, UnseenAbove
<1>4. Repointed(refs, refs', A!Argument, drv.c)
  BY <1>1, <1>2, <1>3, Distinct, AssignCounts
<1>5. Sound(refs') /\ refs'.p[A!Argument] = drv.c
      /\ (\A y \in A!Pointers : y # A!Argument => refs'.p[y] = refs.p[y])
  BY <1>3, <1>4, Distinct, OthersStay
<1>6. UnseenAbove(refs', drv.c)
  BY <1>2, <1>3, <1>4, StaysUnseen
<1>7. Found' = Found /\ \A d \in 1 .. Found : d \in A!Slots
  BY <1>1, FoundAreSlots DEF Found
<1>8. \A d \in 1 .. Found : refs'.p[d] = disks'[d].con
  BY <1>1, <1>3, <1>5, <1>7, Distinct
<1>9. refs'.p[A!Local] = drv.c
  BY <1>3, <1>5, Distinct
<1>10. PointersHeld'
  <2>1. ~OfIdentify'
    BY <1>1 DEF OfIdentify, Commands
  <2>2. \A b \in Controllers : b > drv.c => Unseen(refs', b)
    BY <1>6 DEF UnseenAbove
  <2> QED BY <1>1, <1>5, <1>7, <1>8, <1>9, <2>1, <2>2 DEF PointersHeld, Unseen, Controllers,
      A!Controllers, A!Local, A!Argument
<1> QED BY <1>5, <1>10 DEF PointersInv, Sound, Owners

\* The disk that is tried gets a copy, by way of the argument of Init.
LEMMA PointersTryPort == IInv /\ PointersInv /\ A!TryPort => PointersInv'
<1> SUFFICES ASSUME IInv, PointersInv, A!TryPort PROVE PointersInv'
  OBVIOUS
<1> DEFINE c == drv.c
           passed == A!Shared!Assign(refs, A!InitArgument, A!Argument)
           kept == A!Shared!Assign(passed, A!Slot, A!InitArgument)
           none == A!Shared!Destroy(kept, A!InitArgument)
<1>1. /\ drv.at = "ports" /\ drv.p < NPORT /\ drv.length + drv.cur < MaxDisks
      /\ \/ refs' = none /\ drv' = [drv EXCEPT !.p = drv.p + 1]
         \/ refs' = kept /\ drv' = [drv EXCEPT !.at = "start engines"]
      /\ disks' = [disks EXCEPT ![A!Slot].con = c, ![A!Slot].port = drv.p]
  <2>1. \/ refs' = none /\ drv' = [drv EXCEPT !.p = drv.p + 1]
        \/ refs' = kept /\ drv' = [drv EXCEPT !.at = "start engines"]
    <3>1. CASE A!Port.drive = "none"
      BY <3>1 DEF A!TryPort, A!Shared!Copy
    <3>2. CASE A!Port.drive # "none"
      BY <3>2 DEF A!TryPort, A!Shared!Copy, A!Goto
    <3> QED BY <3>1, <3>2
  <2> QED BY <2>1 DEF A!TryPort
<1>2. A!Slot \in A!Slots /\ A!Slot = Found + 1 /\ Found \in Int /\ \A d \in 1 .. Found : d # A!Slot
  BY <1>1, SlotNew
<1>3. c \in Nat /\ c \in Controllers
  <2>1. drv.at = "ports"
    BY <1>1
  <2>2. drv.c \in Controllers
    BY <2>1 DEF IInv, Placed, Enumerating
  <2> QED BY <2>2, AhciAssumption DEF Controllers, A!Controllers
<1>4. Sound(refs) /\ UnseenAbove(refs, c) /\ refs.p[A!Local] = c /\ refs.p[A!Argument] = c
      /\ \A d \in 1 .. Found : refs.p[d] = disks[d].con
  BY <1>1 DEF PointersInv, PointersHeld, Looking, Holding, Passing, Enumerating, UnseenAbove
<1> HIDE DEF passed, kept, none, c
<1>5. Repointed(refs, passed, A!InitArgument, c)
  BY <1>3, <1>4, Distinct, AssignCounts DEF passed
<1>6. Sound(passed) /\ passed.p[A!InitArgument] = c
      /\ \A y \in A!Pointers : y # A!InitArgument => passed.p[y] = refs.p[y]
  BY <1>4, <1>5, Distinct, OthersStay
<1>7. UnseenAbove(passed, c)
  BY <1>3, <1>4, <1>5, StaysUnseen
<1>8. Repointed(passed, kept, A!Slot, c)
  BY <1>2, <1>3, <1>6, Distinct, AssignCounts DEF kept
<1>9. Sound(kept) /\ kept.p[A!Slot] = c
      /\ \A y \in A!Pointers : y # A!Slot => kept.p[y] = passed.p[y]
  BY <1>2, <1>6, <1>8, Distinct, OthersStay
<1>10. UnseenAbove(kept, c)
  BY <1>3, <1>7, <1>8, StaysUnseen
<1>11. Repointed(kept, none, A!InitArgument, NoController)
  BY <1>9, Distinct, DestroyCounts DEF none
<1>12. Sound(none) /\ \A y \in A!Pointers : y # A!InitArgument => none.p[y] = kept.p[y]
  BY <1>9, <1>11, Distinct, OthersStay
<1>13. UnseenAbove(none, c)
  BY <1>3, <1>10, <1>11, StaysUnseen
<1>14. /\ Sound(refs') /\ UnseenAbove(refs', c)
       /\ \A y \in A!Pointers : y # A!InitArgument /\ y # A!Slot => refs'.p[y] = refs.p[y]
  BY <1>1, <1>6, <1>9, <1>10, <1>12, <1>13
<1>15. /\ drv'.at \in {"ports", "start engines"} /\ drv'.c = c /\ drv'.length = drv.length
       /\ drv'.cur = drv.cur
       /\ drv'.at = "start engines" => refs' = kept
  <2>1. CASE refs' = none /\ drv' = [drv EXCEPT !.p = drv.p + 1]
    BY <1>1, <2>1 DEF c, IInv, Types, DrvType
  <2>2. CASE refs' = kept /\ drv' = [drv EXCEPT !.at = "start engines"]
    BY <2>2 DEF c, IInv, Types, DrvType
  <2> QED BY <1>1, <2>1, <2>2
<1>16. Found' = Found /\ A!Slot' = A!Slot
  BY <1>15 DEF Found, A!Slot
<1>17. \A d \in 1 .. Found : refs'.p[d] = disks'[d].con
  <2>1. SUFFICES ASSUME NEW d \in 1 .. Found PROVE refs'.p[d] = disks'[d].con
    OBVIOUS
  <2>2. d \in A!Slots /\ d # A!Slot
    BY <1>2, FoundAreSlots
  <2>3. disks'[d] = disks[d]
    BY <1>1, <2>2 DEF IInv, Types, DisksType
  <2>4. refs'.p[d] = refs.p[d]
    BY <1>14, <2>2, Distinct
  <2> QED BY <1>4, <2>3, <2>4
<1>18. refs'.p[A!Local] = c /\ refs'.p[A!Argument] = c
  BY <1>2, <1>4, <1>14, Distinct
<1>19. drv'.at = "start engines" => refs'.p[A!InitArgument] = c /\ refs'.p[A!Slot] = c
  BY <1>2, <1>6, <1>9, <1>15, Distinct
<1>20. PointersHeld'
  <2>1. OfIdentify' => drv'.at = "start engines"
    BY <1>15 DEF OfIdentify, Commands
  <2>2. \A b \in Controllers : b > c => Unseen(refs', b)
    BY <1>14 DEF UnseenAbove
  <2>3. (Looking => \A b \in Controllers : b > drv.c => Unseen(refs, b))'
    BY <1>15, <2>2 DEF Unseen, Controllers, A!Controllers
  <2>4. (Holding => refs.p[A!Local] = drv.c)' /\ (Passing => refs.p[A!Argument] = drv.c)'
    BY <1>15, <1>18 DEF A!Local, A!Argument
  <2>5. (OfIdentify => refs.p[A!InitArgument] = drv.c /\ refs.p[A!Slot] = drv.c)'
    BY <1>15, <1>16, <1>19, <2>1 DEF A!InitArgument
  <2>6. (\A d \in 1 .. Found : refs.p[d] = disks[d].con)'
    BY <1>16, <1>17
  <2> QED BY <2>3, <2>4, <2>5, <2>6 DEF PointersHeld
<1> QED BY <1>14, <1>20 DEF PointersInv, Sound, Owners

\* The argument of Init goes; the disk keeps its pointer, whether it is found or not.
LEMMA PointersIdentified == IInv /\ PointersInv /\ A!Identified => PointersInv'
<1> SUFFICES ASSUME IInv, PointersInv, A!Identified PROVE PointersInv'
  OBVIOUS
<1> DEFINE c == drv.c
           next == drv.p + 1
           found == IF drv.ok THEN drv.cur + 1 ELSE drv.cur
<1>1. /\ drv.at = "returned" /\ drv.op = "identify"
      /\ refs' = A!Shared!Destroy(refs, A!InitArgument)
      /\ drv' = [drv EXCEPT !.at = "ports", !.p = next, !.cur = found]
  BY DEF A!Identified
<1>2. OfIdentify /\ c \in Controllers /\ c \in Nat /\ drv.length + drv.cur < MaxDisks
  BY <1>1, AhciAssumption DEF IInv, Types, DrvType, Placed, Counted, AtPort, Commands, OfIdentify
<1>3. A!Slot \in A!Slots /\ A!Slot = Found + 1 /\ Found \in Int /\ \A d \in 1 .. Found : d # A!Slot
  BY <1>2, SlotNew
<1>4. /\ Sound(refs) /\ UnseenAbove(refs, c) /\ refs.p[A!Local] = c /\ refs.p[A!Argument] = c
      /\ refs.p[A!Slot] = c
      /\ \A d \in 1 .. Found : refs.p[d] = disks[d].con
  BY <1>2 DEF PointersInv, PointersHeld, Looking, Holding, Passing, UnseenAbove
<1>5. \A d \in A!Slots : disks'[d].con = disks[d].con
  <2>1. CASE drv.ok
    <3>1. disks' = [disks EXCEPT ![A!Slot].lba48 = (A!Port.drive = "lba48"),
                                 ![A!Slot].capacity = A!Capacity(A!Port.drive)]
      BY <2>1 DEF A!Identified
    <3> QED BY <1>3, <3>1 DEF IInv, Types, DisksType, DiskType
  <2>2. CASE ~drv.ok
    BY <2>2 DEF A!Identified
  <2> QED BY <2>1, <2>2
<1>6. found \in {drv.cur, drv.cur + 1}
  OBVIOUS
<1> HIDE DEF c, next, found
<1>7. drv'.at = "ports" /\ drv'.c = c /\ drv'.length = drv.length /\ drv'.cur = found
  BY <1>1 DEF IInv, Types, DrvType, c
<1>8. Found' \in {Found, Found + 1}
  <2>1. drv.length \in Int /\ drv.cur \in Int /\ Found' = drv.length + found
    BY <1>7, AhciAssumption DEF IInv, Types, DrvType, Found
  <2> QED BY <1>6, <2>1 DEF Found
<1>9. Repointed(refs, refs', A!InitArgument, NoController)
  BY <1>1, <1>4, Distinct, DestroyCounts
<1>10. Sound(refs') /\ \A y \in A!Pointers : y # A!InitArgument => refs'.p[y] = refs.p[y]
  BY <1>4, <1>9, Distinct, OthersStay
<1>11. UnseenAbove(refs', c)
  BY <1>2, <1>4, <1>9, StaysUnseen
<1>12. ASSUME NEW d \in 1 .. Found' PROVE refs'.p[d] = disks'[d].con
  <2>1. d \in 1 .. Found \/ d = A!Slot
    BY <1>3, <1>8
  <2>2. d \in A!Slots
    BY <1>3, <2>1, FoundAreSlots
  <2>3. refs.p[d] = disks[d].con
    BY <1>2, <1>4, <2>1 DEF IInv, Told, SlotFilled, c
  <2> QED BY <1>5, <1>10, <2>2, <2>3, Distinct
<1>13. PointersHeld'
  <2>1. ~OfIdentify'
    BY <1>7 DEF OfIdentify, Commands
  <2>2. (Looking => \A b \in Controllers : b > drv.c => Unseen(refs, b))'
    BY <1>7, <1>11 DEF UnseenAbove, Unseen, Controllers, A!Controllers
  <2>3. refs'.p[A!Local] = c /\ refs'.p[A!Argument] = c
    BY <1>4, <1>10, Distinct
  <2>4. (Holding => refs.p[A!Local] = drv.c)' /\ (Passing => refs.p[A!Argument] = drv.c)'
    BY <1>7, <2>3 DEF A!Local, A!Argument
  <2>5. (\A d \in 1 .. Found : refs.p[d] = disks[d].con)'
    BY <1>12
  <2> QED BY <2>1, <2>2, <2>4, <2>5 DEF PointersHeld
<1> QED BY <1>10, <1>13 DEF PointersInv, Sound, Owners

\* The argument and the local go; the controller lives on if a disk was found, or tried.
LEMMA PointersControllerDone == IInv /\ PointersInv /\ A!ControllerDone => PointersInv'
<1> SUFFICES ASSUME IInv, PointersInv, A!ControllerDone PROVE PointersInv'
  OBVIOUS
<1> DEFINE c == drv.c
           r == A!Shared!Destroy(refs, A!Argument)
<1>1. /\ drv.at = "ports" /\ refs' = A!Shared!Destroy(r, A!Local) /\ UNCHANGED disks
      /\ \/ drv' = A!Idle([drv EXCEPT !.length = Found, !.cur = 0, !.at = "devices"])
         \/ drv' = [drv EXCEPT !.length = Found, !.cur = 0, !.at = "devices"]
  BY DEF A!ControllerDone, Found
<1>2. /\ drv'.at \in {"devices", "idle"} /\ drv'.length = Found /\ drv'.cur = 0
      /\ drv'.at = "devices" => drv'.c = c
  <2>1. CASE drv' = [drv EXCEPT !.length = Found, !.cur = 0, !.at = "devices"]
    <3> HIDE DEF Found
    <3> QED BY <2>1 DEF IInv, Types, DrvType
  <2>2. CASE drv' = A!Idle([drv EXCEPT !.length = Found, !.cur = 0, !.at = "devices"])
    <3>1. drv' = [at |-> "idle", c |-> 0, p |-> 0, length |-> Found, cur |-> 0, spin |-> 0,
                  op |-> "none", lba |-> 0, count |-> 0, dba |-> drv.dba, ok |-> FALSE,
                  reads |-> drv.reads]
      BY <2>2 DEF IInv, Types, DrvType, A!Idle
    <3> QED BY <3>1
  <2> QED BY <1>1, <2>1, <2>2
<1>3. c \in Nat /\ Found \in Int /\ \A d \in 1 .. Found : d \in A!Slots
  BY <1>1, FoundAreSlots, AhciAssumption DEF IInv, Types, DrvType, Found
<1>4. Sound(refs) /\ UnseenAbove(refs, c) /\ \A d \in 1 .. Found : refs.p[d] = disks[d].con
  BY <1>1 DEF PointersInv, PointersHeld, Looking, Holding, Enumerating, UnseenAbove
<1> HIDE DEF c
<1>5. Repointed(refs, r, A!Argument, NoController)
  BY <1>4, Distinct, DestroyCounts
<1> HIDE DEF r
<1>6. Sound(r) /\ \A y \in A!Pointers : y # A!Argument => r.p[y] = refs.p[y]
  BY <1>4, <1>5, Distinct, OthersStay
<1>7. UnseenAbove(r, c)
  BY <1>3, <1>4, <1>5, StaysUnseen
<1>8. Repointed(r, refs', A!Local, NoController)
  BY <1>1, <1>6, Distinct, DestroyCounts
<1>9. Sound(refs') /\ \A y \in A!Pointers : y # A!Local => refs'.p[y] = r.p[y]
  BY <1>6, <1>8, Distinct, OthersStay
<1>10. UnseenAbove(refs', c)
  BY <1>3, <1>7, <1>8, StaysUnseen
<1>11. Found' = Found
  BY <1>2, <1>3 DEF Found
<1>12. \A d \in 1 .. Found : refs'.p[d] = disks'[d].con
  BY <1>1, <1>3, <1>4, <1>6, <1>9, Distinct
<1>13. PointersHeld'
  <2>1. ~OfIdentify' /\ ~Holding' /\ ~Passing' /\ (Looking' => drv'.c = c)
    BY <1>2 DEF OfIdentify, Commands, Holding, Enumerating, Passing, Looking
  <2>2. (Looking => \A b \in Controllers : b > drv.c => Unseen(refs, b))'
    BY <1>10, <2>1 DEF UnseenAbove, Unseen, Controllers, A!Controllers
  <2>3. (\A d \in 1 .. Found : refs.p[d] = disks[d].con)'
    BY <1>11, <1>12
  <2> QED BY <2>1, <2>2, <2>3 DEF PointersHeld
<1> QED BY <1>9, <1>13 DEF PointersInv, Sound, Owners

\* The call that begins looks for controllers none of which was seen.
LEMMA PointersEnumerateDisks == IInv /\ PointersInv /\ A!EnumerateDisks => PointersInv'
<1> SUFFICES ASSUME IInv, PointersInv, A!EnumerateDisks PROVE PointersInv'
  OBVIOUS
<1>1. drv.at = "start" /\ drv' = [drv EXCEPT !.at = "devices"] /\ UNCHANGED <<refs, disks>>
  BY DEF A!EnumerateDisks, A!Goto
<1>2. drv'.at = "devices" /\ drv'.c = drv.c /\ drv'.length = drv.length /\ drv'.cur = drv.cur
  BY <1>1 DEF IInv, Types, DrvType
<1> QED BY <1>1, <1>2, PointersStay DEF DisksSame, Looking, Holding, Passing, OfIdentify, Enumerating,
    Commands

\* The calls that end: none of their pointers is left.
LEMMA PointersReturned ==
  IInv /\ PointersInv /\ (A!NoMoreControllers \/ A!ReadReturned) => PointersInv'
<1> SUFFICES ASSUME IInv, PointersInv, A!NoMoreControllers \/ A!ReadReturned PROVE PointersInv'
  OBVIOUS
<1>1. /\ drv.at = "devices" \/ (drv.at = "returned" /\ drv.op = "read")
      /\ drv' = A!Idle(drv) /\ UNCHANGED <<refs, disks>>
  BY DEF A!NoMoreControllers, A!ReadReturned
<1>2. drv.cur = 0
  BY <1>1 DEF IInv, Counted, OfIdentify, Commands
<1>3. drv' = [at |-> "idle", c |-> 0, p |-> 0, length |-> drv.length, cur |-> 0, spin |-> 0,
              op |-> "none", lba |-> 0, count |-> 0, dba |-> drv.dba, ok |-> FALSE,
              reads |-> drv.reads]
  BY <1>1 DEF IInv, Types, DrvType, A!Idle
<1>4. drv'.at = "idle" /\ drv'.length = drv.length /\ drv'.cur = drv.cur
  BY <1>2, <1>3
<1> QED BY <1>1, <1>4, PointersStay DEF DisksSame, Looking, Holding, Passing, OfIdentify, Enumerating,
    Commands

\* The steps at a port.
LEMMA PointersPorts ==
  IInv /\ PointersInv /\ (A!StopEngines \/ A!ListStopped \/ A!FisStopped \/ A!StartEngines)
    => PointersInv'
<1> SUFFICES ASSUME IInv, PointersInv, A!StopEngines \/ A!ListStopped \/ A!FisStopped \/ A!StartEngines
             PROVE  PointersInv'
  OBVIOUS
<1>1. /\ UNCHANGED <<refs, disks>> /\ drv'.c = drv.c /\ drv'.length = drv.length /\ drv'.cur = drv.cur
      /\ \/ drv.at \in {"memory", "stopList", "stopFis"} /\ drv'.at \in {"memory", "stopList", "stopFis"}
         \/ drv.at = "start engines" /\ drv'.at \in {"identify", "halted"}
  <2>1. CASE A!StopEngines
    BY <2>1 DEF A!StopEngines, A!Goto, IInv, Types, DrvType
  <2>2. CASE A!ListStopped
    BY <2>2 DEF A!ListStopped, A!Goto, IInv, Types, DrvType
  <2>3. CASE A!FisStopped
    BY <2>3 DEF A!FisStopped, A!Goto, IInv, Types, DrvType
  <2>4. CASE A!StartEngines
    BY <2>4 DEF A!StartEngines, A!Halt, A!Goto, IInv, Types, DrvType
  <2> QED BY <2>1, <2>2, <2>3, <2>4
<1> QED BY <1>1, PointersStay DEF DisksSame, Looking, Holding, Passing, OfIdentify, Enumerating,
    Commands

\* The commands: those of Identify while disks are found, those of Read while none are.
LEMMA PointersPrepare ==
  ASSUME IInv, PointersInv, NEW op, NEW c, NEW p, NEW blocks, NEW fis, NEW reads,
         A!Prepare(op, c, p, blocks, fis, [drv EXCEPT !.reads = reads]),
         op # "identify" \/ (c = drv.c /\ drv.at = "identify")
  PROVE  PointersInv'
<1>1. /\ UNCHANGED <<refs, disks>> /\ drv'.at = "spin" /\ drv'.op = op /\ drv'.c = c
      /\ drv'.length = drv.length /\ drv'.cur = drv.cur
  BY DEF A!Prepare, IInv, Types, DrvType
<1> QED BY <1>1, PointersStay DEF DisksSame, Looking, Holding, Passing, OfIdentify, Enumerating,
    Commands

\* Identify works on the controller whose ports are tried.
LEMMA PointersIdentify == IInv /\ PointersInv /\ A!Identify => PointersInv'
<1> SUFFICES ASSUME IInv, PointersInv, A!Identify PROVE PointersInv'
  OBVIOUS
<1>1. drv = [drv EXCEPT !.reads = drv.reads]
  BY DEF IInv, Types, DrvType
<1>2. drv.at = "identify"
      /\ A!Prepare("identify", drv.c, drv.p, 1, A!Fis("identify", 0, 0), [drv EXCEPT !.reads = drv.reads])
  BY <1>1 DEF A!Identify
<1> QED BY <1>2, PointersPrepare

\* Read needs no pointer but that of its disk.
LEMMA PointersRead ==
  IInv /\ PointersInv /\ (\E d \in A!Slots, request \in Requests : A!Read(d, request)) => PointersInv'
<1> SUFFICES ASSUME IInv, PointersInv, NEW d \in A!Slots, NEW request \in Requests, A!Read(d, request)
             PROVE  PointersInv'
  OBVIOUS
<1>1. A!Prepare("read", disks[d].con, disks[d].port, request.count,
             A!Fis(IF disks[d].lba48 THEN "ext" ELSE "dma", request.lba, request.count),
             [drv EXCEPT !.reads = drv.reads + 1])
  BY DEF A!Read
<1> QED BY <1>1, PointersPrepare

\* The rest of a command.
LEMMA PointersCommand ==
  IInv /\ PointersInv /\ (A!WaitUntilReady \/ A!Issue \/ A!PollErrors \/ A!PollCompletion)
    => PointersInv'
<1> SUFFICES ASSUME IInv, PointersInv, A!WaitUntilReady \/ A!Issue \/ A!PollErrors \/ A!PollCompletion
             PROVE  PointersInv'
  OBVIOUS
<1>1. /\ UNCHANGED <<refs, disks>> /\ drv'.c = drv.c /\ drv'.length = drv.length /\ drv'.cur = drv.cur
      /\ drv'.op = drv.op /\ drv.at \in Commands /\ drv'.at \in Commands
  <2>1. CASE A!WaitUntilReady
    BY <2>1 DEF A!WaitUntilReady, A!Goto, A!Return, IInv, Types, DrvType, Commands
  <2>2. CASE A!Issue
    BY <2>2 DEF A!Issue, A!Goto, IInv, Types, DrvType, Commands
  <2>3. CASE A!PollErrors
    BY <2>3 DEF A!PollErrors, A!Goto, A!Return, IInv, Types, DrvType, Commands
  <2>4. CASE A!PollCompletion
    BY <2>4 DEF A!PollCompletion, A!Goto, A!Return, IInv, Types, DrvType, Commands
  <2> QED BY <2>1, <2>2, <2>3, <2>4
<1> QED BY <1>1, PointersStay DEF DisksSame, Looking, Holding, Passing, OfIdentify, Enumerating,
    Commands

\* Steps that leave the driver and its pointers: those of the devices, and of the IDE driver.
LEMMA PointersUntouched ==
  ASSUME IInv, PointersInv, UNCHANGED <<drv, refs, disks>>
  PROVE  PointersInv'
BY PointersStay DEF DisksSame, Looking, Holding, Passing, OfIdentify

\* Every step keeps the pointers.
LEMMA StepPointers == IInv /\ PointersInv /\ [Next]_vars => PointersInv'
<1> SUFFICES ASSUME IInv, PointersInv, [Next]_vars PROVE PointersInv'
  OBVIOUS
<1>1. CASE UNCHANGED ahciVars
  BY <1>1, PointersUntouched DEF ahciVars
<1>2. CASE A!Driver
  BY <1>2, PointersController, PointersReturned, PointersPorts, PointersMemoryReady, PointersTryPort,
     PointersIdentify, PointersIdentified, PointersControllerDone, PointersCommand DEF A!Driver
<1>3. CASE A!Call \/ A!EnumerateDisks
  BY <1>3, PointersEnumerateDisks, PointersRead DEF A!Call
<1>4. ASSUME NEW c \in Controllers, NEW p \in Ports, A!Device(c, p) PROVE PointersInv'
  <2>1. UNCHANGED <<drv, refs, disks>>
    BY <1>4 DEF A!Device, A!ListFollows, A!FisFollows, A!BecomesReady, A!Accept, A!Transfer,
       A!Complete, A!Fail
  <2> QED BY <2>1, PointersUntouched
<1>5. CASE Call
  BY <1>1, <1>3, <1>5 DEF Call
<1> QED BY <1>1, <1>2, <1>4, <1>5 DEF Next, vars, AhciRuns, IdeRuns, IdeDevice, AhciDevice,
    Controllers, Ports

\* At boot there are none.
LEMMA InitPointers == Init => PointersInv
<1> SUFFICES ASSUME Init PROVE PointersInv
  OBVIOUS
<1>1. PICK m \in Machines : A!Init(m.ahci)
  BY DEF Init
<1>2. refs = A!Shared!Nobody /\ drv.at = "start" /\ drv.c = 0 /\ drv.length = 0 /\ drv.cur = 0
  BY <1>1 DEF A!Init
<1>3. /\ refs.p = [x \in A!Pointers |-> NoController] /\ refs.cnt = [o \in Controllers |-> 0]
      /\ refs.freed = {} /\ refs \in RefsType
  BY <1>2 DEF A!Shared!Nobody, RefsType, Controllers
<1>4. Sound(refs)
  <2>1. SUFFICES ASSUME NEW o \in Controllers PROVE Owners(refs, o) = {}
    BY <1>3, <2>1, FS_EmptySet DEF Sound
  <2> QED BY <1>3, AhciAssumption DEF Owners, Controllers, A!Controllers
<1>5. PointersHeld
  BY <1>2, <1>3 DEF PointersHeld, Unseen, Holding, Passing, OfIdentify, Enumerating, Commands, Found
<1> QED BY <1>4, <1>5 DEF PointersInv

\* The pointers are counted right in every state.
THEOREM PointersSound == Spec => []PointersInv
<1>1. Init => IInv /\ PointersInv
  BY InitAhci, InitPointers
<1>2. IInv /\ PointersInv /\ [Next]_vars => PointersInv'
  BY StepPointers
<1> QED BY <1>1, <1>2, AhciInvariant, PTL DEF Spec

\* A controller is counted once for each pointer to it, and lives as long as a disk
\* that was found can use it.
THEOREM ControllersLive == Spec => []ControllersCounted
<1>1. IInv /\ PointersInv => ControllersCounted
  <2> SUFFICES ASSUME IInv, PointersInv PROVE ControllersCounted
    OBVIOUS
  <2>1. Sound(refs) /\ \A d \in 1 .. Found : refs.p[d] = disks[d].con
    BY DEF PointersInv, PointersHeld
  <2>2. A!Shared!Counted(refs)
    BY <2>1, CountedIsSound DEF Sound
  <2>3. ASSUME NEW d \in 1 .. drv.length
        PROVE  refs.p[d] = disks[d].con /\ disks[d].con \notin refs.freed
    <3>1. d \in 1 .. Found
      BY AhciAssumption DEF IInv, Types, DrvType, Found
    <3>2. disks[d].con \in Controllers
      BY <3>1 DEF IInv, Told, DisksReady, Ready, Found
    <3>3. d \in A!Pointers
      BY <3>1, FoundAreSlots, Distinct
    <3> QED BY <2>1, <3>1, <3>2, <3>3, OwnedIsCounted
  <2> QED BY <2>2, <2>3 DEF ControllersCounted, A!ControllersCounted
<1> QED BY <1>1, AhciInvariant, PointersSound, PTL
=============================================================================
