----------------------------- MODULE MCStorage -----------------------------
EXTENDS Storage, TLC

Port(pi, drive, on, busy) == [pi |-> pi, drive |-> drive, on |-> on, busy |-> busy]
NoPort == Port(FALSE, "none", FALSE, FALSE)
Absent == 0 :> NoPort @@ 1 :> NoPort

\* Two controllers of two ports: both implemented, or one that may be left running
\* or busy, or not at all.
Ahcis ==
  {(1 :> (0 :> Port(TRUE, "lba48", left, busy) @@ 1 :> Port(TRUE, other, FALSE, FALSE))) @@
   (2 :> (0 :> NoPort @@ 1 :> second)) :
     left, busy \in BOOLEAN, other \in {"none", "lba28"},
     second \in {NoPort, Port(TRUE, "lba28", TRUE, FALSE)}}

At(a, b, c, d) == <<0, 0>> :> a @@ <<0, 1>> :> b @@ <<1, 0>> :> c @@ <<1, 1>> :> d
Ides == {At("none", "lba28", "packet", "lba48"), At("lba48", "chs", "none", "lba28")}

\* A machine with disks on AHCI, one with disks on IDE, and one with a disk on each.
MCMachines ==
  [ahci : Ahcis, ide : {<<>>}] \cup
  [ahci : {1 :> Absent @@ 2 :> Absent}, ide : Ides] \cup
  [ahci : {1 :> (0 :> Port(TRUE, "lba48", FALSE, FALSE) @@ 1 :> NoPort) @@ 2 :> Absent},
   ide : {At("none", "none", "none", "lba28")}]

\* A drive with the 48-bit feature, and two blocks of it from 2 * 4^3 on: the fourth
\* byte of the address is one that is not let through.
MCMachineLba48 ==
  [ahci : {1 :> Absent @@ 2 :> Absent}, ide : {At("none", "none", "none", "lba48")}]
MCRequestsFar == {[lba |-> 128, count |-> 2]}

MCRequests == {[lba |-> 1, count |-> 2], [lba |-> 0, count |-> 3]}
=============================================================================
