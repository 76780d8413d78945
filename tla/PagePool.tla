----------------------------- MODULE PagePool -----------------------------
(***************************************************************************)
(* What an address space manager promises its callers, with no trees, no   *)
(* ranges and no merging: a set of free addresses, calls that take or give *)
(* back a run of them, and a call that fails only when it has to.          *)
(***************************************************************************)
EXTENDS RangePair

CONSTANTS
  PAGE,     \* bytes in a page
  Usable,   \* the addresses the manager was given
  Lengths,  \* the lengths callers ask for
  Slacks    \* the bytes beyond its length a run must have to be considered

VARIABLES free, halted, last

vars == <<free, halted, last>>

Init ==
  /\ free = {}
  /\ halted = FALSE
  /\ last = [op |-> "none", start |-> 0, length |-> 0, slack |-> 0]

Alloc(start, length, slack) ==
  /\ ~halted
  /\ Bytes(start, length) \subseteq free
  /\ free' = free \ Bytes(start, length)
  /\ last' = [op |-> "alloc", start |-> start, length |-> length, slack |-> slack]
  /\ UNCHANGED halted

\* A call fails only when no run of free addresses is long enough.
AllocFails(length, slack) ==
  /\ ~halted
  /\ \A start \in free : ~(Bytes(start, length + slack) \subseteq free)
  /\ last' = [op |-> "alloc", start |-> 0, length |-> length, slack |-> slack]
  /\ UNCHANGED <<free, halted>>

Free(start, length) ==
  /\ ~halted
  /\ Bytes(start, length) \cap free = {}
  /\ free' = free \cup Bytes(start, length)
  /\ last' = [op |-> "free", start |-> start, length |-> length, slack |-> 0]
  /\ UNCHANGED halted

\* The machine stops only at a call that frees free or misaligned addresses.
Misuse(start, length) ==
  /\ ~halted
  /\ \/ Bytes(start, length) \cap free # {}
     \/ start % PAGE # 0
     \/ length % PAGE # 0
  /\ halted' = TRUE
  /\ last' = [op |-> "free", start |-> start, length |-> length, slack |-> 0]
  /\ UNCHANGED free

Next ==
  \E length \in Lengths :
    \/ \E start \in Usable, slack \in Slacks : Alloc(start, length, slack)
    \/ \E slack \in Slacks : AllocFails(length, slack)
    \/ \E start \in Usable : Free(start, length) \/ Misuse(start, length)

Spec == Init /\ [][Next]_vars
=============================================================================
