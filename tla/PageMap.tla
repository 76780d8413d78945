------------------------------ MODULE PageMap ------------------------------
(***************************************************************************)
(* What a Pager promises its callers: linear pages are mapped and unmapped *)
(* by the range, all others stay as they are, and no legal call halts.     *)
(***************************************************************************)
EXTENDS Integers, Functions, TLC

CONSTANTS
  Calls  \* the [start, length, phy, prefs] it may be given

VARIABLES
  map,    \* what is mapped: from the pages to [phy, prefs]
  halted

vars == <<map, halted>>

PagesOf(call) == call.start .. call.start + call.length - 1
Mapped == DOMAIN map

\* Callers map what is not mapped, and unmap what is.
Pagein(call) ==
  /\ PagesOf(call) \cap Mapped = {}
  /\ map' = map @@ [p \in PagesOf(call) |->
                      [phy |-> call.phy + p - call.start, prefs |-> call.prefs]]
  /\ UNCHANGED halted

Pageout(call) ==
  /\ PagesOf(call) \subseteq Mapped
  /\ map' = Restrict(map, Mapped \ PagesOf(call))
  /\ UNCHANGED halted

Next == \E call \in Calls : Pagein(call) \/ Pageout(call)
Spec == ~halted /\ [][Next]_vars
=============================================================================
