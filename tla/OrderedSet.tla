----------------------------- MODULE OrderedSet -----------------------------
(***************************************************************************)
(* What AvlTree promises the space managers and the heap: a set of keys    *)
(* that add() extends, that del() reduces, answering whether the key was   *)
(* in it.                                                                  *)
(***************************************************************************)
CONSTANT Keys
VARIABLES content, answer

vars == <<content, answer>>

Init ==
  /\ content = {}
  /\ answer = FALSE

Add(k) ==
  /\ k \notin content
  /\ content' = content \cup {k}
  /\ UNCHANGED answer

Del(k) ==
  /\ content' = content \ {k}
  /\ answer' = (k \in content)

Next == \E k \in Keys : Add(k) \/ Del(k)

Spec == Init /\ [][Next]_vars
=============================================================================
