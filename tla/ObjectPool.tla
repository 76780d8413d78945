----------------------------- MODULE ObjectPool -----------------------------
(***************************************************************************)
(* What new and delete promise their callers: an object gets bytes that no *)
(* other live object has, at an address that is a multiple of a word, and  *)
(* keeps them until it is deleted; an object of no size has an address of  *)
(* its own.                                                                *)
(***************************************************************************)
EXTENDS Integers

CONSTANT WORD \* bytes in a word

VARIABLE live \* the live objects: [ptr, size]

\* The first byte after an object.
End(o) == o.ptr + (IF o.size = 0 THEN 1 ELSE o.size)
Apart(o, other) == End(o) <= other.ptr \/ End(other) <= o.ptr

Init == live = {}

New(o) ==
  /\ o.ptr % WORD = 0
  /\ \A other \in live : Apart(o, other)
  /\ live' = live \cup {o}

Delete(o) == live' = live \ {o}

Next ==
  \/ \E o \in live' \ live : New(o)
  \/ \E o \in live : Delete(o)

Spec == Init /\ [][Next]_live
=============================================================================
