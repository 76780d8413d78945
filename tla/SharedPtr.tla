----------------------------- MODULE SharedPtr -----------------------------
(***************************************************************************)
(* shared_ptr: pointers that share an object and count one another.  An    *)
(* operation takes the state of all pointers and answers with the next.    *)
(***************************************************************************)
EXTENDS Naturals, FiniteSets

CONSTANTS
  Pointers, \* the shared_ptr objects there may be at once
  Objects,  \* what they may point to
  Null      \* nullptr, none of Objects

\* Where each points (p), what *cnt of each object is, and the objects given to D.
Nobody ==
  [p |-> [x \in Pointers |-> Null], cnt |-> [o \in Objects |-> 0], freed |-> {}]

\* reset(): a pointer that was not the last one goes on pointing at the object.
Reset(r, x) ==
  LET o == r.p[x] IN
  IF o = Null THEN r
  ELSE IF r.cnt[o] = 1
  THEN [r EXCEPT !.p[x] = Null, !.cnt[o] = 0, !.freed = @ \cup {o}]
  ELSE [r EXCEPT !.cnt[o] = @ - 1]

\* reset(_p), and with it the constructor from an object (o is new).
ResetTo(r, x, o) ==
  IF r.p[x] = o THEN r ELSE [Reset(r, x) EXCEPT !.p[x] = o, !.cnt[o] = 1]

\* Mutant: the object is not counted once more.
AssignUncounted(r, x, y) == [Reset(r, x) EXCEPT !.p[x] = r.p[y]]

\* operator=, the source left as it is.
Assign(r, x, y) ==
  LET s == Reset(r, x)
      o == s.p[y]
  IN IF x = y THEN r
     ELSE IF o = Null THEN [s EXCEPT !.p[x] = Null]
     ELSE [s EXCEPT !.p[x] = o, !.cnt[o] = @ + 1]

\* Copy construction: the pointer begins its life as a null pointer.
Copy(r, x, y) == Assign(r, x, y)

\* The destructor; the storage of x may become another pointer later.
Destroy(r, x) == [Reset(r, x) EXCEPT !.p[x] = Null]

\* What the counts are for: each is the number of pointers to its object, and an
\* object was freed if it has been pointed to and no pointer is left.
Counted(r) ==
  \A o \in Objects :
    /\ r.cnt[o] = Cardinality({x \in Pointers : r.p[x] = o})
    /\ o \in r.freed => r.cnt[o] = 0
=============================================================================
