------------------------------- MODULE Pager -------------------------------
(***************************************************************************)
(* memory/Pager: the tree of page tables, for ranges of any length, pages  *)
(* of two sizes, and the translations that the processor remembers.        *)
(* Addresses are counted in pages.  What an unlock() of the reserve may do *)
(* in the middle of a call is module MemoryManager's subject.              *)
(***************************************************************************)
EXTENDS Integers, FiniteSets, SequencesExt

CONSTANTS
  FANOUT,    \* entries of a table (512)
  TOP,       \* height of pml4 (3)
  WORD,      \* pages in 64 bits of address (2^52)
  INT,       \* values of an int (2^32)
  LOW,       \* pages of the first megabyte
  RESERVE,   \* physical address of the initial reserve
  Units,     \* units of the reserve there are for tables
  None,      \* no table
  Calls,     \* the [start, length, phy, prefs] of pagein, and of pageout
  Accessed,  \* the pages that programs access
  TlbBound   \* bound: translations remembered at a time

VARIABLES
  mem,     \* the tables
  reserve, \* the units of the reserve that are not in use
  tlb,     \* the translations the processor remembers
  halted   \* did a kassert fail?

vars == <<mem, reserve, tlb, halted>>

\* The tables of adjust_page_table.asm, by height, are not units of the reserve.
Static == 0 .. TOP
pml4 == TOP
Tables == Static \cup Units
Indices == 0 .. FANOUT - 1

Absent == [table |-> None, phy |-> -1, prefs |-> {}]
Link(t) == [table |-> t, phy |-> 0, prefs |-> {}]
Page(phy, prefs) == [table |-> None, phy |-> phy, prefs |-> prefs]
Zeros == [i \in Indices |-> Absent]

\* The pages under an entry of a table of this height, and is it a page itself?
Span(height) == FANOUT ^ height
MapsPage(height, entry) == height = 0 \/ "ps" \in entry.prefs

\* The first megabyte in small pages, then the initial reserve in a large one.
Init ==
  /\ mem = [t \in Tables |->
              IF t \in Units THEN Zeros
              ELSE IF t = 0 THEN [i \in Indices |-> IF i < LOW THEN Page(i, {}) ELSE Absent]
              ELSE [Zeros EXCEPT ![0] = Link(t - 1),
                                 ![1] = IF t = 1 THEN Page(RESERVE, {"ps"}) ELSE Absent]]
  /\ reserve = Units
  /\ tlb = {}
  /\ halted = FALSE

\* A call works on the state of all variables.
State == [mem |-> mem, reserve |-> reserve, tlb |-> tlb, ok |-> ~halted]
Put(s, t, i, entry) == [s EXCEPT !.mem[t][i] = entry]
Failed(s) == [s EXCEPT !.ok = FALSE]

\* Where a range begins and ends among the entries of a table that begins at base:
\* the differences are words, cut down to int, and negative for what lies before it.
AsInt(x) == ((x + INT \div 2) % INT) - INT \div 2
Distance(p, base) == (p - base) % WORD
IndexStart(call, height, base) == AsInt(Distance(call.start, base) \div Span(height))
IndexEnd(call, height, base) ==
  LET distance == Distance(call.start + call.length, base)
  IN AsInt(((distance + Span(height) - 1) % WORD) \div Span(height))

\* The entries that a call visits, of which it may cover the first and last in part.
Visited(call, height, base) ==
  LET start == IndexStart(call, height, base)
      end == IndexEnd(call, height, base)
      first == IF start < 0 THEN 0 ELSE start
      last == IF end > FANOUT THEN FANOUT ELSE end
  IN [k \in 1 .. last - first |-> first + k - 1]

\* Mutant: the end of the range is taken to be the end of an entry.
CoveredToEnd(call, height, base, i) ==
  i = IndexStart(call, height, base) => Distance(call.start, base) % Span(height) = 0

Covered(call, height, base, i) ==
  /\ i = IndexStart(call, height, base) => Distance(call.start, base) % Span(height) = 0
  /\ i = IndexEnd(call, height, base) - 1 =>
       Distance(call.start + call.length, base) % Span(height) = 0

\* A unit of the reserve becomes entry i of table t.
NewTable(s, t, i, entries) ==
  IF s.reserve = {} THEN Failed(s)
  ELSE LET n == CHOOSE u \in s.reserve : TRUE
       IN [s EXCEPT !.reserve = @ \ {n}, !.mem = [@ EXCEPT ![n] = entries, ![t][i] = Link(n)]]

\* lintophy: the page that p is translated to, with its preferences.
RECURSIVE Translation(_, _, _, _)
Translation(tables, height, t, p) ==
  LET entry == tables[t][(p \div Span(height)) % FANOUT]
  IN IF entry = Absent THEN Absent
     ELSE IF MapsPage(height, entry)
     THEN Page(entry.phy + (p % Span(height)), entry.prefs \ {"ps"})
     ELSE Translation(tables, height - 1, entry.table, p)
Lintophy(tables, p) == Translation(tables, TOP, pml4, p)
-----------------------------------------------------------------------------
RECURSIVE PageinTable(_, _, _, _, _)
PageinTable(s, call, height, t, base) ==
  LET Child(r, i) ==
        LET child == base + i * Span(height)
            linked == IF r.mem[t][i] = Absent THEN NewTable(r, t, i, Zeros) ELSE r
        IN IF ~r.ok THEN r
           ELSE IF height = 0
           THEN IF r.mem[t][i] # Absent THEN Failed(r)
                ELSE Put(r, t, i, Page(call.phy + child - call.start, call.prefs))
           ELSE IF ~linked.ok THEN linked
           ELSE PageinTable(linked, call, height - 1, linked.mem[t][i].table, child)
  IN FoldLeft(Child, s, Visited(call, height, base))

\* The entries that mean the same as a large page of this height.
Pieces(entry, height) ==
  [j \in Indices |-> Page(entry.phy + j * Span(height - 1),
                          IF height = 1 THEN entry.prefs \ {"ps"} ELSE entry.prefs)]

\* Mutant: only the translation of a small page.
InvlpgSmall(s, p) == [s EXCEPT !.tlb = @ \ {x \in @ : x.first = p /\ x.length = 1}]

\* invlpg: no translation of this page is remembered.
Invlpg(s, p) ==
  [s EXCEPT !.tlb = {x \in @ : ~(x.first <= p /\ p < x.first + x.length)}]

\* Mutant: the last entry is not looked at.
EmptyButLast(table) == \A i \in 0 .. FANOUT - 2 : table[i] = Absent

\* Is there no present child?
Empty(table) == table = Zeros

\* A table that is left without a child is given back to the reserve; its caller
\* clears the entry.
RECURSIVE PageoutTable(_, _, _, _, _)
PageoutTable(s, call, height, t, base) ==
  LET Child(r, i) ==
        LET child == base + i * Span(height)
            entry == r.mem[t][i]
            split == NewTable(r, t, i, Pieces(entry, height))
            Below(q) == PageoutTable(q, call, height - 1, q.mem[t][i].table, child)
        IN IF ~r.ok \/ entry = Absent THEN Failed(r)
           ELSE IF MapsPage(height, entry) /\ Covered(call, height, base, i)
           THEN Invlpg(Put(r, t, i, Absent), child)
           ELSE IF MapsPage(height, entry)
           THEN IF height \in {0, TOP} \/ ~split.ok THEN Failed(r)
                ELSE LET below == Below(split)
                     IN IF split.mem[t][i].table \in below.reserve THEN Failed(below) ELSE below
           ELSE LET below == Below(r)
                IN IF entry.table \in below.reserve THEN Put(below, t, i, Absent) ELSE below
      left == FoldLeft(Child, s, Visited(call, height, base))
  IN IF left.ok /\ Empty(left.mem[t]) THEN [left EXCEPT !.reserve = @ \cup {t}] ELSE left

Becomes(s) ==
  /\ mem' = s.mem /\ reserve' = s.reserve /\ tlb' = s.tlb /\ halted' = ~s.ok
-----------------------------------------------------------------------------
PagesOf(call) == call.start .. call.start + call.length - 1
IsMapped(p) == Lintophy(mem, p) # Absent

\* Callers map linear memory that the linear space manager gave them, which has
\* nothing of the first megabyte, and unmap what is mapped.
Pagein(call) ==
  /\ ~halted /\ call.start >= LOW /\ \A p \in PagesOf(call) : ~IsMapped(p)
  /\ LET s == PageinTable(State, call, TOP, pml4, 0)
     IN Becomes(IF s.ok /\ Lintophy(s.mem, call.start).phy # call.phy THEN Failed(s) ELSE s)

Pageout(call) ==
  /\ ~halted /\ \A p \in PagesOf(call) : IsMapped(p)
  /\ LET s == PageoutTable(State, call, TOP, pml4, 0)
     IN Becomes(IF s.ok /\ Lintophy(s.mem, call.start) # Absent THEN Failed(s) ELSE s)

\* The processor walks the tables, and remembers (external).
RECURSIVE Walk(_, _, _)
Walk(height, t, p) ==
  LET entry == mem[t][(p \div Span(height)) % FANOUT]
  IN IF MapsPage(height, entry)
     THEN [first |-> p - (p % Span(height)), length |-> Span(height), phy |-> entry.phy]
     ELSE Walk(height - 1, entry.table, p)

Access(p) ==
  /\ ~halted /\ Cardinality(tlb) < TlbBound /\ IsMapped(p)
  /\ tlb' = tlb \cup {Walk(TOP, pml4, p)}
  /\ UNCHANGED <<mem, reserve, halted>>

Pages == 0 .. FANOUT ^ (TOP + 1) - 1
Next ==
  \/ \E call \in Calls : Pagein(call) \/ Pageout(call)
  \/ \E p \in Accessed : Access(p)
Spec == Init /\ [][Next]_vars
-----------------------------------------------------------------------------
(***************************************************************************)
(* Properties.                                                             *)
(***************************************************************************)
map ==
  LET page == [p \in Pages |-> Lintophy(mem, p)]
  IN [p \in {q \in Pages : page[q] # Absent} |-> [phy |-> page[p].phy, prefs |-> page[p].prefs]]
Abstract == INSTANCE PageMap

\* A call of pagein or pageout maps or unmaps its range and nothing else, in tables
\* of any height, beginning and ending anywhere in them, through large pages that
\* have to be split; and none of the kasserts fails.
ImplementsPageMap ==
  /\ Abstract!Spec
  /\ [][\A call \in Calls : /\ Pagein(call) => Abstract!Pagein(call)
                            /\ Pageout(call) => Abstract!Pageout(call)]_vars

\* Every table but those of the 16-bit stage is a unit of the reserve that exactly
\* one entry links to and that has an entry itself; all other units are free, and
\* map nothing.
TablesAccounted ==
  LET Links(t) == {<<u, i>> \in Tables \X Indices : mem[u][i].table = t}
  IN ~halted =>
       /\ reserve \subseteq Units
       /\ \A t \in Tables : mem[t] = Zeros <=> t \in reserve
       /\ \A t \in Tables \ {pml4} : Cardinality(Links(t)) = (IF t \in reserve THEN 0 ELSE 1)

\* The processor translates no page as it was before: whatever was remembered of a
\* page, or of a large page it was part of, is invalidated before it is mapped anew.
NoStaleTranslation ==
  \A x \in tlb : \A p \in x.first .. x.first + x.length - 1 :
    Lintophy(mem, p).phy = x.phy + p - x.first
=============================================================================
