------------------------------ MODULE MCPager ------------------------------
EXTENDS Pager

Call(start, length, phy) ==
  [start |-> start, length |-> length, phy |-> phy, prefs |-> IF phy % 2 = 0 THEN {} ELSE {"pcd"}]

\* Page 0; the reserve (pages 3 to 5) whole, its beginning and its end; ranges
\* within a table, and from the middle of one to the end of a directory and into the
\* next, with whole tables between; and a part of the latter.
MCCalls ==
  {Call(0, 1, 50), Call(3, 3, 60), Call(3, 1, 40), Call(5, 1, 71),
   Call(7, 2, 90), Call(7, 10, 100), Call(10, 3, 121)}
MCAccessed == {5, 8}
=============================================================================
