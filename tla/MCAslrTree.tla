----------------------------- MODULE MCAslrTree -----------------------------
EXTENDS AslrTree

\* Nine ranges <length, start> of two to five bytes that do not touch.
MCKeys == {[x |-> 2, y |-> 10], [x |-> 2, y |-> 20], [x |-> 3, y |-> 30], [x |-> 3, y |-> 40],
           [x |-> 3, y |-> 50], [x |-> 4, y |-> 60], [x |-> 4, y |-> 70], [x |-> 4, y |-> 80],
           [x |-> 5, y |-> 90]}
MCSizes == 1 .. 6
=============================================================================
