----------------------- MODULE MCLinearSpaceManager -----------------------
EXTENDS LinearSpaceManager

\* Pages of two bytes; seven usable pages, the first not aligned to four bytes.
MCUsable == 2 .. 15
MCLengths == {2, 4, 6}
MCAligns == {2, 4}
=============================================================================
