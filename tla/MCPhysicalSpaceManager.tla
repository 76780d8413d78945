---------------------- MODULE MCPhysicalSpaceManager ----------------------
EXTENDS PhysicalSpaceManager

\* Nine usable pages, in two areas with a hole between them, as below and above
\* an area the memory map reserves.  PAGE is 1: addresses are page numbers.
MCUsable == 1 .. 6 \cup 8 .. 10
MCLengths == 1 .. 4
=============================================================================
