-------------------------- MODULE MCMemoryManager --------------------------
EXTENDS MemoryManager

\* Slots under directories 0 (made by the 16-bit stage: 1), 1 (2, 3) and 2 (4, 5).
MCSlots == 1 .. 6
MCFrames == 1 .. 5

\* Physical memory runs out first, or linear memory does.
MCLinearSpaces == {MCSlots, 1 .. 4}
=============================================================================
