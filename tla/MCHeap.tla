------------------------------- MODULE MCHeap -------------------------------
EXTENDS Heap

MCLinear == 60 .. 179
=============================================================================
