-------------------------- MODULE MCPrimitiveHeap --------------------------
EXTENDS PrimitiveHeap, TLC

\* Which chunk the Allocator answers with makes no difference.
Symmetry == Permutations(Chunks)
=============================================================================
