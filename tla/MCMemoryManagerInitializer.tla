--------------------- MODULE MCMemoryManagerInitializer ---------------------
EXTENDS MemoryManagerInitializer

\* A page is 2, a megabyte 4, two megabytes 8, and a word holds 32 values: 2 GB
\* is 16, 4 GB is 32.

\* Ends in the middle of pages, a range with and without the room to align, one
\* above 4 GB, a reserved one, and two that begin in the middle of a page, of which one
\* is lost and one is refused; no room of 2 GB, nothing free from 2 to 4 GB.
MCMap == {[base |-> 0, size |-> 3, free |-> TRUE], [base |-> 4, size |-> 3, free |-> TRUE],
          [base |-> 8, size |-> 9, free |-> TRUE], [base |-> 18, size |-> 10, free |-> FALSE],
          [base |-> 32, size |-> 8, free |-> TRUE], [base |-> 46, size |-> 15, free |-> TRUE],
          [base |-> 62, size |-> 0, free |-> TRUE], [base |-> 41, size |-> 4, free |-> TRUE],
          [base |-> 63, size |-> 66, free |-> TRUE]}

\* One free range, that begins in the middle of a page.
MCMisaligned == {[base |-> 15, size |-> 16, free |-> TRUE]}

\* A range from 2 GB to 3 GB.
MCHigh == {[base |-> 0, size |-> 2, free |-> TRUE], [base |-> 16, size |-> 8, free |-> TRUE]}
=============================================================================
