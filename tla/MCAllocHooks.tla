---------------------------- MODULE MCAllocHooks ----------------------------
(* Small instance of AllocHooks for TLC.  Threads and blocks are only
   compared, so permuting them is a symmetry. *)
EXTENDS AllocHooks, TLC

CONSTANTS t1, t2, b1, b2, l1

MCThread == {t1, t2}
MCBlock  == {b1, b2}
MCLibrary == {l1}

\* Allocations, threads in dlopen and loaded libraries, not all of them at once.
MCBound == calls + Cardinality({t \in Thread : WasInMallocFree(t)}) + Cardinality(loaded) <= 3

Symmetry == Permutations(MCThread) \cup Permutations(MCBlock)
=============================================================================
