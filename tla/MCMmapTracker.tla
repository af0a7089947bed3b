--------------------------- MODULE MCMmapTracker ---------------------------
(* Two kinds of mapping; mprotect and mremap make further combinations of
   them. *)
EXTENDS MmapTracker

MCMappings == {[prot |-> 1, flags |-> 1, stack |-> 0],
               [prot |-> 2, flags |-> 2, stack |-> 0]}
=============================================================================
