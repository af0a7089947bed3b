---------------------------- MODULE MCPageFaults ----------------------------
(* Small instances of PageFaults for TLC.  Two pages give ranges that contain
   each other and ranges that do not meet; threads are only compared. *)
EXTENDS PageFaults, TLC

CONSTANTS t1, t2, p1, p2

MCThread == {t1, t2}
MCPage   == {p1, p2}
MCRanges == {{p1}, {p2}, {p1, p2}}

\* For the liveness run: calls on all of memory or on a part of it.
MCNested == {{p1}, {p1, p2}}

Symmetry == Permutations(MCThread) \cup Permutations(MCPage)
=============================================================================
