---------------------------- MODULE MCAppMemory ----------------------------
(* Small instance of AppMemory for TLC.  As in the parser, the first schedule
   is eager and the second one waits longer. *)
EXTENDS AppMemory

MCMemory   == [timeThreshold |-> 1, peakTimeThreshold |-> 2, downTimeThreshold |-> 3,
               maxTimeThreshold |-> 3, up |-> 1, down |-> 1]
MCSnapshot == [timeThreshold |-> 3, peakTimeThreshold |-> 1, downTimeThreshold |-> 2,
               maxTimeThreshold |-> 4, up |-> 20, down |-> 5]
=============================================================================
