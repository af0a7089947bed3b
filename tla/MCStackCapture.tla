--------------------------- MODULE MCStackCapture ---------------------------
(* Instances of StackCapture for TLC. *)
EXTENDS StackCapture

CONSTANTS t1, t2, s1, s2, none

Threads == {t1, t2}
Slots   == {s1, s2}
=============================================================================
