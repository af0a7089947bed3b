---------------------------- MODULE MCLifecycle -----------------------------
(* Instances of Lifecycle for TLC. *)
EXTENDS Lifecycle

CONSTANTS t1, t2, c1

MCThread == {t1, t2}
MCChild  == {c1}
=============================================================================
