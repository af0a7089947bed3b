---------------------------- MODULE MCFileOutput ----------------------------
(* An instance of FileOutput for TLC. *)
EXTENDS FileOutput

MCSizes == {1, 3, 5}
=============================================================================
