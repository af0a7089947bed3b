--------------------------- MODULE MCWasmPreload ---------------------------
(* Small instance of WasmPreload for TLC.  Of five urls, three have numbers
   whose addresses lie in the module of another one. *)
EXTENDS WasmPreload, TLC

Symmetric == Permutations(Url)
=============================================================================
