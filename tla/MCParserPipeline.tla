-------------------------- MODULE MCParserPipeline --------------------------
(* Small instance of ParserPipeline for TLC: two stacks that share an address,
   and one address that no module holds. *)
EXTENDS ParserPipeline, TLC

CONSTANTS p1, s1, s2, a1, a2, a3

MCBlock   == {p1}
MCStack   == {s1, s2}
MCAddress == {a1, a2, a3}
MCFrames  == (s1 :> <<a1, a2>>) @@ (s2 :> <<a2, a3>>)
MCMapped  == {a1, a2}
=============================================================================
