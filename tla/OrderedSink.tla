---------------------------- MODULE OrderedSink ----------------------------
(***************************************************************************)
(* What the parser process promises to whoever feeds it packets: packets   *)
(* are processed one at a time, each exactly once, in the order in which   *)
(* they were fed, and the output is closed only when all of them have been *)
(* processed.  ParserPipeline is shown to implement this specification.    *)
(***************************************************************************)
EXTENDS Integers, Sequences

CONSTANT Packet         \* the packets that may be fed

VARIABLES fed,          \* packets handed to feed(), oldest first
          parsed,       \* packets that parsePacket() was called with
          closed        \* the output file is closed

sinkVars == <<fed, parsed, closed>>

SinkInit == fed = <<>> /\ parsed = <<>> /\ closed = FALSE

Accept ==
    /\ ~closed
    /\ \E p \in Packet : fed' = Append(fed, p)
    /\ UNCHANGED <<parsed, closed>>

Process ==
    /\ ~closed
    /\ Len(parsed) < Len(fed)
    /\ parsed' = Append(parsed, fed[Len(parsed) + 1])
    /\ UNCHANGED <<fed, closed>>

Close ==
    /\ ~closed
    /\ parsed = fed
    /\ closed' = TRUE
    /\ UNCHANGED <<fed, parsed>>

SinkNext == Accept \/ Process \/ Close

SinkSpec == SinkInit /\ [][SinkNext]_sinkVars
=============================================================================
