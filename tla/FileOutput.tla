----------------------------- MODULE FileOutput -----------------------------
(***************************************************************************)
(* FileEmitter: bytes are collected in a buffer; a full buffer goes to the *)
(* file, through deflate unless the output is uncompressed, and through    *)
(* base64 when it is part of an HTML page.  Base64 takes three bytes at a  *)
(* time, so that up to two are carried over.                               *)
(*                                                                         *)
(* Bytes are numbered.  What deflate makes of its input is not modelled:   *)
(* its output is a stream of numbered bytes of its own, of which a call    *)
(* may yield any number.                                                   *)
(***************************************************************************)
EXTENDS Integers, Sequences, SequencesExt

CONSTANTS
    BufferSize,     \* of mBuffer and of the buffer that deflate fills
    Sizes,          \* sizes of the pieces that are written
    MaxBytes,       \* bound of the model: bytes emitted
    MaxOutput       \* bound of the model: bytes that deflate yields in one flush

\* With a buffer of four bytes a full one may leave no group of three to write,
\* which flush takes for the end of the output.
ASSUME OutputAssumption ==
    /\ BufferSize \in Nat /\ BufferSize >= 5
    /\ Sizes \subseteq 1 .. BufferSize
    /\ MaxBytes \in Nat /\ MaxOutput \in Nat \ {0}

VARIABLES
    mode,           \* writeMode
    pc,             \* between calls, in the loop of flush(false) or flush(true), or closed
    emitted,        \* number of bytes given to writeBytes
    mBuffer,        \* the first mBufferOffset bytes
    next,           \* the piece that did not fit
    taken,          \* bytes that have left the buffer
    remaining,      \* bytes that deflate has still to yield in this flush
    produced,       \* number of bytes that deflate has yielded
    mBBuffer,       \* the first mNumBBuffer bytes
    file            \* what fwrite got: groups of base64, or bytes

vars == <<mode, pc, emitted, mBuffer, next, taken, remaining, produced, mBBuffer, file>>

Numbers(first, last) == [i \in 1 .. last - first + 1 |-> first + i - 1]

Bytes(s) == [i \in DOMAIN s |-> <<s[i]>>]

Init ==
    /\ mode \in {"none", "gzip", "base64"} /\ pc = "ready"
    /\ emitted = 0 /\ mBuffer = <<>> /\ next = <<>> /\ taken = <<>>
    /\ remaining = 0 /\ produced = 0 /\ mBBuffer = <<>> /\ file = <<>>

-----------------------------------------------------------------------------
(* writeBytes *)

Fits(n) == Len(mBuffer) + n <= BufferSize

Appended(piece)    == mBuffer \o piece
AfterFlush(piece)  == piece

\* flush hands the buffer to deflate.
StartFlush(place) ==
    /\ taken' = taken \o mBuffer
    /\ remaining' \in 0 .. MaxOutput
    /\ pc' = place
    /\ UNCHANGED file

writeBytes(n) ==
    /\ pc = "ready" /\ emitted + n <= MaxBytes
    /\ emitted' = emitted + n
    /\ LET piece == Numbers(emitted + 1, emitted + n) IN
        \/ /\ Fits(n)
           /\ mBuffer' = Appended(piece)
           /\ UNCHANGED <<pc, next, taken, remaining, file>>
        \/ /\ ~Fits(n) /\ mode = "none"
           /\ taken' = taken \o mBuffer
           /\ file' = file \o Bytes(mBuffer)
           /\ mBuffer' = AfterFlush(piece)
           /\ UNCHANGED <<pc, next, remaining>>
        \/ /\ ~Fits(n) /\ mode # "none"
           /\ StartFlush("flush")
           /\ next' = piece
           /\ UNCHANGED mBuffer
    /\ UNCHANGED <<mode, produced, mBBuffer>>

-----------------------------------------------------------------------------
(* flush with deflate: the loop *)

Have == IF remaining < BufferSize THEN remaining ELSE BufferSize

Chunk == Numbers(produced + 1, produced + Have)

\* Groups of three, and what is left.
Whole(s)  == Len(s) - (Len(s) % 3)
Groups(s) == [i \in 1 .. Whole(s) \div 3 |-> SubSeq(s, 3 * i - 2, 3 * i)]

RestFromStart(s) == SubSeq(s, 1, Len(s) % 3)
Rest(s)          == SubSeq(s, Whole(s) + 1, Len(s))

\* What is encoded after the carried bytes have been completed; when it is
\* nothing, the loop ends.
Encoded(s) == IF mBBuffer = <<>> THEN Whole(s) ELSE Whole(s) - 3

Leave ==
    /\ pc' = IF pc = "flush" THEN "ready" ELSE "finished"
    /\ IF pc = "flush"
         THEN mBuffer' = AfterFlush(next) /\ next' = <<>>
         ELSE UNCHANGED <<mBuffer, next>>

Stay == UNCHANGED <<pc, mBuffer, next>>

LeaveAfter(s) == Encoded(s) <= 0

Base64Chunk ==
    LET s == mBBuffer \o Chunk IN
        /\ file' = file \o Groups(s)
        /\ mBBuffer' = Rest(s)
        /\ IF LeaveAfter(s) THEN Leave ELSE Stay

Deflate ==
    /\ pc \in {"flush", "finish"} /\ Have > 0
    /\ produced' = produced + Have /\ remaining' = remaining - Have
    /\ \/ mode = "base64" /\ Base64Chunk
       \/ mode = "gzip" /\ file' = file \o Bytes(Chunk) /\ Stay /\ UNCHANGED mBBuffer
    /\ UNCHANGED <<mode, emitted, taken>>

DeflateEmpty ==
    /\ pc \in {"flush", "finish"} /\ Have = 0
    /\ Leave
    /\ UNCHANGED <<mode, emitted, taken, remaining, produced, mBBuffer, file>>

-----------------------------------------------------------------------------
(* cleanup *)

cleanup ==
    /\ pc = "ready"
    /\ IF mode = "none"
         THEN pc' = "closed" /\ UNCHANGED <<taken, remaining, file>>
         ELSE StartFlush("finish")
    /\ UNCHANGED <<mode, emitted, mBuffer, next, produced, mBBuffer>>

CarryForgotten == file
CarryWritten   == IF mBBuffer = <<>> THEN file ELSE Append(file, mBBuffer)

\* The end of flush(true): the last group is padded.
Finish ==
    /\ pc = "finished" /\ pc' = "closed"
    /\ file' = CarryWritten
    /\ mBBuffer' = <<>>
    /\ UNCHANGED <<mode, emitted, mBuffer, next, taken, remaining, produced>>

Next == (\E n \in Sizes : writeBytes(n)) \/ Deflate \/ DeflateEmpty \/ cleanup \/ Finish

Spec == Init /\ [][Next]_vars

-----------------------------------------------------------------------------
(* Properties *)

(* Every byte that was emitted leaves the buffer once and in order, and so
   does every byte that deflate yields get into the file, however its output
   falls into chunks; a flush does not end while there is more.  A reader that
   decodes base64 group by group finds all groups whole, but for a padded one
   at the end of the file. *)
BytesInOrder ==
    /\ pc \in {"ready", "flush"} => taken \o (IF pc = "ready" THEN mBuffer ELSE next) = Numbers(1, emitted)
    /\ pc \in {"finish", "finished"} => taken = Numbers(1, emitted)
    /\ mode # "none" =>
        /\ FlattenSeq(file) \o mBBuffer = Numbers(1, produced)
        /\ pc \in {"ready", "finished", "closed"} => remaining = 0
        /\ mode = "base64" =>
            \A i \in DOMAIN file : Len(file[i]) = 3 \/ (i = Len(file) /\ pc = "closed")

(* A closed file holds all that was emitted; except that the last buffer of an
   uncompressed output is never written. *)
ClosedComplete ==
    pc = "closed" =>
        /\ mBBuffer = <<>>
        /\ mode = "none" => FlattenSeq(file) \o mBuffer = Numbers(1, emitted)
        /\ mode # "none" => taken = Numbers(1, emitted) /\ FlattenSeq(file) = Numbers(1, produced)
=============================================================================
