--------------------------- MODULE ParserPipeline ---------------------------
(***************************************************************************)
(* The three threads of the mtrack parser process.                         *)
(*                                                                         *)
(*   main      reads packets from the pipe and calls Parser::feed, then    *)
(*             Parser::cleanup (parser/main.cpp parse, parser/Parser.h)    *)
(*   parse     Parser::parseThread: takes batches of packets, parses them, *)
(*             writes snapshots, stacks and resolved addresses             *)
(*   resolver  ResolverThread::run: symbolises addresses for parse         *)
(*                                                                         *)
(* A critical section that never blocks is one step, taken when the mutex  *)
(* is free.  Parser::mMutex has an owner because the parse thread keeps it *)
(* while it joins the resolver and while it writes the threshold snapshot. *)
(* The two other mutexes are only held in sections that are one step here. *)
(* A condition variable is a thread that is "asleep" until somebody        *)
(* notifies it, or until it wakes for no reason.                           *)
(***************************************************************************)
EXTENDS Integers, Sequences, Functions

CONSTANTS
    Block,          \* heap addresses named by Malloc and Free records
    Stack,          \* indexes of distinct stacks
    Address,        \* instruction pointers
    Frames,         \* Frames[s]: the instruction pointers of stack s
    Mapped,         \* the addresses that fall inside a module
    MaxEventCount,  \* Options::maxEventCount
    Threshold       \* Options::threshold in blocks of one byte, 0 when not given

ASSUME PipelineAssumption ==
    /\ Frames \in [Stack -> Seq(Address)]
    /\ Mapped \subseteq Address
    /\ MaxEventCount \in Nat
    /\ Threshold \in Nat

(***************************************************************************)
(* Of the record types, the ones that differ in what they make the threads *)
(* do: Malloc (as PageFault) may trigger a snapshot and adds an entry that *)
(* names a stack, Free removes one, and the three commands.                *)
(***************************************************************************)
Packet ==
         [type : {"Malloc"}, block : Block, stack : Stack]
    \cup [type : {"Free"}, block : Block]
    \cup [type : {"DisableSnapshots", "EnableSnapshots", "Snapshot"}]

VARIABLES
    mainPc,             \* where the main thread is
    fed,                \* history: every packet passed to feed()
    queue,              \* mData / mPacketSizes
    mShutdown, mThreshold,
    mMutex,             \* owner of Parser::mMutex: "none" or "parse"
    parsePc,            \* where the parse thread is
    ret,                \* where emitSnapshot returns to
    batch,              \* packets copied out of the queue and not yet parsed
    done,               \* local of parseThread
    parsed,             \* history: every packet given to parsePacket()
    mallocs,            \* Application::mallocs
    mallocSize,         \* Application::mallocSize
    stacks,             \* stacks in mHashIndexer
    pendingStacks,      \* Application::pendingStacks
    enabled,            \* mLastSnapshot.enabled
    newStacks,          \* local of emitSnapshot: stacks still to write
    frames,             \* local of emitStack: frames still to look up
    unresolved,         \* local of emitStack: frames to pass to the resolver
    mAddressCache,      \* addresses with an entry in mAddressCache
    asked,              \* history: every address put into unresolved
    emitting,           \* local of parseThread: resolved addresses to write
    resolverPc,         \* where the resolver thread is
    mStop,              \* ResolverThread::mStop
    mPending,           \* ResolverThread::mPending
    resolving,          \* local of run(): addresses being symbolised
    mResolvedAddresses, \* Parser::mResolvedAddresses
    wroteStacks,        \* output: the Stack records, in order
    wroteRefs,          \* output: stacks named by entries of snapshots
    wroteAddresses      \* output: the StackAddr records, in order

mainVars     == <<mainPc, fed>>
feedVars     == <<queue, mShutdown, mThreshold>>
appVars      == <<mallocs, mallocSize, stacks>>
snapVars     == <<pendingStacks, newStacks, wroteRefs>>
stackVars    == <<frames, unresolved, mAddressCache, asked, wroteStacks>>
emitVars     == <<emitting, mResolvedAddresses, wroteAddresses>>
resolverVars == <<resolverPc, mStop, mPending, resolving>>

vars == <<mainVars, feedVars, mMutex, parsePc, ret, batch, done, parsed,
          appVars, enabled, snapVars, stackVars, emitVars, resolverVars>>

Init ==
    /\ mainPc = "read" /\ fed = <<>>
    /\ queue = <<>> /\ mShutdown = FALSE /\ mThreshold = FALSE /\ mMutex = "none"
    /\ parsePc = "loop" /\ ret = "packet" /\ batch = <<>> /\ done = FALSE /\ parsed = <<>>
    /\ mallocs = {} /\ mallocSize = 0 /\ stacks = {} /\ pendingStacks = {}
    /\ enabled = TRUE /\ newStacks = {} /\ frames = <<>> /\ unresolved = <<>>
    /\ mAddressCache = {} /\ asked = <<>> /\ emitting = <<>>
    /\ resolverPc = "loop" /\ mStop = FALSE /\ mPending = <<>> /\ resolving = <<>>
    /\ mResolvedAddresses = <<>>
    /\ wroteStacks = <<>> /\ wroteRefs = {} /\ wroteAddresses = <<>>

-----------------------------------------------------------------------------
(* Condition variables.  mCond has one waiter, the parse thread, and
   ResolverThread::mCond one, the resolver. *)

ForgetToNotify == parsePc' = parsePc
NotifyParse    == parsePc' = IF parsePc = "asleep" THEN "loop" ELSE parsePc

ForgetToNotifyResolver == resolverPc' = resolverPc
NotifyResolver         == resolverPc' = IF resolverPc = "asleep" THEN "loop" ELSE resolverPc

\* A wait may return although nobody notified.
SpuriousWakeup ==
    /\ \/ parsePc = "asleep" /\ parsePc' = "loop" /\ UNCHANGED resolverPc
       \/ resolverPc = "asleep" /\ resolverPc' = "loop" /\ UNCHANGED parsePc
    /\ UNCHANGED <<mainVars, feedVars, mMutex, ret, batch, done, parsed, appVars, enabled,
                   snapVars, stackVars, emitVars, mStop, mPending, resolving>>

-----------------------------------------------------------------------------
(* The main thread *)

MayRead == Len(fed) < MaxEventCount

\* A packet is read and fed; a feed that returns FALSE ends the loop.
Feed ==
    /\ mainPc = "read" /\ MayRead /\ mMutex = "none"
    /\ \E p \in Packet : queue' = Append(queue, p) /\ fed' = Append(fed, p)
    /\ NotifyParse
    /\ mainPc' = IF mThreshold THEN "cleanup" ELSE "read"
    /\ UNCHANGED <<mShutdown, mThreshold, mMutex, ret, batch, done, parsed, appVars, enabled,
                   snapVars, stackVars, emitVars, resolverVars>>

\* End of file, or maxEventCount packets were read.
EndOfInput ==
    /\ mainPc = "read"
    /\ mainPc' = "cleanup"
    /\ UNCHANGED <<fed, feedVars, mMutex, parsePc, ret, batch, done, parsed, appVars, enabled,
                   snapVars, stackVars, emitVars, resolverVars>>

\* cleanup() up to the join: the parser's destructor is its only caller.
Cleanup ==
    /\ mainPc = "cleanup" /\ mMutex = "none"
    /\ mShutdown' = TRUE
    /\ NotifyParse
    /\ mainPc' = "join"
    /\ UNCHANGED <<fed, queue, mThreshold, mMutex, ret, batch, done, parsed, appVars, enabled,
                   snapVars, stackVars, emitVars, resolverVars>>

\* mThread.join() returns; the emitter is flushed and the file closed.
JoinAndClose ==
    /\ mainPc = "join" /\ parsePc = "done"
    /\ mainPc' = "closed"
    /\ UNCHANGED <<fed, feedVars, mMutex, parsePc, ret, batch, done, parsed, appVars, enabled,
                   snapVars, stackVars, emitVars, resolverVars>>

-----------------------------------------------------------------------------
(* The parse thread: taking a batch, or stopping *)

ShutdownRequested == mShutdown
Drained           == mShutdown /\ queue = <<>>

QueueNotReset  == queue
QueueAfterTake == <<>>

ParseWait ==
    /\ parsePc = "loop" /\ mMutex = "none"
    /\ queue = <<>> /\ ~mShutdown
    /\ parsePc' = "asleep"
    /\ UNCHANGED <<mainVars, feedVars, mMutex, ret, batch, done, parsed, appVars, enabled,
                   snapVars, stackVars, emitVars, resolverVars>>

ParseTake ==
    /\ parsePc = "loop" /\ mMutex = "none"
    /\ queue # <<>> /\ ~Drained
    /\ batch' = queue /\ queue' = QueueAfterTake
    /\ parsePc' = "packet"
    /\ UNCHANGED <<mainVars, mShutdown, mThreshold, mMutex, ret, done, parsed, appVars, enabled,
                   snapVars, stackVars, emitVars, resolverVars>>

\* mResolverThread->stop() up to its join, with mMutex held.
ParseStop ==
    /\ parsePc = "loop" /\ mMutex = "none"
    /\ Drained
    /\ mMutex' = "parse"
    /\ mStop' = TRUE
    /\ NotifyResolver
    /\ parsePc' = "joinResolver"
    /\ UNCHANGED <<mainVars, feedVars, ret, batch, done, parsed, appVars, enabled,
                   snapVars, stackVars, emitVars, mPending, resolving>>

ParseJoinedResolver ==
    /\ parsePc = "joinResolver" /\ resolverPc = "done"
    /\ mMutex' = "none"
    /\ done' = TRUE
    /\ parsePc' = "packet"
    /\ UNCHANGED <<mainVars, feedVars, ret, batch, parsed, appVars, enabled,
                   snapVars, stackVars, emitVars, resolverVars>>

-----------------------------------------------------------------------------
(* The parse thread: emitSnapshot and emitStack *)

Referenced == {m.stack : m \in mallocs}

PendingAfterSnapshot == pendingStacks \ Referenced

NewAfterPending == PendingAfterSnapshot \cap Referenced
NewStacks       == pendingStacks \cap Referenced

\* The entries are written, and the stacks among them that were never
\* written before move from pendingStacks to newStacks.
EmitSnapshot(returnTo) ==
    /\ wroteRefs' = wroteRefs \cup Referenced
    /\ newStacks' = NewStacks
    /\ pendingStacks' = PendingAfterSnapshot
    /\ ret' = returnTo
    /\ parsePc' = "stacks"

EmitStack ==
    /\ parsePc = "stacks"
    /\ \E s \in newStacks : /\ newStacks' = newStacks \ {s}
                            /\ wroteStacks' = Append(wroteStacks, s)
                            /\ frames' = Frames[s]
    /\ parsePc' = "frames"
    /\ UNCHANGED <<mainVars, feedVars, mMutex, ret, batch, done, parsed, appVars, enabled,
                   pendingStacks, wroteRefs, unresolved, mAddressCache, asked, emitVars,
                   resolverVars>>

CacheForgets(a)  == mAddressCache
CacheWith(a)     == mAddressCache \cup {a}

\* One turn of the loop over the frames: an address is looked up in the
\* modules once, and passed to the resolver if a module holds it.
LookUpFrame ==
    /\ parsePc = "frames" /\ frames # <<>>
    /\ LET a   == Head(frames)
           new == a \notin mAddressCache
       IN  /\ mAddressCache' = IF new THEN CacheWith(a) ELSE mAddressCache
           /\ IF new /\ a \in Mapped
                THEN unresolved' = Append(unresolved, a) /\ asked' = Append(asked, a)
                ELSE UNCHANGED <<unresolved, asked>>
    /\ frames' = Tail(frames)
    /\ UNCHANGED <<mainVars, feedVars, mMutex, parsePc, ret, batch, done, parsed, appVars,
                   enabled, snapVars, wroteStacks, emitVars, resolverVars>>

\* The new addresses are handed over; AddressScope's destructor notifies.
HandOver ==
    /\ parsePc = "frames" /\ frames = <<>>
    /\ mPending' = mPending \o unresolved
    /\ unresolved' = <<>>
    /\ IF unresolved # <<>> THEN NotifyResolver ELSE UNCHANGED resolverPc
    /\ parsePc' = "stacks"
    /\ UNCHANGED <<mainVars, feedVars, mMutex, ret, batch, done, parsed, appVars, enabled,
                   snapVars, frames, mAddressCache, asked, wroteStacks, emitVars, mStop,
                   resolving>>

SnapshotDone ==
    /\ parsePc = "stacks" /\ newStacks = {}
    /\ parsePc' = ret
    /\ UNCHANGED <<mainVars, feedVars, mMutex, ret, batch, done, parsed, appVars, enabled,
                   snapVars, stackVars, emitVars, resolverVars>>

-----------------------------------------------------------------------------
(* The parse thread: parsePacket *)

NextPacket ==
    /\ batch # <<>>
    /\ parsed' = Append(parsed, Head(batch))
    /\ batch' = Tail(batch)
    /\ UNCHANGED <<mainVars, feedVars, mMutex, done, emitVars, resolverVars>>

\* insert() keeps the entry that is already there; the size is added anyway.
ParseMalloc ==
    /\ parsePc = "packet" /\ NextPacket
    /\ LET p == Head(batch)
       IN  /\ p.type = "Malloc"
           /\ stacks' = stacks \cup {p.stack}
           /\ pendingStacks' = IF p.stack \in stacks THEN pendingStacks
                                                     ELSE pendingStacks \cup {p.stack}
           /\ mallocs' = IF \E m \in mallocs : m.block = p.block
                           THEN mallocs
                           ELSE mallocs \cup {[block |-> p.block, stack |-> p.stack]}
    /\ mallocSize' = mallocSize + 1
    /\ parsePc' = "growth"
    /\ UNCHANGED <<ret, enabled, newStacks, wroteRefs, stackVars>>

ParseFree ==
    /\ parsePc = "packet" /\ NextPacket
    /\ LET p     == Head(batch)
           freed == {m \in mallocs : m.block = p.block}
       IN  /\ p.type = "Free"
           /\ mallocs' = mallocs \ freed
           /\ mallocSize' = IF freed = {} THEN mallocSize ELSE mallocSize - 1
    /\ UNCHANGED <<parsePc, ret, stacks, enabled, snapVars, stackVars>>

ParseSwitch ==
    /\ parsePc = "packet" /\ NextPacket
    /\ \/ Head(batch).type = "DisableSnapshots" /\ enabled' = FALSE
       \/ Head(batch).type = "EnableSnapshots" /\ enabled' = TRUE
    /\ UNCHANGED <<parsePc, ret, appVars, snapVars, stackVars>>

\* mtrack_snapshot(): a snapshot whatever mLastSnapshot.enabled is.
ParseSnapshot ==
    /\ parsePc = "packet" /\ NextPacket
    /\ Head(batch).type = "Snapshot"
    /\ EmitSnapshot("packet")
    /\ UNCHANGED <<appVars, enabled, stackVars>>

\* The growth section: shouldSend depends on clocks and past sizes, here it
\* may say yes whenever snapshots are enabled.
MaybeSnapshot ==
    /\ parsePc = "growth"
    /\ \/ enabled /\ EmitSnapshot("threshold")
       \/ parsePc' = "threshold" /\ UNCHANGED <<ret, snapVars>>
    /\ UNCHANGED <<mainVars, feedVars, mMutex, batch, done, parsed, appVars, enabled,
                   stackVars, emitVars, resolverVars>>

BelowThreshold ==
    /\ parsePc = "threshold"
    /\ Threshold = 0 \/ mallocSize < Threshold
    /\ parsePc' = "packet"
    /\ UNCHANGED <<mainVars, feedVars, mMutex, ret, batch, done, parsed, appVars, enabled,
                   snapVars, stackVars, emitVars, resolverVars>>

\* mThreshold is set and a snapshot written under mMutex.
ReachThreshold ==
    /\ parsePc = "threshold" /\ mMutex = "none"
    /\ Threshold > 0 /\ mallocSize >= Threshold
    /\ mMutex' = "parse"
    /\ mThreshold' = TRUE
    /\ EmitSnapshot("unlock")
    /\ UNCHANGED <<mainVars, queue, mShutdown, batch, done, parsed, appVars, enabled,
                   stackVars, emitVars, resolverVars>>

Unlock ==
    /\ parsePc = "unlock"
    /\ mMutex' = "none"
    /\ parsePc' = "packet"
    /\ UNCHANGED <<mainVars, feedVars, ret, batch, done, parsed, appVars, enabled,
                   snapVars, stackVars, emitVars, resolverVars>>

-----------------------------------------------------------------------------
(* The parse thread: resolved addresses, and the end *)

ResolvedNotSwapped == mResolvedAddresses
ResolvedAfterSwap  == <<>>

\* The batch is parsed: std::swap(resolved, mResolvedAddresses).
SwapResolved ==
    /\ parsePc = "packet" /\ batch = <<>>
    /\ emitting' = mResolvedAddresses
    /\ mResolvedAddresses' = ResolvedAfterSwap
    /\ parsePc' = "emit"
    /\ UNCHANGED <<mainVars, feedVars, mMutex, ret, batch, done, parsed, appVars, enabled,
                   snapVars, stackVars, wroteAddresses, resolverVars>>

EmitAddress ==
    /\ parsePc = "emit" /\ emitting # <<>>
    /\ wroteAddresses' = Append(wroteAddresses, Head(emitting))
    /\ emitting' = Tail(emitting)
    /\ UNCHANGED <<mainVars, feedVars, mMutex, parsePc, ret, batch, done, parsed, appVars,
                   enabled, snapVars, stackVars, mResolvedAddresses, resolverVars>>

LoopEnd ==
    /\ parsePc = "emit" /\ emitting = <<>>
    /\ parsePc' = IF done THEN "final" ELSE "loop"
    /\ UNCHANGED <<mainVars, feedVars, mMutex, ret, batch, done, parsed, appVars, enabled,
                   snapVars, stackVars, emitVars, resolverVars>>

FinalSnapshot ==
    /\ parsePc = "final"
    /\ \/ enabled /\ EmitSnapshot("done")
       \/ ~enabled /\ parsePc' = "done" /\ UNCHANGED <<ret, snapVars>>
    /\ UNCHANGED <<mainVars, feedVars, mMutex, batch, done, parsed, appVars, enabled,
                   stackVars, emitVars, resolverVars>>

-----------------------------------------------------------------------------
(* The resolver thread *)

StopRequested    == mStop
ResolverDrained  == mStop /\ mPending = <<>>

ResolverWait ==
    /\ resolverPc = "loop"
    /\ mPending = <<>> /\ ~mStop
    /\ resolverPc' = "asleep"
    /\ UNCHANGED <<mainVars, feedVars, mMutex, parsePc, ret, batch, done, parsed, appVars,
                   enabled, snapVars, stackVars, emitVars, mStop, mPending, resolving>>

ResolverTake ==
    /\ resolverPc = "loop"
    /\ mPending # <<>> /\ ~ResolverDrained
    /\ resolving' = mPending /\ mPending' = <<>>
    /\ resolverPc' = "publish"
    /\ UNCHANGED <<mainVars, feedVars, mMutex, parsePc, ret, batch, done, parsed, appVars,
                   enabled, snapVars, stackVars, emitVars, mStop>>

\* The batch is symbolised, then onResolvedAddresses appends it.
ResolverPublish ==
    /\ resolverPc = "publish"
    /\ mResolvedAddresses' = mResolvedAddresses \o resolving
    /\ resolving' = <<>>
    /\ resolverPc' = "loop"
    /\ UNCHANGED <<mainVars, feedVars, mMutex, parsePc, ret, batch, done, parsed, appVars,
                   enabled, snapVars, stackVars, emitting, wroteAddresses, mStop, mPending>>

ResolverExit ==
    /\ resolverPc = "loop"
    /\ ResolverDrained
    /\ resolverPc' = "done"
    /\ UNCHANGED <<mainVars, feedVars, mMutex, parsePc, ret, batch, done, parsed, appVars,
                   enabled, snapVars, stackVars, emitVars, mStop, mPending, resolving>>

-----------------------------------------------------------------------------
Main == Feed \/ EndOfInput \/ Cleanup \/ JoinAndClose

ParsePacket == ParseMalloc \/ ParseFree \/ ParseSwitch \/ ParseSnapshot

ParseThread ==
    \/ ParseWait \/ ParseTake \/ ParseStop \/ ParseJoinedResolver
    \/ ParsePacket \/ MaybeSnapshot \/ BelowThreshold \/ ReachThreshold \/ Unlock
    \/ EmitStack \/ LookUpFrame \/ HandOver \/ SnapshotDone
    \/ SwapResolved \/ EmitAddress \/ LoopEnd \/ FinalSnapshot

Resolver == ResolverWait \/ ResolverTake \/ ResolverPublish \/ ResolverExit

\* The process ends when main has closed the file: nothing is left to do.
Ended == mainPc = "closed" /\ UNCHANGED vars

Next == Main \/ ParseThread \/ Resolver \/ SpuriousWakeup \/ Ended

Spec == Init /\ [][Next]_vars

(***************************************************************************)
(* Every thread that can run does so in the end.  Reading is not fair: the *)
(* traced process may keep the pipe open without ever writing.             *)
(***************************************************************************)
Fairness ==
    /\ WF_vars(ParseThread)
    /\ WF_vars(Resolver)
    /\ WF_vars(Cleanup \/ JoinAndClose)

FairSpec == Spec /\ Fairness

-----------------------------------------------------------------------------
(* Properties *)

MainPcs     == {"read", "cleanup", "join", "closed"}
ParsePcs    == {"loop", "asleep", "joinResolver", "packet", "growth", "threshold", "unlock",
                "stacks", "frames", "emit", "final", "done"}
ReturnPcs   == {"packet", "threshold", "unlock", "done"}
ResolverPcs == {"loop", "asleep", "publish", "done"}
Malloc      == [block : Block, stack : Stack]

(* Every variable holds what the code can put in it; no more than
   maxEventCount packets are fed. *)
TypeOK ==
    /\ mainPc \in MainPcs
    /\ fed \in Seq(Packet) /\ Len(fed) <= MaxEventCount
    /\ queue \in Seq(Packet) /\ batch \in Seq(Packet) /\ parsed \in Seq(Packet)
    /\ mShutdown \in BOOLEAN /\ mThreshold \in BOOLEAN /\ done \in BOOLEAN
    /\ mMutex \in {"none", "parse"}
    /\ parsePc \in ParsePcs /\ ret \in ReturnPcs
    /\ mallocs \in SUBSET Malloc /\ mallocSize \in Int
    /\ stacks \in SUBSET Stack /\ pendingStacks \in SUBSET Stack
    /\ enabled \in BOOLEAN
    /\ newStacks \in SUBSET Stack /\ wroteRefs \in SUBSET Stack
    /\ frames \in Seq(Address) /\ unresolved \in Seq(Address)
    /\ mAddressCache \in SUBSET Address
    /\ asked \in Seq(Address) /\ emitting \in Seq(Address)
    /\ resolverPc \in ResolverPcs /\ mStop \in BOOLEAN
    /\ mPending \in Seq(Address) /\ resolving \in Seq(Address)
    /\ mResolvedAddresses \in Seq(Address)
    /\ wroteStacks \in Seq(Stack) /\ wroteAddresses \in Seq(Address)

(* No packet is lost, duplicated or overtaken between feed() and
   parsePacket(), however the batches are cut and whenever shutdown or the
   threshold arrives. *)
PacketsInOrder == fed = parsed \o batch \o queue

(* The same for the addresses on their way from emitStack through the
   resolver and back to emitAddress: four buffers, three locks. *)
AddressesInOrder ==
    asked = wroteAddresses \o emitting \o mResolvedAddresses \o resolving \o mPending
                \o unresolved

NoRepetition(seq) == \A i, j \in DOMAIN seq : seq[i] = seq[j] => i = j

(* The reader of the output appends the frames of a Stack record to what it
   has (visualizer/src/model/Model.ts), so each stack is written at most
   once; and each address is symbolised and written at most once, although
   stacks share addresses and mAddressCache is filled long before the answer
   arrives. *)
WrittenOnce == NoRepetition(wroteStacks) /\ NoRepetition(wroteAddresses)

(* Once a snapshot is complete, every stack that an entry of it or of an
   earlier snapshot names has been written. *)
SnapshotsComplete ==
    parsePc \notin {"stacks", "frames"} => wroteRefs \subseteq Range(wroteStacks)

(* The resolver is stopped only when it has nothing left: when parseThread
   leaves its loop every address asked for has been written.  Only the
   stacks of the final snapshot can remain without symbols. *)
ResolvedBeforeFinal == parsePc = "final" => wroteAddresses = asked

(* A thread sleeps only while there is nothing for it to do: no notification
   is lost between the test of the condition and the wait. *)
NoLostWakeup ==
    /\ parsePc = "asleep" => queue = <<>> /\ ~mShutdown
    /\ resolverPc = "asleep" => mPending = <<>> /\ ~mStop

InSnapshot == parsePc \in {"stacks", "frames"}

(* How the threads' places, flags and buffers go together.  The parse thread
   owns mMutex in two places only; the resolver's stop flag is set by a
   parse thread that has nothing left to parse after a shutdown; a local
   buffer is empty outside the code that uses it; and nothing is left for the
   resolver once it has ended, until the final snapshot. *)
Phases ==
    /\ mShutdown <=> mainPc \in {"join", "closed"}
    /\ mainPc = "closed" => parsePc = "done"
    /\ mMutex = "parse" <=> \/ parsePc \in {"joinResolver", "unlock"}
                            \/ InSnapshot /\ ret = "unlock"
    /\ mStop <=> parsePc = "joinResolver" \/ done
    /\ done => resolverPc = "done"
    /\ resolverPc = "done" => mStop
    /\ mStop => mShutdown /\ queue = <<>> /\ batch = <<>>
    /\ parsePc \in {"loop", "asleep", "emit"} => batch = <<>>
    /\ done => parsePc \in {"packet", "emit", "final", "done"} \/ (InSnapshot /\ ret = "done")
    /\ parsePc \in {"final", "done"} \/ ret = "done" => done
    /\ unresolved # <<>> => parsePc = "frames"
    /\ emitting # <<>> => parsePc = "emit"
    /\ resolving # <<>> => resolverPc = "publish"
    /\ newStacks # {} => InSnapshot
    /\ resolverPc = "done" /\ ~InSnapshot /\ parsePc # "done" => mPending = <<>>
    /\ done /\ parsePc \in {"emit", "final"} => mResolvedAddresses = <<>>

(* Where every stack of mHashIndexer is: waiting for a snapshot that needs
   it, about to be written, or written; and an address that was asked for
   once is in the cache and not asked for again. *)
Trails ==
    /\ stacks = pendingStacks \cup newStacks \cup Range(wroteStacks)
    /\ pendingStacks \cap newStacks = {}
    /\ (pendingStacks \cup newStacks) \cap Range(wroteStacks) = {}
    /\ NoRepetition(wroteStacks)
    /\ Referenced \subseteq stacks
    /\ wroteRefs \subseteq newStacks \cup Range(wroteStacks)
    /\ Range(asked) \subseteq mAddressCache
    /\ NoRepetition(asked)

(* Every packet that is fed is eventually parsed. *)
EveryPacketParsed == \A n \in 1..MaxEventCount : Len(fed) >= n ~> Len(parsed) >= n

(* cleanup() returns: the parse thread, which joins the resolver while it
   holds mMutex, and the resolver both end. *)
CleanupReturns == mainPc = "cleanup" ~> mainPc = "closed"

(* The pipeline implements the ordered sink it promises to be. *)
Sink == INSTANCE OrderedSink WITH closed <- mainPc = "closed"

ImplementsSink == Sink!SinkSpec
=============================================================================
