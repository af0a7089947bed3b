----------------------------- MODULE AllocHooks -----------------------------
(***************************************************************************)
(* The allocation hooks of the preload library in the traced process, the  *)
(* pipe, and what the parser makes of their records.                       *)
(*                                                                         *)
(* A hook calls the real allocator first and reports afterwards, each      *)
(* record with a write of its own.  Nothing keeps another thread from      *)
(* getting a block between the real free and its report.  A report first   *)
(* lists the modules when a dlopen or dlclose has marked them as dirty.    *)
(*                                                                         *)
(* The state is the one after Hooks::hook: callbacks and data are set.     *)
(* OrderedSink says that the parser sees the records in pipe order.        *)
(***************************************************************************)
EXTENDS Integers, Sequences, FiniteSetsExt

CONSTANTS
    Thread,         \* threads of the traced process
    Block,          \* addresses the allocator can return
    Size,           \* sizes a program can ask for
    Library,        \* libraries it can load; one loaded again is another one
    PipeSize,       \* packets the pipe holds before a writer blocks
    MaxCalls        \* bound of the model: allocations and reallocations

ASSUME HooksAssumption ==
    /\ Size \subseteq Nat \ {0}
    /\ PipeSize \in Nat \ {0}
    /\ MaxCalls \in Nat

Live == [block : Block, size : Size]

Record ==
         [type : {"Malloc"}, block : Block, size : Size]
    \cup [type : {"Free"}, block : Block]
    \cup [type : {"Modules"}, libs : SUBSET Library]
    \cup [type : {"Mmap"}]

VARIABLES
    live,           \* what the allocator has given out
    pending,        \* pending[t]: records the call that t is in has yet to report
    result,         \* result[t]: the block that call will return, as a set
    at,             \* at[t]: where t is in reportMalloc or reportFree
    dl,             \* dl[t]: where t is in dlopen or dlclose
    modulesDirty,   \* Data::modulesDirty
    loaded,         \* the libraries dl_iterate_phdr visits
    pipe,           \* records written and not yet read
    mallocs,        \* Application::mallocs
    mallocSize,     \* Application::mallocSize
    libraries,      \* Application::libraries
    calls,          \* number of allocations and reallocations
    raced,          \* history: blocks given out before their last free was reported
    silent,         \* history: recorded blocks freed or resized without a report
    unseen,         \* history: live blocks that were not reported
    erased,         \* history: threads in dlopen whose mark a listing erased
    overlapped      \* history: libraries loaded with their mark erased, or about to be

heapVars   == <<live, raced, silent, unseen, calls>>
reportVars == <<pending, result, at>>
moduleVars == <<modulesDirty, loaded, erased, overlapped, dl>>
parserVars == <<mallocs, mallocSize, libraries>>
vars       == <<heapVars, reportVars, moduleVars, pipe, parserVars>>

\* Blocks and libraries from before the hooks were in place may be there.
Init ==
    /\ live \in {{[block |-> b, size |-> n] : b \in early} : early \in SUBSET Block, n \in Size}
    /\ unseen = {m.block : m \in live}
    /\ raced = {} /\ silent = {} /\ calls = 0
    /\ pending = [t \in Thread |-> <<>>] /\ result = [t \in Thread |-> {}]
    /\ at = [t \in Thread |-> "check"]
    /\ dl = [t \in Thread |-> "out"]
    /\ modulesDirty = TRUE /\ loaded \in SUBSET Library /\ erased = {} /\ overlapped = {}
    /\ pipe = <<>>
    /\ mallocs = {} /\ mallocSize = 0 /\ libraries = {}

-----------------------------------------------------------------------------
(* The real allocator, and what the hooks report of it *)

MallocRecord(b, n) == [type |-> "Malloc", block |-> b, size |-> n]
FreeRecord(b)      == [type |-> "Free", block |-> b]

ReportingFree(t, b) ==
    \E i \in DOMAIN pending[t] : pending[t][i].type = "Free" /\ pending[t][i].block = b

Idle(t) == pending[t] = <<>>

\* The threads in a hook: a hook they call from there does not report.
WasInMallocFree(t) == dl[t] # "out"

FreeBlock(b) == \A m \in live : m.block # b

\* A program passes on a pointer only after the call that returned it.
Usable(m) == \A t \in Thread : m.block \notin result[t]

RacedBy(b) == IF \E t \in Thread : ReportingFree(t, b) THEN {b} ELSE {}

\* What is left to do for a call that returns one of blocks.
Report(t, records, blocks) ==
    /\ pending' = [pending EXCEPT ![t] = records]
    /\ result' = [result EXCEPT ![t] = IF records = <<>> THEN {} ELSE blocks]

Unless(silenced, records) == IF silenced THEN <<>> ELSE records

Counted == calls < MaxCalls /\ calls' = calls + 1

\* malloc, calloc, posix_memalign, aligned_alloc, and realloc of nullptr
malloc(t, b, n) ==
    /\ Idle(t) /\ FreeBlock(b) /\ Counted
    /\ live' = live \cup {[block |-> b, size |-> n]}
    /\ raced' = raced \cup RacedBy(b)
    /\ unseen' = IF WasInMallocFree(t) THEN unseen \cup {b} ELSE unseen
    /\ Report(t, Unless(WasInMallocFree(t), <<MallocRecord(b, n)>>), {b})
    /\ UNCHANGED <<silent, at, moduleVars, pipe, parserVars>>

\* The recorded block p changes behind the parser's back.
Unreported(p) == silent' = silent \cup ({p} \ unseen)

free(t, m) ==
    /\ Idle(t) /\ m \in live /\ Usable(m)
    /\ live' = live \ {m}
    /\ unseen' = unseen \ {m.block}
    /\ Report(t, Unless(WasInMallocFree(t), <<FreeRecord(m.block)>>), {})
    /\ IF WasInMallocFree(t) THEN Unreported(m.block) ELSE UNCHANGED silent
    /\ UNCHANGED <<raced, calls, at, moduleVars, pipe, parserVars>>

\* The real realloc keeps the block in its place or moves it to b.
Reallocated(m, b, n) ==
    /\ Counted
    /\ b = m.block \/ FreeBlock(b)
    /\ live' = (live \ {m}) \cup {[block |-> b, size |-> n]}
    /\ raced' = raced \cup (IF b = m.block THEN {} ELSE RacedBy(b))

MallocFirst(p, b, n)    == <<MallocRecord(b, n), FreeRecord(p)>>
OldForgotten(p, b, n)   == <<MallocRecord(b, n)>>
ReallocRecords(p, b, n) == <<FreeRecord(p), MallocRecord(b, n)>>

realloc(t, m, b, n) ==
    /\ Idle(t) /\ m \in live /\ Usable(m)
    /\ Reallocated(m, b, n)
    /\ Report(t, Unless(WasInMallocFree(t), ReallocRecords(m.block, b, n)), {b})
    /\ IF WasInMallocFree(t)
         THEN /\ Unreported(m.block)
              /\ unseen' = IF b = m.block THEN unseen ELSE (unseen \ {m.block}) \cup {b}
         ELSE unseen' = unseen \ {m.block} /\ UNCHANGED silent
    /\ UNCHANGED <<at, moduleVars, pipe, parserVars>>

\* A realloc to zero bytes frees the block and returns nullptr: no report.
reallocToZero(t, m) ==
    /\ Idle(t) /\ m \in live /\ Usable(m)
    /\ live' = live \ {m}
    /\ unseen' = unseen \ {m.block}
    /\ Unreported(m.block)
    /\ UNCHANGED <<raced, calls, reportVars, moduleVars, pipe, parserVars>>

NestedReports(records)    == records
NestedInMallocFree(records) == <<>>

\* The C library's reallocarray calls realloc, whose hook finds that it is
\* in a hook.  The report of the free does not ask whether this call is.
reallocarray(t, m, b, n) ==
    /\ Idle(t) /\ m \in live /\ Usable(m)
    /\ Reallocated(m, b, n)
    /\ LET records == ReallocRecords(m.block, b, n)
       IN  Report(t, NestedInMallocFree(records) \o
                        (IF WasInMallocFree(t) THEN <<FreeRecord(m.block)>> ELSE records), {b})
    /\ unseen' = (unseen \ {m.block}) \cup (IF WasInMallocFree(t) THEN {b} ELSE {})
    /\ UNCHANGED <<silent, at, moduleVars, pipe, parserVars>>

\* The hooks of mmap treat the flag as reportMalloc does, inside another hook
\* too, and so does the fault thread.  What they report is not followed here.
mmap(t) ==
    /\ Idle(t)
    /\ Report(t, <<[type |-> "Mmap"]>>, {})
    /\ UNCHANGED <<heapVars, at, moduleVars, pipe, parserVars>>

-----------------------------------------------------------------------------
(* reportMalloc and reportFree *)

Room == Len(pipe) < PipeSize

\* The flag is read; if it is set all modules are listed, which the loader's
\* lock makes one step.
Refresh(t) ==
    /\ ~Idle(t) /\ at[t] = "check"
    /\ IF modulesDirty
         THEN /\ Room
              /\ pipe' = Append(pipe, [type |-> "Modules", libs |-> loaded])
              /\ at' = [at EXCEPT ![t] = "clear"]
         ELSE at' = [at EXCEPT ![t] = "emit"] /\ UNCHANGED pipe
    /\ UNCHANGED <<heapVars, pending, result, moduleVars, parserVars>>

Clear(t) ==
    /\ at[t] = "clear"
    /\ modulesDirty' = FALSE
    /\ erased' = erased \cup {u \in Thread : dl[u] = "marked"}
    /\ at' = [at EXCEPT ![t] = "emit"]
    /\ UNCHANGED <<heapVars, pending, result, loaded, overlapped, dl, pipe, parserVars>>

Emit(t) ==
    /\ at[t] = "emit" /\ Room
    /\ pipe' = Append(pipe, Head(pending[t]))
    /\ Report(t, Tail(pending[t]), result[t])
    /\ at' = [at EXCEPT ![t] = "check"]
    /\ UNCHANGED <<heapVars, moduleVars, parserVars>>

-----------------------------------------------------------------------------
(* dlopen and dlclose: constructors and destructors of the library call the
   hooks from inside. *)

NotMarked == modulesDirty
Marked    == TRUE

dlopenMark(t) ==
    /\ Idle(t) /\ dl[t] = "out"
    /\ modulesDirty' = Marked
    /\ erased' = erased \ {t}
    /\ dl' = [dl EXCEPT ![t] = "marked"]
    /\ UNCHANGED <<heapVars, reportVars, loaded, overlapped, pipe, parserVars>>

\* The loader adds the library, or removes it.
dlLoad(t, lib) ==
    /\ Idle(t) /\ dl[t] = "marked" /\ lib \notin loaded \cup libraries
    /\ loaded' = loaded \cup {lib}
    /\ overlapped' = IF t \in erased \/ \E u \in Thread : at[u] = "clear"
                       THEN overlapped \cup {lib}
                       ELSE overlapped
    /\ dl' = [dl EXCEPT ![t] = "done"]
    /\ UNCHANGED <<heapVars, reportVars, modulesDirty, erased, pipe, parserVars>>

dlUnload(t, lib) ==
    /\ Idle(t) /\ dl[t] = "marked" /\ lib \in loaded
    /\ loaded' = loaded \ {lib}
    /\ dl' = [dl EXCEPT ![t] = "done"]
    /\ UNCHANGED <<heapVars, reportVars, modulesDirty, erased, overlapped, pipe, parserVars>>

dlReturn(t) ==
    /\ Idle(t) /\ WasInMallocFree(t)
    /\ dl' = [dl EXCEPT ![t] = "out"]
    /\ erased' = erased \ {t}
    /\ UNCHANGED <<heapVars, reportVars, modulesDirty, loaded, overlapped, pipe, parserVars>>

-----------------------------------------------------------------------------
(* The parser: parsePacket *)

MallocsWith(m)    == IF \E r \in mallocs : r.block = m.block THEN mallocs ELSE mallocs \cup {m}

Added(n) == mallocSize + n

SumSizes(s) == MapThenSumSet(LAMBDA m : m.size, s)

ParseRecord ==
    /\ pipe # <<>> /\ pipe' = Tail(pipe)
    /\ LET r == Head(pipe) IN
        \/ /\ r.type = "Malloc"
           /\ mallocs' = MallocsWith([block |-> r.block, size |-> r.size])
           /\ mallocSize' = Added(r.size)
           /\ UNCHANGED libraries
        \/ /\ r.type = "Free"
           /\ LET freed == {m \in mallocs : m.block = r.block}
              IN  mallocs' = mallocs \ freed /\ mallocSize' = mallocSize - SumSizes(freed)
           /\ UNCHANGED libraries
        \/ /\ r.type = "Modules"
           /\ libraries' = libraries \cup r.libs
           /\ UNCHANGED <<mallocs, mallocSize>>
        \/ r.type = "Mmap" /\ UNCHANGED parserVars
    /\ UNCHANGED <<heapVars, reportVars, moduleVars>>

-----------------------------------------------------------------------------
Hook(t) ==
    \/ mmap(t)
    \/ \E b \in Block, n \in Size : malloc(t, b, n)
    \/ \E m \in live : \/ free(t, m) \/ reallocToZero(t, m)
                       \/ \E b \in Block, n \in Size : \/ realloc(t, m, b, n)
                                                       \/ reallocarray(t, m, b, n)

Loader(t) ==
    \/ dlopenMark(t) \/ dlReturn(t)
    \/ \E lib \in Library : dlLoad(t, lib) \/ dlUnload(t, lib)

ReportStep(t) == Refresh(t) \/ Clear(t) \/ Emit(t)

Next == (\E t \in Thread : Hook(t) \/ Loader(t) \/ ReportStep(t)) \/ ParseRecord

Spec == Init /\ [][Next]_vars

-----------------------------------------------------------------------------
(* Properties *)

Quiet == pipe = <<>> /\ \A t \in Thread : Idle(t)

(* When every report has arrived, the parser shows no block as leaked that
   the program has freed - however the reports of several threads about one
   address were interleaved.  The exceptions are the frees that no hook
   reports: a realloc to zero bytes, and those made from inside a dlopen or
   dlclose. *)
NoFalseLeak ==
    Quiet => \A m \in mallocs : m.block \in silent \/ ~FreeBlock(m.block)

(* When every report has arrived, a live block is recorded with its size,
   unless the address was ever given out again before its free was reported,
   or it was changed without a report, or never reported. *)
LiveBlocksRecorded ==
    Quiet => \A m \in live : m \in mallocs \/ m.block \in raced \cup silent \cup unseen

(* The total that is shown, and compared to the threshold, is never less
   than the blocks recorded - so a free cannot take it below zero - and it is
   exact until a race or an unreported free has happened. *)
TotalCoversRecorded ==
    /\ mallocSize >= SumSizes(mallocs)
    /\ raced \cup silent = {} => mallocSize = SumSizes(mallocs)

Listed == libraries \cup UNION {pipe[i].libs : i \in {j \in DOMAIN pipe : pipe[j].type = "Modules"}}

(* While the modules are not dirty, every library is on its way to the
   parser, or there already, so that the stacks reported now can be resolved.
   The exception is a dlopen between whose mark and load a listing cleared
   the flag, or will: that library is missed until the next dlopen. *)
ModulesListed == ~modulesDirty => loaded \subseteq Listed \cup overlapped
=============================================================================
