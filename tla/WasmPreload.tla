---------------------------- MODULE WasmPreload ----------------------------
(***************************************************************************)
(* The preload library for WebAssembly, and what the parser makes of its   *)
(* records.  The runtime calls mtrack_report_malloc, _free and _realloc    *)
(* after the allocator did its work; their own allocations call them       *)
(* again.  A frame is an address within a file named by its url.  The      *)
(* library numbers the urls and puts the number above the address.         *)
(*                                                                         *)
(* One thread, which is what the script part of the library supports.      *)
(***************************************************************************)
EXTENDS ModuleTable, FiniteSets

CONSTANTS
    Block, Size,
    Url,            \* files a frame can be in
    Offset,         \* addresses in a file
    Width,          \* 2^32
    MaxFrames,      \* bounds of the model: frames of a stack,
    MaxCalls        \* calls of the program

ASSUME WasmAssumption ==
    /\ Width \in Nat \ {0} /\ Offset \subseteq 0 .. Width - 1 /\ Size \subseteq Nat
    /\ MaxFrames \in Nat /\ MaxCalls \in Nat

VARIABLES
    live,           \* the program's blocks, as [block, size]
    inner,          \* blocks the library has for itself
    pc,             \* where the callback is: "run" outside of it
    call,           \* what the callback was called for
    inMallocFree, hookOnce, hooked, data,       \* the flags; whether Data is there
    urls,           \* Data::urls: the urls in the order of their numbers
    mallocs, mallocSize, libraries,     \* of Application, in the parser
    frames,         \* history: the frames of all stacks, with the address sent
    early,          \* history: the blocks from before the callbacks were set
    calls           \* number of calls

flagVars   == <<inMallocFree, hookOnce, hooked, data>>
parserVars == <<mallocs, mallocSize, libraries>>
vars == <<live, inner, pc, call, flagVars, urls, parserVars, frames, early, calls>>

Idle == [type |-> "none"]

\* The script sets the callbacks after some of the program has run.
Init ==
    /\ \E blocks \in SUBSET Block, n \in Size : live = {[block |-> b, size |-> n] : b \in blocks}
    /\ early = live
    /\ inner = {} /\ pc = "run" /\ call = Idle
    /\ inMallocFree = FALSE /\ hookOnce = FALSE /\ hooked = TRUE /\ data = FALSE /\ urls = <<>>
    /\ mallocs = {} /\ mallocSize = 0 /\ libraries = <<>> /\ frames = {}
    /\ calls = 0

-----------------------------------------------------------------------------
(* The parser *)

SumSizes(blocks) == MapThenSumSet(LAMBDA m : m.size, blocks)

Others(recorded, b) == {m \in recorded : m.block # b}

\* A block that is there stays, but the total grows.
ParseMalloc(recorded, total, b, n) ==
    /\ mallocs' = IF b \in {m.block : m \in recorded} THEN recorded
                  ELSE recorded \cup {[block |-> b, size |-> n]}
    /\ mallocSize' = total + n

TotalAfterFree(b) == mallocSize - SumSizes(mallocs \ Others(mallocs, b))

ParseFree(b) == mallocs' = Others(mallocs, b) /\ mallocSize' = TotalAfterFree(b)

-----------------------------------------------------------------------------
(* The program's calls *)

Free(b) == b \notin {m.block : m \in live} \cup inner

\* The allocator has done its work; MallocFree is constructed.
Call(c, gone, new) ==
    /\ pc = "run" /\ calls < MaxCalls /\ calls' = calls + 1
    /\ live' = (live \ gone) \cup new /\ early' = early \ gone
    /\ call' = c /\ inMallocFree' = TRUE
    /\ pc' = IF hookOnce THEN "hooked" ELSE "hook"
    /\ UNCHANGED <<inner, hookOnce, hooked, data, urls, parserVars, frames>>

malloc(b, n) ==
    /\ Free(b)
    /\ Call([type |-> "malloc", block |-> b, size |-> n], {}, {[block |-> b, size |-> n]})

free(m) == Call([type |-> "free", block |-> m.block], {m}, {})

\* The new block can be where the old one was.
realloc(m, b, n) ==
    /\ b = m.block \/ Free(b)
    /\ Call([type |-> "realloc", old |-> m.block, block |-> b, size |-> n],
            {m}, {[block |-> b, size |-> n]})

-----------------------------------------------------------------------------
(* The callback *)

\* Hooks::hook: new Data, then atexit and the first records.
hook(enabled) ==
    /\ pc = "hook" /\ pc' = "hooked" /\ hookOnce' = TRUE
    /\ hooked' = enabled /\ data' = enabled
    /\ UNCHANGED <<live, inner, call, inMallocFree, urls, parserVars, frames, early, calls>>

\* Whether a callback reports, given whether it was called within another one.
ReportsNested(wasInMallocFree) == hooked /\ data

Reports(wasInMallocFree) == hooked /\ ~wasInMallocFree /\ data

\* A url that is new gets the next number.
WithUrl(known, url) == IF url \in ToSet(known) THEN known ELSE Append(known, url)

NumberFromOne(known, url) == SelectInSeq(known, LAMBDA u : u = url)

NumberOf(known, url) == SelectInSeq(known, LAMBDA u : u = url) - 1

\* The records of a library and of its only header.  The header's length is
\* id | 0xFFFFFFFF, its address is that of the library once more.
LibraryOf(url, id) ==
    [name |-> url, addr |-> id, headers |-> <<[addr |-> id, len |-> id + Width - 1]>>]

Stacks == UNION {[1 .. n -> [url : Url, offset : Offset]] : n \in 0 .. MaxFrames}

\* The urls of its stack go ahead of the Malloc record.
reportMalloc(recorded, total, b, n) ==
    \E stack \in Stacks :
      LET known == FoldLeft(WithUrl, urls, [i \in DOMAIN stack |-> stack[i].url])
          Added == SubSeq(known, Len(urls) + 1, Len(known))
          Ptr(f) == f.offset + NumberOf(known, f.url) * Width
      IN  /\ urls' = known
          /\ libraries' = libraries \o
                [i \in DOMAIN Added |-> LibraryOf(Added[i], NumberOf(known, Added[i]) * Width)]
          /\ frames' = frames \cup {[url |-> f.url, ptr |-> Ptr(f)] : f \in ToSet(stack)}
          /\ ParseMalloc(recorded, total, b, n)

\* NoHook is in place until the report is done.
Report ==
    /\ pc = "hooked" /\ pc' = "reported"
    /\ \/ /\ ~Reports(FALSE)
          /\ UNCHANGED <<hooked, urls, parserVars, frames>>
       \/ /\ Reports(FALSE) /\ call.type = "free" /\ hooked' = FALSE
          /\ ParseFree(call.block)
          /\ UNCHANGED <<urls, libraries, frames>>
       \/ /\ Reports(FALSE) /\ call.type = "malloc" /\ hooked' = FALSE
          /\ reportMalloc(mallocs, mallocSize, call.block, call.size)
       \/ /\ Reports(FALSE) /\ call.type = "realloc" /\ hooked' = FALSE
          /\ reportMalloc(Others(mallocs, call.old), TotalAfterFree(call.old), call.block, call.size)
    /\ UNCHANGED <<live, inner, call, inMallocFree, hookOnce, data, early, calls>>

\* The destructors of NoHook and MallocFree.
Return ==
    /\ pc = "reported" /\ pc' = "run"
    /\ inMallocFree' = FALSE /\ hooked' = data /\ call' = Idle
    /\ UNCHANGED <<live, inner, hookOnce, data, urls, parserVars, frames, early, calls>>

\* What the library allocates and frees on its way calls the callbacks again.
InnerMalloc(b, n) ==
    /\ pc \in {"hooked", "reported"} /\ Free(b)
    /\ inner' = inner \cup {b}
    /\ IF Reports(inMallocFree)
         THEN ParseMalloc(mallocs, mallocSize, b, n)
         ELSE UNCHANGED <<mallocs, mallocSize>>
    /\ UNCHANGED <<live, pc, call, flagVars, urls, libraries, frames, early, calls>>

InnerFree(b) ==
    /\ pc \in {"hooked", "reported"} /\ b \in inner
    /\ inner' = inner \ {b}
    /\ IF Reports(inMallocFree) THEN ParseFree(b) ELSE UNCHANGED <<mallocs, mallocSize>>
    /\ UNCHANGED <<live, pc, call, flagVars, urls, libraries, frames, early, calls>>

Next ==
    \/ \E b \in Block, n \in Size : malloc(b, n)
    \/ \E m \in live : free(m)
    \/ \E m \in live, b \in Block, n \in Size : realloc(m, b, n)
    \/ \E enabled \in BOOLEAN : hook(enabled)
    \/ Report
    \/ Return
    \/ \E b \in Block, n \in Size : InnerMalloc(b, n)
    \/ \E b \in Block : InnerFree(b)

Spec == Init /\ [][Next]_vars

-----------------------------------------------------------------------------
(* Properties *)

(* Between two calls the parser has the program's blocks and their total, but
   neither those from before the callbacks were set nor those the library
   allocates for itself, wherever these lie. *)
WasmBlocksRecorded ==
    pc = "run" /\ data => mallocs = live \ early /\ mallocSize = SumSizes(mallocs)

Cache == LET made == WithModules(<<>>, <<>>, libraries) IN CacheOf(made.modules, made.table)

(* A frame is looked up in the module of its own url if its url was the first.
   The range of the module is not that of the ids, since its header is taken
   relative to the library: those of the second url are in no module, those of
   each later one in the module of another. *)
ResolvedInOwnUrl ==
    \A f \in frames :
        LET k == NumberOf(urls, f.url) IN
        Found(Cache, f.ptr) = IF k = 0 THEN {f.url} ELSE IF k = 1 THEN {} ELSE {urls[k \div 2 + 1]}
=============================================================================
