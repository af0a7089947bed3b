----------------------------- MODULE Lifecycle ------------------------------
(***************************************************************************)
(* From the first hook to the end of the traced process: Hooks::hook under *)
(* call_once, hooks that report through `data`, the fault thread, the      *)
(* parser process at the other end of the pipe, processes that the program *)
(* forks, and hookCleanup, which runs in exit.                             *)
(*                                                                         *)
(* A record is a token: the pipe is the number of packets in it.           *)
(***************************************************************************)
EXTENDS Integers, FiniteSets

CONSTANTS
    Thread,         \* threads of the traced process
    Child,          \* processes that the program may fork
    Traced, Nobody,
    PipeSize        \* packets the pipe holds before a writer blocks

ASSUME LifecycleAssumption ==
    /\ Traced \notin Child /\ Nobody \notin Thread
    /\ PipeSize \in Nat \ {0}

VARIABLES
    once,           \* hookOnce
    hooker,         \* the thread that runs Hooks::hook
    data,           \* the pointer data: null, being set up, ready, null again
    at,             \* at[t]: where thread t is
    tested,         \* tested[t]: the hook that t is in tests data before it reports
    exiter,         \* the thread that runs the exit handlers
    libcLock,       \* the thread that holds a lock of the C library
    faultThread,    \* where hookThread is
    quits,          \* bytes in pfThreadPipe
    writers,        \* processes with the write end of emitPipe
    pipe,           \* packets in emitPipe
    parser,         \* where the parser process is
    overLimit,      \* it has stopped at its threshold
    child,          \* child[c]: the state of a forked process
    crashed         \* the thread that used data while it was null

threadVars == <<at, tested, libcLock>>
dataVars   == <<once, hooker, data>>
faultVars  == <<faultThread, quits>>
pipeVars   == <<writers, pipe>>
parserVars == <<parser, overLimit>>
vars == <<threadVars, dataVars, exiter, faultVars, pipeVars, parserVars, child, crashed>>

Init ==
    /\ once = "new" /\ hooker = Nobody /\ data = "null"
    /\ at = [t \in Thread |-> "out"] /\ tested = [t \in Thread |-> TRUE]
    /\ exiter = Nobody /\ libcLock = Nobody
    /\ faultThread = "none" /\ quits = 0
    /\ writers = {} /\ pipe = 0
    /\ parser = "none" /\ overLimit = FALSE
    /\ child = [c \in Child |-> "none"]
    /\ crashed = Nobody

Alive == \A t \in Thread : at[t] # "gone"

\* The kernel ends the traced process and closes what it had open.
End ==
    /\ at' = [t \in Thread |-> "gone"]
    /\ faultThread' = "gone"
    /\ libcLock' = Nobody
    /\ writers' = writers \ {Traced}

Go(t, place) == at' = [at EXCEPT ![t] = place]

\* Handlers that were registered before hookCleanup run after it.
Back(t) == Go(t, IF t = exiter THEN "after" ELSE "out")

-----------------------------------------------------------------------------
(* Hooks *)

InProgram(t) == at[t] \in {"out", "after"}

\* malloc, free and most others test data; the mapping functions,
\* pthread_setname_np and the free in reallocarray do not.
Call(t, test) ==
    /\ InProgram(t)
    /\ Go(t, "once")
    /\ tested' = [tested EXCEPT ![t] = test]
    /\ UNCHANGED <<dataVars, exiter, libcLock, faultVars, pipeVars, parserVars, child, crashed>>

OnceIgnored == TRUE
OnceDone    == once = "done"

Begin(t) ==
    /\ at[t] = "once" /\ OnceDone
    /\ Go(t, "body")
    /\ UNCHANGED <<dataVars, tested, exiter, libcLock, faultVars, pipeVars, parserVars, child,
                   crashed>>

\* The first in call_once: callbacks, then data and the pipe.
HookData(t) ==
    /\ at[t] = "once" /\ once = "new"
    /\ once' = "running" /\ hooker' = t
    /\ data' = "new" /\ writers' = {Traced}
    /\ UNCHANGED <<threadVars, exiter, faultVars, pipe, parserVars, child, crashed>>

ParserKeepsItsCopy  == writers \cup {"parser"}
ParserClosesItsCopy == writers

\* The parser's process closes its copy of the write end before it starts.
HookFork(t) ==
    /\ hooker = t /\ once = "running" /\ parser = "none"
    /\ parser' = "reading"
    /\ writers' = ParserClosesItsCopy
    /\ UNCHANGED <<threadVars, dataVars, exiter, faultVars, pipe, overLimit, child, crashed>>

\* The fault thread is started and hookCleanup registered.
HookThread(t) ==
    /\ hooker = t /\ once = "running" /\ parser # "none"
    /\ faultThread' = "poll" /\ data' = "ready" /\ once' = "done" /\ hooker' = Nobody
    /\ UNCHANGED <<threadVars, exiter, quits, pipeVars, parserVars, child, crashed>>

FindsNull(t) == tested[t] /\ data = "null"

Test(t) ==
    /\ at[t] = "body"
    /\ IF FindsNull(t) THEN Back(t) ELSE Go(t, "report")
    /\ UNCHANGED <<dataVars, tested, exiter, libcLock, faultVars, pipeVars, parserVars, child,
                   crashed>>

\* data-> is evaluated: the process may end here.
Use(t) ==
    /\ at[t] = "report"
    /\ IF data = "ready"
         THEN Go(t, "write") /\ UNCHANGED <<faultThread, libcLock, writers, crashed>>
         ELSE crashed' = t /\ End
    /\ UNCHANGED <<dataVars, tested, exiter, quits, pipe, parserVars, child>>

\* A packet that is written goes into the pipe, or nowhere once the parser has ended.
Packet ==
    \/ parser # "ended" /\ pipe < PipeSize /\ pipe' = pipe + 1
    \/ parser = "ended" /\ UNCHANGED pipe

\* Without a reader the write raises SIGPIPE, which the program may ignore; to a
\* pipe that hookCleanup has closed it fails.
Write(t) ==
    /\ at[t] = "write"
    /\ \/ Traced \in writers /\ Packet /\ Back(t) /\ UNCHANGED <<faultThread, libcLock, writers>>
       \/ Traced \in writers /\ parser = "ended" /\ End /\ UNCHANGED pipe
       \/ Traced \notin writers /\ Back(t) /\ UNCHANGED <<faultThread, libcLock, writers, pipe>>
    /\ UNCHANGED <<dataVars, tested, exiter, quits, parserVars, child, crashed>>

\* A registered page is touched, perhaps under a lock of the C library.
Touch(t, lock) ==
    /\ InProgram(t) /\ once = "done"
    /\ Go(t, "fault")
    /\ libcLock' = IF lock THEN t ELSE libcLock
    /\ lock => libcLock = Nobody
    /\ UNCHANGED <<dataVars, tested, exiter, faultVars, pipeVars, parserVars, child, crashed>>

-----------------------------------------------------------------------------
(* hookThread *)

\* The fault of t is read, reported and answered.
FaultAnswer(t) ==
    /\ faultThread = "poll" /\ at[t] = "fault"
    /\ Packet /\ Back(t)
    /\ libcLock' = IF libcLock = t THEN Nobody ELSE libcLock
    /\ UNCHANGED <<dataVars, tested, exiter, faultVars, writers, parserVars, child, crashed>>

ToldToQuit == quits > 0

FaultQuit ==
    /\ faultThread = "poll" /\ ToldToQuit
    /\ faultThread' = "ended"
    /\ UNCHANGED <<threadVars, dataVars, exiter, quits, pipeVars, parserVars, child, crashed>>

\* A handler of the program interrupts poll: hookThread returns.
PollFails ==
    /\ faultThread = "poll" /\ faultThread' = "ended"
    /\ UNCHANGED <<threadVars, dataVars, exiter, quits, pipeVars, parserVars, child, crashed>>

-----------------------------------------------------------------------------
(* exit and hookCleanup *)

Exit(t) ==
    /\ at[t] = "out" /\ exiter = Nobody /\ once = "done"
    /\ exiter' = t /\ quits' = quits + 1
    /\ Go(t, "join")
    /\ UNCHANGED <<dataVars, tested, libcLock, faultThread, pipeVars, parserVars, child, crashed>>

NotJoined == TRUE
Joined    == faultThread = "ended"

\* data is set to null and the write end closed.
CleanupClose(t) ==
    /\ at[t] = "join" /\ Joined
    /\ data' = "null" /\ writers' = writers \ {Traced}
    /\ Go(t, "wait")
    /\ UNCHANGED <<once, hooker, tested, exiter, libcLock, faultVars, pipe, parserVars, child, crashed>>

\* printf, waitpid, printf and delete
CleanupWait(t) ==
    /\ at[t] = "wait"
    /\ libcLock \in {Nobody, t} /\ parser = "ended"
    /\ Go(t, "after")
    /\ UNCHANGED <<dataVars, tested, exiter, libcLock, faultVars, pipeVars, parserVars, child,
                   crashed>>

\* The last exit handler has run; or the process ends without any: _exit, a signal.
Return(t) ==
    /\ at[t] = "after" /\ End
    /\ UNCHANGED <<dataVars, tested, exiter, quits, pipe, parserVars, child, crashed>>

Die ==
    /\ Alive /\ once = "done" /\ End
    /\ UNCHANGED <<dataVars, tested, exiter, quits, pipe, parserVars, child, crashed>>

-----------------------------------------------------------------------------
(* Forked processes: they have the hooks and both pipes, but not the fault thread *)

Fork(t, c) ==
    /\ at[t] = "out" /\ data = "ready" /\ child[c] = "none"
    /\ child' = [child EXCEPT ![c] = "forked"]
    /\ writers' = writers \cup {c}
    /\ UNCHANGED <<threadVars, dataVars, exiter, faultVars, pipe, parserVars, crashed>>

\* Its hooks report as the traced process.
ChildReports(c) ==
    /\ child[c] = "forked" /\ Packet
    /\ UNCHANGED <<threadVars, dataVars, exiter, faultVars, writers, parserVars, child, crashed>>

\* The pipes stay open across exec; the hooks do not, as LD_PRELOAD is not set.
ChildExec(c) ==
    /\ child[c] = "forked" /\ child' = [child EXCEPT ![c] = "exec"]
    /\ UNCHANGED <<threadVars, dataVars, exiter, faultVars, pipeVars, parserVars, crashed>>

ChildGone(c) ==
    /\ child' = [child EXCEPT ![c] = "gone"]
    /\ writers' = writers \ {c}

\* hookCleanup runs in the child: its byte goes to the traced process.  The
\* join and waitpid return at once, as neither the thread nor the parser is its own.
ChildExit(c) ==
    /\ child[c] = "forked" /\ ChildGone(c)
    /\ quits' = quits + 1
    /\ UNCHANGED <<threadVars, dataVars, exiter, faultThread, pipe, parserVars, crashed>>

ChildEnds(c) ==
    /\ child[c] \in {"forked", "exec"} /\ ChildGone(c)
    /\ UNCHANGED <<threadVars, dataVars, exiter, faultVars, pipe, parserVars, crashed>>

-----------------------------------------------------------------------------
(* The parser process *)

ParserRead ==
    /\ parser = "reading" /\ pipe > 0
    /\ pipe' = pipe - 1
    /\ \/ UNCHANGED parserVars
       \/ parser' = "cleanup" /\ overLimit' = TRUE
    /\ UNCHANGED <<threadVars, dataVars, exiter, faultVars, writers, child, crashed>>

AtEof == pipe = 0 /\ writers = {}

ParserEof ==
    /\ parser = "reading" /\ AtEof
    /\ parser' = "cleanup"
    /\ UNCHANGED <<threadVars, dataVars, exiter, faultVars, pipeVars, overLimit, child, crashed>>

\* Above the threshold the parser sends SIGABRT before it ends.
ParserEnd ==
    /\ parser = "cleanup" /\ parser' = "ended"
    /\ IF overLimit THEN End ELSE UNCHANGED <<at, faultThread, libcLock, writers>>
    /\ UNCHANGED <<tested, dataVars, exiter, quits, pipe, overLimit, child, crashed>>

-----------------------------------------------------------------------------
Hook(t) ==
    \/ Begin(t) \/ HookData(t) \/ HookFork(t) \/ HookThread(t) \/ Test(t) \/ Use(t) \/ Write(t)

Program(t) ==
    \/ \E test \in BOOLEAN : Call(t, test)
    \/ \E lock \in BOOLEAN : Touch(t, lock)
    \/ Exit(t) \/ \E c \in Child : Fork(t, c)

Cleanup(t) == CleanupClose(t) \/ CleanupWait(t) \/ Return(t)

ChildNext(c) == ChildReports(c) \/ ChildExec(c) \/ ChildExit(c) \/ ChildEnds(c)

FaultNext == FaultQuit \/ PollFails \/ \E t \in Thread : FaultAnswer(t)

ParserNext == ParserRead \/ ParserEof \/ ParserEnd

Next ==
    \/ \E t \in Thread : Hook(t) \/ Program(t) \/ Cleanup(t)
    \/ Die \/ FaultNext \/ ParserNext \/ \E c \in Child : ChildNext(c)

Spec == Init /\ [][Next]_vars

(* Threads that are in a hook or in exit, the fault thread and the parser
   run; a byte in pfThreadPipe is seen although faults keep coming, and a
   writer gets into the pipe in its turn.  Nobody has to call, exit or end. *)
LiveSpec ==
    /\ Spec
    /\ \A t \in Thread : SF_vars(Hook(t)) /\ WF_vars(Cleanup(t)) /\ SF_vars(FaultAnswer(t))
    /\ SF_vars(FaultQuit) /\ WF_vars(ParserNext)

-----------------------------------------------------------------------------
(* Properties *)

(* No hook uses data before Hooks::hook has completed it: other threads wait
   in call_once.  After exit has begun only two kinds of threads can: those
   other than the exiting one, and the exiting one in a function that does not
   test data. *)
DataComplete ==
    crashed # Nobody => exiter # Nobody /\ (crashed # exiter \/ ~tested[crashed])

(* While the fault thread runs, data and the pipe that it writes to exist. *)
FaultThreadHasData ==
    faultThread = "poll" => data = "ready" /\ Traced \in writers

InCleanup(t) == at[t] \in {"join", "wait"}

Forked(c) == child[c] \in {"forked", "exec"}

\* A thread that nobody answers any more holds a lock that hookCleanup needs.
LockStuck == libcLock # Nobody /\ faultThread = "ended"

(* hookCleanup returns, unless a forked process keeps the pipe open, or the
   fault thread has ended while a thread that waits for a page held a lock that
   is needed. *)
CleanupReturns ==
    \A t \in Thread : InCleanup(t) ~> (~InCleanup(t) \/ (\E c \in Child : Forked(c)) \/ LockStuck)

(* "ignore sigint, the parent will tell the child when it's time to quit": when
   hookCleanup has closed its end of the pipe, the parser quits. *)
ParserQuitsWhenTold ==
    (exiter # Nobody /\ data = "null") ~> parser = "ended"
=============================================================================
