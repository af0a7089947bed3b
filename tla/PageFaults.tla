----------------------------- MODULE PageFaults -----------------------------
(***************************************************************************)
(* The mapping hooks of the preload library, the kernel's userfaultfd, the *)
(* thread that answers page faults, the pipe, and what the parser makes of *)
(* the records: which pages it counts as resident.                         *)
(*                                                                         *)
(* Memory is a set of pages, readable and writable or not accessible at    *)
(* all.  Of the tracker only the pages it knows matter (PageMap, which     *)
(* MmapTracker implements).  A hook is the sequence of its steps: what the *)
(* kernel, the tracker under its spinlock, or the pipe does at once.       *)
(*                                                                         *)
(* The program is one that may touch memory while another thread discards  *)
(* or replaces it, but not unmap what others use, and that does not change *)
(* one range in two threads at a time.  Its calls succeed and are about    *)
(* ranges that are not empty: what a call of length 0 does to the tracker  *)
(* is in MmapTracker.                                                      *)
(***************************************************************************)
EXTENDS Integers, Sequences, Functions

CONSTANTS
    Thread,         \* threads of the traced process
    Page,
    Ranges,         \* the sets of pages that a call may be about
    PipeSize,       \* packets the pipe holds before a writer blocks
    MaxCalls        \* bound of the model: calls of mapping functions

ASSUME FaultsAssumption ==
    /\ Ranges \subseteq SUBSET Page
    /\ PipeSize \in Nat \ {0}
    /\ MaxCalls \in Nat
    /\ "faults" \notin Thread /\ "nobody" \notin Thread

VARIABLES
    mapped,         \* kernel: pages that are mapped
    rw,             \* kernel: pages that may be touched
    registered,     \* kernel: pages whose faults go to faultFd
    present,        \* kernel: pages with memory
    waiting,        \* waiting[t]: the page thread t is blocked on, as a set
    events,         \* kernel: pages with faults that faultFd has not handed out
    op,             \* op[t]: arguments of the call that t is in
    steps,          \* steps[t]: what that call has still to do
    tracked,        \* pages in Data::mmapTracker
    dirty,          \* Data::modulesDirty
    lister,         \* who holds the loader's lock in dl_iterate_phdr
    faultPc,        \* where hookThread is
    place,          \* the fault it is at, as a set
    broken,         \* faultFd has reported an error
    pipe,           \* records written and not yet read
    pageFaults,     \* Application::pageFaults
    mmaps,          \* Application::mmaps
    calls,          \* number of calls of mapping functions
    unfollowed,     \* history: pages that a hook did not track
    refused,        \* history: pages whose registration failed
    gaps,           \* history: pages the tracker did not add, as it knew a part of the range
    overlooked,     \* history: the same of the parser's tracker
    lost,           \* history: resident pages with no record, or a deleted one
    kept,           \* history: pages recorded before the kernel dropped them
    pulled          \* history: a mapping went away while a fault on it was under way

kernelVars  == <<mapped, rw, registered, present, waiting, events>>
hookVars    == <<op, steps, tracked>>
faultVars   == <<faultPc, place, broken>>
parserVars  == <<pageFaults, mmaps>>
historyVars == <<unfollowed, refused, gaps, overlooked, lost, kept, pulled>>
vars == <<kernelVars, hookVars, dirty, lister, faultVars, pipe, parserVars, calls, historyVars>>

NoOp == [range |-> {}, rw |-> FALSE, fixed |-> FALSE]

Init ==
    /\ mapped = {} /\ rw = {} /\ registered = {} /\ present = {}
    /\ waiting = [t \in Thread |-> {}] /\ events = {}
    /\ op = [t \in Thread |-> NoOp] /\ steps = [t \in Thread |-> <<>>] /\ tracked = {}
    /\ dirty = TRUE /\ lister = "nobody"
    /\ faultPc = "poll" /\ place = {} /\ broken = FALSE
    /\ pipe = <<>> /\ pageFaults = {} /\ mmaps = {} /\ calls = 0
    /\ unfollowed = {} /\ refused = {} /\ gaps = {} /\ overlooked = {} /\ lost = {} /\ kept = {} /\ pulled = FALSE

-----------------------------------------------------------------------------
(* Calls of the program *)

Ready(t) == steps[t] = <<>> /\ waiting[t] = {}

Counted == calls < MaxCalls /\ calls' = calls + 1

\* No other thread is changing the range.
Undisturbed(t, R) == \A u \in Thread \ {t} : op[u].range \cap R = {}

Enter(t, R, w, f, todo) ==
    /\ op' = [op EXCEPT ![t] = [range |-> R, rw |-> w, fixed |-> f]]
    /\ steps' = [steps EXCEPT ![t] = todo]

UnderWay == place \cup events

\* The kernel forgets the pages of R.
Forget(R) ==
    /\ registered' = registered \ R
    /\ present' = present \ R
    /\ lost' = lost \ (R \ place)
    /\ refused' = refused \ R
    /\ pulled' = (pulled \/ R \cap UnderWay # {})

NoRemoveSteps(fixed) == <<>>
RemoveSteps(fixed)   == IF fixed THEN <<"remove">> ELSE <<>>

MmapSteps(followed, w, fixed) ==
       (IF followed THEN <<"track">> ELSE <<>>)
    \o (IF followed /\ w THEN <<"register">> ELSE <<>>)
    \o (IF followed THEN RemoveSteps(fixed) ELSE <<>>)
    \o <<"list", "mmap">>

\* Only private anonymous mappings that are not made from inside another hook
\* are followed.
mmap(t, R, w, fixed, followed) ==
    /\ Ready(t) /\ Counted
    /\ IF fixed THEN Undisturbed(t, R) ELSE R \cap mapped = {}
    /\ mapped' = mapped \cup R
    /\ rw' = IF w THEN rw \cup R ELSE rw \ R
    /\ Forget(R)
    /\ unfollowed' = IF followed THEN unfollowed \ R ELSE unfollowed \cup R
    /\ gaps' = IF followed THEN gaps ELSE gaps \ R
    /\ kept' = IF fixed /\ ~followed THEN kept \cup R ELSE kept
    /\ Enter(t, R, w, fixed, MmapSteps(followed, w, fixed))
    /\ UNCHANGED <<waiting, events, tracked, dirty, lister, faultVars, pipe, parserVars, overlooked>>

UnmapFirst  == <<"track", "unmap", "munmap">>
MunmapSteps == <<"track", "munmap", "unmap">>

Starts(t, R) == R \subseteq mapped /\ Ready(t) /\ Undisturbed(t, R)

\* The program does not unmap what another thread is about to use.
munmap(t, R) ==
    /\ Starts(t, R) /\ Counted
    /\ \A u \in Thread : waiting[u] \cap R = {}
    /\ Enter(t, R, FALSE, FALSE, MunmapSteps)
    /\ UNCHANGED <<kernelVars, tracked, dirty, lister, faultVars, pipe, parserVars, historyVars>>

KnownByAll(R) == R \subseteq tracked
KnownByOne(R) == R \cap tracked # {}

ProtectSteps(R, w) ==
    (IF w /\ KnownByOne(R) THEN <<"register">> ELSE <<>>) \o <<"protect">>

\* The tracker is asked for the flags at once.
mprotect(t, R, w) ==
    /\ Starts(t, R) /\ Counted
    /\ Enter(t, R, w, FALSE, ProtectSteps(R, w))
    /\ UNCHANGED <<kernelVars, tracked, dirty, lister, faultVars, pipe, parserVars, historyVars>>

DropFirst    == <<"drop", "remove">>
MadviseSteps == <<"remove", "drop">>

madvise(t, R) ==
    /\ Starts(t, R) /\ Counted
    /\ Enter(t, R, FALSE, FALSE, MadviseSteps)
    /\ UNCHANGED <<kernelVars, tracked, dirty, lister, faultVars, pipe, parserVars, historyVars>>

\* dlopen and dlclose of some thread
MarkDirty ==
    /\ ~dirty /\ dirty' = TRUE
    /\ UNCHANGED <<kernelVars, hookVars, lister, faultVars, pipe, parserVars, calls, historyVars>>

-----------------------------------------------------------------------------
(* The steps of a call *)

At(t, step) == waiting[t] = {} /\ steps[t] # <<>> /\ Head(steps[t]) = step

Advance(t) ==
    /\ steps' = [steps EXCEPT ![t] = Tail(@)]
    /\ op' = IF Tail(steps[t]) = <<>> THEN [op EXCEPT ![t] = NoOp] ELSE op

\* MmapTracker::mmap: when a part of the range is known, the rest is not added.
KnownAfterMap(known, R) == IF known \cap R = {} THEN known \cup R ELSE known

Track(t) ==
    /\ At(t, "track")
    /\ LET R == op[t].range IN
        IF "mmap" \in Range(steps[t])
          THEN /\ tracked' = KnownAfterMap(tracked, R)
               /\ gaps' = (gaps \ R) \cup (R \ tracked')
          ELSE tracked' = tracked \ R /\ UNCHANGED gaps
    /\ Advance(t)
    /\ UNCHANGED <<kernelVars, dirty, lister, faultVars, pipe, parserVars, calls,
                   unfollowed, refused, overlooked, lost, kept, pulled>>

\* UFFDIO_REGISTER; it fails when faultFd is closed and may when the range
\* holds other kinds of memory.
Register(t) ==
    /\ At(t, "register")
    /\ \/ /\ faultPc # "ended"
          /\ registered' = registered \cup op[t].range
          /\ refused' = refused \ op[t].range
          /\ lost' = lost \cup (op[t].range \cap (present \ registered))
       \/ /\ faultPc = "ended" \/ op[t].range \cap unfollowed # {}
          /\ refused' = refused \cup op[t].range
          /\ UNCHANGED <<registered, lost>>
    /\ Advance(t)
    /\ UNCHANGED <<mapped, rw, present, waiting, events, tracked, dirty, lister, faultVars, pipe,
                   parserVars, calls, unfollowed, gaps, overlooked, kept, pulled>>

Protect(t) ==
    /\ At(t, "protect")
    /\ rw' = IF op[t].rw THEN rw \cup op[t].range ELSE rw \ op[t].range
    /\ Advance(t)
    /\ UNCHANGED <<mapped, registered, present, waiting, events, tracked, dirty, lister, faultVars,
                   pipe, parserVars, calls, historyVars>>

Unmap(t) ==
    /\ At(t, "unmap")
    /\ mapped' = mapped \ op[t].range /\ rw' = rw \ op[t].range
    /\ Forget(op[t].range)
    /\ unfollowed' = unfollowed \ op[t].range
    /\ gaps' = gaps \ op[t].range
    /\ Advance(t)
    /\ UNCHANGED <<waiting, events, tracked, dirty, lister, faultVars, pipe, parserVars, calls, overlooked,
                   kept>>

Drop(t) ==
    /\ At(t, "drop")
    /\ present' = present \ op[t].range
    /\ lost' = lost \ (op[t].range \ place)
    /\ Advance(t)
    /\ UNCHANGED <<mapped, rw, registered, waiting, events, tracked, dirty, lister, faultVars, pipe,
                   parserVars, calls, unfollowed, refused, gaps, overlooked, kept, pulled>>

Room == Len(pipe) < PipeSize

Write(type, R) == Room /\ pipe' = Append(pipe, [type |-> type, range |-> R])

\* The record deletes what has been recorded so far.
Remove(t) ==
    /\ At(t, "remove")
    /\ Write("PageRemove", op[t].range)
    /\ lost' = lost \cup (op[t].range \cap (place \cup IF op[t].fixed THEN present ELSE {}))
    /\ kept' = kept \ op[t].range
    /\ Advance(t)
    /\ UNCHANGED <<kernelVars, tracked, dirty, lister, faultVars, parserVars, calls, unfollowed,
                   refused, gaps, overlooked, pulled>>

EmitMmap(t) ==
    /\ At(t, "mmap")
    /\ Write("Mmap", op[t].range)
    /\ Advance(t)
    /\ UNCHANGED <<kernelVars, tracked, dirty, lister, faultVars, parserVars, calls, historyVars>>

EmitMunmap(t) ==
    /\ At(t, "munmap")
    /\ Write("Munmap", op[t].range)
    /\ lost' = lost \cup (op[t].range \cap place)
    /\ kept' = kept \ op[t].range
    /\ Advance(t)
    /\ UNCHANGED <<kernelVars, tracked, dirty, lister, faultVars, parserVars, calls, unfollowed,
                   refused, gaps, overlooked, pulled>>

\* dl_iterate_phdr holds a lock of the loader while it lists.
List(t) ==
    /\ At(t, "list")
    /\ IF dirty
         THEN /\ lister = "nobody" /\ lister' = t
              /\ steps' = [steps EXCEPT ![t] = <<"listed">> \o Tail(@)]
         ELSE steps' = [steps EXCEPT ![t] = Tail(@)] /\ UNCHANGED lister
    /\ UNCHANGED <<kernelVars, op, tracked, dirty, faultVars, pipe, parserVars, calls, historyVars>>

Listed(t) ==
    /\ At(t, "listed")
    /\ lister' = "nobody" /\ dirty' = FALSE
    /\ steps' = [steps EXCEPT ![t] = Tail(@)]
    /\ UNCHANGED <<kernelVars, op, tracked, faultVars, pipe, parserVars, calls, historyVars>>

-----------------------------------------------------------------------------
(* Touching memory *)

\* Nobody else uses memory that one thread is mapping or unmapping, unless it
\* replaces a mapping.
Private(u) == ~op[u].fixed /\ Range(steps[u]) \cap {"mmap", "unmap"} # {}

Usable(p) == p \in rw /\ \A u \in Thread : p \in op[u].range => ~Private(u)

\* The program touches a page, or the callback of dl_iterate_phdr its stack.
Touch(t, p) ==
    /\ Ready(t) \/ At(t, "listed")
    /\ Usable(p) /\ p \notin present
    /\ IF p \in registered
         THEN /\ waiting' = [waiting EXCEPT ![t] = {p}]
              /\ events' = events \cup {p}
              /\ UNCHANGED present
         ELSE present' = present \cup {p} /\ UNCHANGED <<waiting, events>>
    /\ UNCHANGED <<mapped, rw, registered, hookVars, dirty, lister, faultVars, pipe, parserVars,
                   calls, historyVars>>

-----------------------------------------------------------------------------
(* hookThread *)

\* The modules are listed first if they are dirty.
PollReturns ==
    /\ faultPc = "poll"
    /\ IF dirty
         THEN lister = "nobody" /\ lister' = "faults" /\ faultPc' = "list"
         ELSE faultPc' = "read" /\ UNCHANGED lister
    /\ UNCHANGED <<kernelVars, hookVars, dirty, place, pipe, parserVars, calls, historyVars>>

\* A timeout only polls again.
FaultPoll == events # {} /\ PollReturns /\ UNCHANGED broken

FaultListed ==
    /\ faultPc = "list"
    /\ lister' = "nobody" /\ dirty' = FALSE
    /\ faultPc' = "read"
    /\ UNCHANGED <<kernelVars, hookVars, place, broken, pipe, parserVars, calls, historyVars>>

\* Threads that have reported the range as gone and have not yet told the kernel.
AboutToDrop(p) ==
    \E u \in Thread : p \in op[u].range /\ steps[u] # <<>> /\ Head(steps[u]) \in {"drop", "unmap"}

\* The fault is read and reported; the stack is captured by a signal.
FaultReport(p) ==
    /\ faultPc = "read" /\ p \in events /\ ~broken
    /\ Write("PageFault", {p})
    /\ place' = {p}
    /\ events' = events \ {p}
    /\ kept' = IF AboutToDrop(p) THEN kept \cup {p} ELSE kept \ {p}
    /\ faultPc' = "zero"
    /\ UNCHANGED <<mapped, rw, registered, present, waiting, hookVars, dirty, lister, broken, parserVars,
                   calls, unfollowed, refused, gaps, overlooked, lost, pulled>>

NotWoken == waiting
Woken    == [t \in Thread |-> waiting[t] \ place]

\* UFFDIO_ZEROPAGE installs the page and wakes the threads that wait for it.
\* Their other faults on it are gone, but for one that may have been queued
\* again, by the signal, while the page came.
ZeroPage ==
    /\ faultPc = "zero" /\ place \subseteq (registered \ present)
    /\ present' = present \cup place
    /\ waiting' = Woken
    /\ events' \in {events \ place, events \cup place}
    /\ faultPc' = "poll" /\ place' = {}
    /\ UNCHANGED <<mapped, rw, registered, hookVars, dirty, lister, broken, pipe, parserVars, calls,
                   historyVars>>

GiveUp ==
    /\ registered' = {} /\ events' = {}
    /\ waiting' = [t \in Thread |-> {}]
    /\ faultPc' = "ended" /\ place' = {}

GoOn ==
    /\ faultPc' = "poll" /\ place' = {}
    /\ UNCHANGED <<registered, events, waiting>>

ExistsIsAnError == GiveUp
AfterExists     == GoOn

\* EEXIST
ZeroPageExists ==
    /\ faultPc = "zero" /\ place \subseteq (registered \cap present)
    /\ AfterExists
    /\ UNCHANGED <<mapped, rw, present, hookVars, dirty, lister, broken, pipe, parserVars, calls,
                   historyVars>>

\* Any other error, on a page that is gone or for want of memory, closes
\* faultFd, which ends all registrations and waits.
ZeroPageFails ==
    /\ faultPc = "zero" /\ broken' = (broken \/ place \subseteq registered)
    /\ GiveUp
    /\ UNCHANGED <<mapped, rw, present, hookVars, dirty, lister, pipe, parserVars, calls, historyVars>>

\* poll reported an error of faultFd, or read fails.
ReadFails ==
    /\ faultPc = "read" /\ broken' = TRUE
    /\ GiveUp
    /\ UNCHANGED <<mapped, rw, present, hookVars, dirty, lister, pipe, parserVars, calls, historyVars>>

(* What may go wrong while hookThread polls *)

\* POLLERR or POLLHUP
PollError == PollReturns /\ broken' = TRUE

\* poll is interrupted: a handler of the program ran on this thread, which
\* blocks no signals.  hookThread returns and leaves faultFd open.
PollFails ==
    /\ faultPc = "poll" /\ faultPc' = "returned"
    /\ UNCHANGED <<kernelVars, hookVars, dirty, lister, place, broken, pipe, parserVars, calls,
                   historyVars>>

-----------------------------------------------------------------------------
(* The parser: parsePacket *)

ParseRecord ==
    /\ pipe # <<>> /\ pipe' = Tail(pipe)
    /\ LET r == Head(pipe) IN
        \/ /\ r.type = "PageFault"
           /\ pageFaults' = pageFaults \cup r.range
           /\ UNCHANGED <<mmaps, overlooked>>
        \/ /\ r.type = "PageRemove"
           /\ pageFaults' = pageFaults \ r.range
           /\ UNCHANGED <<mmaps, overlooked>>
        \/ /\ r.type = "Mmap"
           /\ mmaps' = KnownAfterMap(mmaps, r.range)
           /\ overlooked' = (overlooked \ r.range) \cup (r.range \ mmaps')
           /\ UNCHANGED pageFaults
        \/ /\ r.type = "Munmap"
           /\ pageFaults' = pageFaults \ r.range
           /\ mmaps' = mmaps \ r.range
           /\ overlooked' = overlooked \ r.range
    /\ UNCHANGED <<kernelVars, hookVars, dirty, lister, faultVars, calls, unfollowed, refused, gaps, lost, kept,
                   pulled>>

-----------------------------------------------------------------------------
Call(t) ==
    \E R \in Ranges :
        \/ \E w, fixed, followed \in BOOLEAN : mmap(t, R, w, fixed, followed)
        \/ munmap(t, R)
        \/ \E w \in BOOLEAN : mprotect(t, R, w)
        \/ madvise(t, R)

Step(t) ==
    \/ Track(t) \/ Register(t) \/ Remove(t) \/ EmitMmap(t) \/ EmitMunmap(t) \/ List(t) \/ Listed(t)
    \/ Protect(t) \/ Unmap(t) \/ Drop(t)

FaultThread ==
    \/ FaultPoll \/ FaultListed \/ \E p \in Page : FaultReport(p)
    \/ ZeroPage \/ ZeroPageExists \/ ZeroPageFails \/ ReadFails

PollGoesWrong == PollError \/ PollFails

Next ==
    \/ \E t \in Thread : Call(t) \/ Step(t) \/ \E p \in Page : Touch(t, p)
    \/ MarkDirty \/ FaultThread \/ PollGoesWrong \/ ParseRecord

Spec == Init /\ [][Next]_vars

(* The threads are scheduled, the kernel hands out every fault in its turn,
   and the parser reads; nobody has to call, touch memory or load libraries,
   and poll need not go wrong. *)
LiveSpec ==
    /\ Spec
    /\ WF_vars(FaultThread) /\ WF_vars(ParseRecord)
    /\ \A p \in Page : SF_vars(FaultReport(p))
    /\ \A t \in Thread : WF_vars(Step(t))

-----------------------------------------------------------------------------
(* Properties *)

\* Every report has arrived and the fault thread reads none, be it at poll,
\* be it that it has returned.
Quiet ==
    /\ \A t \in Thread : Ready(t)
    /\ events = {} /\ faultPc \in {"poll", "returned", "ended"} /\ pipe = <<>>

(* When every report has arrived, each resident page of memory that is
   followed is counted, unless its record was deleted by an madvise, a munmap
   or a fixed mmap that reported while the fault was being answered, or by a
   fixed mmap on whose new pages another thread already worked; or it was
   resident before its range was registered at all. *)
NoMissedPage == Quiet => registered \cap present \subseteq pageFaults \cup lost

(* When every report has arrived and faultFd is open, each page counted is
   resident, unless its fault was reported between the report that a range is
   gone and its end, or a mapping that is not followed has replaced its
   mapping. *)
NoFalsePage == Quiet /\ faultPc # "ended" => pageFaults \subseteq present \cup kept

(* Memory the program can write is registered while faultFd is open, so that
   the kernel reports its faults, unless no hook followed the mapping, the
   tracker did not add the page, or the range was refused because of memory
   that is not followed. *)
WritableIsRegistered ==
    Quiet /\ faultPc # "ended" => rw \subseteq registered \cup unfollowed \cup refused \cup gaps

(* When every report has arrived, the parser's mappings are the program's,
   but for those that the tracker does not add to a range it knows in part:
   in particular an address that is unmapped in one thread and mapped again by
   the kernel for another is not lost. *)
MappingsAgree == Quiet => mmaps \subseteq mapped /\ mapped \subseteq mmaps \cup overlooked

(* faultFd is closed only after a mapping was replaced or unmapped while a
   fault on it was under way, or after an error of faultFd itself. *)
GivesUpOnlyIfPulled == faultPc = "ended" => pulled \/ broken

\* A thread faults inside dl_iterate_phdr, where it holds the loader's lock
\* and the modules are still dirty.
ListerFaulted == \E t \in Thread : lister = t /\ waiting[t] # {}

(* A thread that waits for a page goes on.  It may wait for ever if it faults
   in the callback of dl_iterate_phdr - the fault thread then waits for the
   loader's lock -, if its mapping was replaced meanwhile, or if the fault
   thread has returned because its poll was interrupted.  An error of faultFd
   leaves nobody waiting: closing it ends the waits. *)
FaultsAreAnswered ==
    \A t \in Thread :
        waiting[t] # {} ~> (waiting[t] = {} \/ ListerFaulted \/ pulled \/ faultPc = "returned")
=============================================================================
