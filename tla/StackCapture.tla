---------------------------- MODULE StackCapture ----------------------------
(***************************************************************************)
(* How the fault thread gets the stack of a thread that is blocked in a    *)
(* page fault: it claims a slot, sends SIGUSR1, and waits until the        *)
(* handler, run by the faulting thread, has filled the slot.  A page fault *)
(* in user mode is interrupted by the signal and taken again after it; one *)
(* in a system call is not.                                                *)
(*                                                                         *)
(* A fault is a number.  What the handler stores of a stack is the fault   *)
(* that its thread is at, 0 if it is at none.                              *)
(***************************************************************************)
EXTENDS Integers, FiniteSets

CONSTANTS
    Thread,         \* threads of the traced process
    Slot,           \* SigDatas
    NoThread,
    MaxFaults,      \* bound of the model: page faults
    MaxOutsiders    \* bound of the model: SIGUSR1 that mtrack did not send

ASSUME CaptureAssumption ==
    /\ NoThread \notin Thread
    /\ MaxFaults \in Nat /\ MaxOutsiders \in Nat

Fault == 0 .. MaxFaults

VARIABLES
    state,          \* state[t]: what thread t does
    fault,          \* fault[t]: the fault that t is at, or 0
    events,         \* threads with a fault that faultFd has not handed out
    masked,         \* threads that block SIGUSR1
    pending,        \* threads with a SIGUSR1 to come
    found,          \* found[t]: sigData in handler, as a set
    action,         \* who handles SIGUSR1
    ptid,           \* SigData::ptid
    handled,        \* SigData::handled
    stack,          \* SigData::stack
    pc,             \* where the fault thread is in Stack::Stack and around it
    target,         \* parameter ptid
    handling,       \* the fault that the fault thread has read
    slot,           \* local sigData, as a set
    copy,           \* Stack::mPtrs
    crashed,        \* the handler used a slot that it did not find
    faults,         \* number of faults
    outsiders,      \* number of SIGUSR1 from elsewhere
    strayed,        \* history: faults left by a jump out of another signal's handler
    doubled         \* history: SIGUSR1 came from elsewhere at a thread in a fault, or asked for its stack

threadVars == <<state, fault, events, masked>>
slotVars   == <<ptid, handled, stack>>
captureVars == <<pc, target, handling, slot, copy>>
counts     == <<faults, outsiders, strayed, doubled>>
vars == <<threadVars, pending, found, action, slotVars, captureVars, crashed, counts>>

Init ==
    /\ state = [t \in Thread |-> "running"] /\ fault = [t \in Thread |-> 0]
    /\ events = {} /\ masked = {} /\ pending = {}
    /\ found = [t \in Thread |-> {}] /\ action = "default"
    /\ ptid = [s \in Slot |-> NoThread] /\ handled = [s \in Slot |-> FALSE]
    /\ stack = [s \in Slot |-> 0]
    /\ pc = "idle" /\ target = NoThread /\ handling = 0 /\ slot = {} /\ copy = 0
    /\ crashed = FALSE /\ faults = 0 /\ outsiders = 0 /\ strayed = {} /\ doubled = FALSE

-----------------------------------------------------------------------------
(* Threads of the program *)

TakeFault(t, how) ==
    /\ state[t] = "running" /\ faults < MaxFaults
    /\ faults' = faults + 1
    /\ fault' = [fault EXCEPT ![t] = faults + 1]
    /\ state' = [state EXCEPT ![t] = how]
    /\ events' = events \cup {t}
    /\ doubled' = (doubled \/ (t \in pending /\ t # target))
    /\ UNCHANGED <<masked, pending, found, action, slotVars, captureVars, crashed, outsiders,
                   strayed>>

Mask(t) ==
    /\ state[t] = "running" /\ t \notin masked
    /\ masked' = masked \cup {t}
    /\ UNCHANGED <<state, fault, events, pending, found, action, slotVars, captureVars, crashed,
                   counts>>

\* The program installs a handler of its own.
OwnHandler ==
    /\ action # "program" /\ action' = "program"
    /\ UNCHANGED <<threadVars, pending, found, slotVars, captureVars, crashed, counts>>

\* Another signal interrupts the fault and its handler jumps elsewhere.
Stray(t) ==
    /\ state[t] = "faulting"
    /\ state' = [state EXCEPT ![t] = "running"]
    /\ fault' = [fault EXCEPT ![t] = 0]
    /\ events' = events \ {t}
    /\ strayed' = strayed \cup {fault[t]}
    /\ UNCHANGED <<masked, pending, found, action, slotVars, captureVars, crashed, faults,
                   outsiders, doubled>>

Exit(t) ==
    /\ state[t] = "running"
    /\ state' = [state EXCEPT ![t] = "gone"]
    /\ pending' = pending \ {t}
    /\ UNCHANGED <<fault, events, masked, found, action, slotVars, captureVars, crashed, counts>>

\* While nobody has installed a handler the signal ends the process.
Outsider(t) ==
    /\ outsiders < MaxOutsiders /\ outsiders' = outsiders + 1
    /\ action # "default" /\ state[t] # "gone"
    /\ pending' = pending \cup {t}
    /\ doubled' = (doubled \/ fault[t] # 0 \/ t = target)
    /\ UNCHANGED <<threadVars, found, action, slotVars, captureVars, crashed, faults, strayed>>

-----------------------------------------------------------------------------
(* handler *)

SlotsOf(t) == {s \in Slot : ptid[s] = t}

\* A thread blocked in a system call handles no signal before its page comes.
Deliverable(t) == t \in pending \ masked /\ state[t] \in {"running", "faulting"}

Enter(t) ==
    /\ Deliverable(t) /\ action = "mtrack"
    /\ pending' = pending \ {t}
    /\ events' = events \ {t}
    /\ state' = [state EXCEPT ![t] = "handler"]
    /\ IF SlotsOf(t) = {}
         THEN crashed' = TRUE /\ UNCHANGED found
         ELSE \E s \in SlotsOf(t) : found' = [found EXCEPT ![t] = {s}] /\ UNCHANGED crashed
    /\ UNCHANGED <<fault, masked, action, slotVars, captureVars, counts>>

\* The program's handler returns; the fault is taken again.
EnterOther(t) ==
    /\ Deliverable(t) /\ action = "program"
    /\ pending' = pending \ {t}
    /\ UNCHANGED <<threadVars, found, action, slotVars, captureVars, crashed, counts>>

Unwind(t) ==
    /\ state[t] = "handler"
    /\ stack' = [s \in Slot |-> IF s \in found[t] THEN fault[t] ELSE stack[s]]
    /\ state' = [state EXCEPT ![t] = "unwound"]
    /\ UNCHANGED <<fault, events, masked, pending, found, action, ptid, handled, captureVars, crashed,
                   counts>>

\* Unwinding touches a page that is not there either.  The signal is blocked in
\* its own handler: the stack of this second fault cannot be had.
UnwindFaults(t) ==
    /\ state[t] = "handler"
    /\ state' = [state EXCEPT ![t] = "stuck"]
    /\ UNCHANGED <<fault, events, masked, pending, found, action, slotVars, captureVars, crashed,
                   counts>>

ForgetToNotify(t) == handled
Notified(t)       == [s \in Slot |-> s \in found[t] \/ handled[s]]

\* Waiter::notify, and the return to the instruction that faulted.
Notify(t) ==
    /\ state[t] = "unwound"
    /\ handled' = Notified(t)
    /\ found' = [found EXCEPT ![t] = {}]
    /\ IF fault[t] # 0
         THEN state' = [state EXCEPT ![t] = "faulting"] /\ events' = events \cup {t}
         ELSE state' = [state EXCEPT ![t] = "running"] /\ UNCHANGED events
    /\ UNCHANGED <<fault, masked, pending, action, ptid, stack, captureVars, crashed, counts>>

-----------------------------------------------------------------------------
(* The fault thread: hookThread and Stack::Stack with a ptid *)

ReadFault(t) ==
    /\ pc = "idle" /\ t \in events
    /\ events' = events \ {t}
    /\ target' = t /\ handling' = fault[t] /\ pc' = "claim"
    /\ action' = IF action = "default" THEN "mtrack" ELSE action
    /\ UNCHANGED <<state, fault, masked, pending, found, slotVars, slot, copy, crashed, counts>>

NothingStored(s) == ptid
PtidStored(s)    == [ptid EXCEPT ![s] = target]

\* The compare-and-exchange may fail for no reason, so that any free slot is possible.
Claim(s) ==
    /\ pc = "claim" /\ ptid[s] = NoThread
    /\ ptid' = PtidStored(s)
    /\ slot' = {s} /\ pc' = "kill"
    /\ UNCHANGED <<threadVars, pending, found, action, handled, stack, target, handling, copy,
                   crashed, counts>>

Tkill ==
    /\ pc = "kill"
    /\ pending' = pending \cup {t \in {target} : state[t] # "gone"}
    /\ pc' = "wait"
    /\ UNCHANGED <<threadVars, found, action, slotVars, target, handling, slot, copy, crashed, counts>>

FlagRead  == handled
FlagTaken == [s \in Slot |-> handled[s] /\ s \notin slot]

\* Waiter::wait
Wait ==
    /\ pc = "wait" /\ \E s \in slot : handled[s]
    /\ handled' = FlagTaken
    /\ pc' = "copy"
    /\ UNCHANGED <<threadVars, pending, found, action, ptid, stack, target, handling, slot, copy,
                   crashed, counts>>

Copy ==
    /\ pc = "copy"
    /\ \E s \in slot : copy' = stack[s]
    /\ pc' = "release"
    /\ UNCHANGED <<threadVars, pending, found, action, slotVars, target, handling, slot, crashed,
                   counts>>

NotFreed == ptid
Freed    == [s \in Slot |-> IF s \in slot THEN NoThread ELSE ptid[s]]

Release ==
    /\ pc = "release"
    /\ ptid' = Freed
    /\ slot' = {} /\ pc' = "zero"
    /\ UNCHANGED <<threadVars, pending, found, action, handled, stack, target, handling, copy,
                   crashed, counts>>

\* The record is written; then the page comes, and whoever waits for it goes on.
ZeroPage ==
    /\ pc = "zero"
    /\ fault' = [t \in Thread |-> IF fault[t] = handling THEN 0 ELSE fault[t]]
    /\ state' = [t \in Thread |->
                    IF fault[t] = handling /\ state[t] \in {"faulting", "syscall"} THEN "running" ELSE state[t]]
    /\ events' = {t \in events : fault[t] # handling}
    /\ pc' = "idle" /\ handling' = 0 /\ target' = NoThread /\ copy' = 0
    /\ UNCHANGED <<masked, pending, found, action, slotVars, slot, crashed, counts>>

-----------------------------------------------------------------------------
Program(t) ==
    \/ \E how \in {"faulting", "syscall"} : TakeFault(t, how)
    \/ Mask(t) \/ Stray(t) \/ Exit(t) \/ Outsider(t) \/ UnwindFaults(t)

Handler(t) == Enter(t) \/ EnterOther(t) \/ Unwind(t) \/ Notify(t)

FaultThread ==
    \/ \E t \in Thread : ReadFault(t)
    \/ \E s \in Slot : Claim(s)
    \/ Tkill \/ Wait \/ Copy \/ Release \/ ZeroPage

Next ==
    /\ ~crashed
    /\ (\E t \in Thread : Program(t) \/ Handler(t)) \/ OwnHandler \/ FaultThread

Spec == Init /\ [][Next]_vars

(* The fault thread runs, and a thread with a signal that can be delivered
   handles it. *)
LiveSpec ==
    /\ Spec
    /\ WF_vars(~crashed /\ FaultThread)
    /\ \A t \in Thread : WF_vars(~crashed /\ Handler(t))

-----------------------------------------------------------------------------
(* Properties *)

(* The variables hold what the code can put in them. *)
TypeOK ==
    /\ state \in [Thread -> {"running", "faulting", "syscall", "handler", "unwound", "stuck", "gone"}]
    /\ fault \in [Thread -> Fault] /\ events \in SUBSET Thread
    /\ masked \in SUBSET Thread /\ pending \in SUBSET Thread
    /\ found \in [Thread -> SUBSET Slot] /\ action \in {"default", "mtrack", "program"}
    /\ ptid \in [Slot -> Thread \cup {NoThread}] /\ handled \in [Slot -> BOOLEAN]
    /\ stack \in [Slot -> Fault]
    /\ pc \in {"idle", "claim", "kill", "wait", "copy", "release", "zero"}
    /\ target \in Thread \cup {NoThread} /\ (pc # "idle" => target \in Thread)
    /\ handling \in Fault
    /\ slot \in SUBSET Slot /\ copy \in Fault
    /\ crashed \in BOOLEAN /\ faults \in 0 .. MaxFaults /\ outsiders \in 0 .. MaxOutsiders
    /\ strayed \in SUBSET Fault /\ doubled \in BOOLEAN

(* The stack that goes into a PageFault record is the one that the thread had
   at this fault - not one left in the slot by an earlier capture, and not one
   that a handler is still writing; unless the thread has left the fault, or
   got a second SIGUSR1. *)
StackOfThisFault ==
    ~doubled =>
        /\ pc = "copy" => \A t \in Thread : found[t] \cap slot = {}
        /\ pc = "release" => copy = handling \/ handling \in strayed

(* A slot is given back as soon as it has been copied, whatever signals come:
   a capture finds its slot free although there are only so many. *)
SlotsGivenBack ==
    \A s \in Slot : ptid[s] # NoThread => s \in slot /\ pc \in {"kill", "wait", "copy", "release"}

(* The handler always finds its slot, if all SIGUSR1 are mtrack's. *)
HandlerFindsSlot == crashed => outsiders > 0

\* The signal is not answered while the thread is in a system call, blocks it,
\* faults in the handler, is gone, or the handler is not mtrack's.
Unanswerable ==
    \/ target \in masked \/ action = "program"
    \/ state[target] \in {"syscall", "stuck", "gone"}

(* The fault thread does not wait for ever for a stack, and with it every
   thread that faults, except in the five cases of Unanswerable. *)
CaptureEnds == pc = "wait" ~> (pc # "wait" \/ Unanswerable \/ crashed)
=============================================================================
