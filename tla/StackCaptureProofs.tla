------------------------- MODULE StackCaptureProofs -------------------------
(* Theorems about StackCapture, for any number of threads and slots. *)
EXTENDS StackCapture, TLAPS

(* Type correctness: in particular the fault thread has a thread to ask in
   every capture. *)
THEOREM TypeCorrect == Spec => []TypeOK
<1>1. Init => TypeOK
  <2> SUFFICES ASSUME Init PROVE TypeOK
    OBVIOUS
  <2>1. handled \in [Slot -> BOOLEAN]
    BY Zenon DEF Init
  <2>2. found \in [Thread -> SUBSET Slot]
    BY DEF Init
  <2>3. ptid \in [Slot -> Thread \cup {NoThread}] /\ stack \in [Slot -> Fault]
    BY CaptureAssumption DEF CaptureAssumption, Init, Fault
  <2>4. /\ state \in [Thread -> {"running", "faulting", "syscall", "handler", "unwound", "stuck", "gone"}]
        /\ fault \in [Thread -> Fault]
    BY CaptureAssumption DEF CaptureAssumption, Init, Fault
  <2>5. /\ faults \in 0 .. MaxFaults /\ outsiders \in 0 .. MaxOutsiders
        /\ handling \in Fault /\ copy \in Fault
    BY CaptureAssumption DEF CaptureAssumption, Init, Fault
  <2>6. QED
    BY <2>1, <2>2, <2>3, <2>4, <2>5 DEF Init, TypeOK
<1>2. TypeOK /\ [Next]_vars => TypeOK'
  <2> SUFFICES ASSUME TypeOK, [Next]_vars PROVE TypeOK'
    OBVIOUS
  <2> USE CaptureAssumption DEF CaptureAssumption, TypeOK, Fault, threadVars, slotVars, captureVars, counts
  <2>1. ASSUME NEW t \in Thread, NEW how \in {"faulting", "syscall"}, TakeFault(t, how) PROVE TypeOK'
    BY <2>1 DEF TakeFault
  <2>2. ASSUME NEW t \in Thread, Mask(t) PROVE TypeOK'
    BY <2>2 DEF Mask
  <2>3. ASSUME NEW t \in Thread, Stray(t) PROVE TypeOK'
    <3>1. strayed' \in SUBSET Fault
      BY <2>3 DEF Stray
    <3>2. QED
      BY <2>3, <3>1 DEF Stray
  <2>4. ASSUME NEW t \in Thread, Exit(t) PROVE TypeOK'
    BY <2>4 DEF Exit
  <2>5. ASSUME NEW t \in Thread, Outsider(t) PROVE TypeOK'
    BY <2>5 DEF Outsider
  <2>6. ASSUME NEW t \in Thread, UnwindFaults(t) PROVE TypeOK'
    BY <2>6 DEF UnwindFaults
  <2>7. ASSUME NEW t \in Thread, Enter(t) PROVE TypeOK'
    <3>1. CASE SlotsOf(t) = {}
      BY <2>7, <3>1 DEF Enter
    <3>2. CASE SlotsOf(t) # {}
      <4>1. PICK s \in SlotsOf(t) : found' = [found EXCEPT ![t] = {s}]
        BY <2>7, <3>2 DEF Enter
      <4>2. s \in Slot
        BY <4>1 DEF SlotsOf
      <4>3. found' \in [Thread -> SUBSET Slot]
        BY <4>1, <4>2
      <4>4. crashed' = crashed
        BY <2>7, <3>2 DEF Enter
      <4>5. QED
        BY <2>7, <4>3, <4>4 DEF Enter
    <3>3. QED
      BY <3>1, <3>2
  <2>8. ASSUME NEW t \in Thread, EnterOther(t) PROVE TypeOK'
    BY <2>8 DEF EnterOther
  <2>9. ASSUME NEW t \in Thread, Unwind(t) PROVE TypeOK'
    BY <2>9 DEF Unwind
  <2>10. ASSUME NEW t \in Thread, Notify(t) PROVE TypeOK'
    BY <2>10 DEF Notify, Notified
  <2>11. ASSUME NEW t \in Thread, ReadFault(t) PROVE TypeOK'
    BY <2>11 DEF ReadFault
  <2>12. ASSUME NEW s \in Slot, Claim(s) PROVE TypeOK'
    BY <2>12 DEF Claim, PtidStored
  <2>13. CASE Tkill
    <3>1. pending' \in SUBSET Thread
      BY <2>13 DEF Tkill
    <3>2. QED
      BY <2>13, <3>1 DEF Tkill
  <2>14. CASE Wait
    BY <2>14 DEF Wait, FlagTaken
  <2>15. CASE Copy
    BY <2>15 DEF Copy
  <2>16. CASE Release
    BY <2>16 DEF Release, Freed
  <2>17. CASE ZeroPage
    BY <2>17 DEF ZeroPage
  <2>18. CASE OwnHandler
    BY <2>18 DEF OwnHandler
  <2>19. CASE UNCHANGED vars
    BY <2>19 DEF vars
  <2>20. QED
    BY <2>1, <2>2, <2>3, <2>4, <2>5, <2>6, <2>7, <2>8, <2>9, <2>10, <2>11, <2>12, <2>13, <2>14,
       <2>15, <2>16, <2>17, <2>18, <2>19 DEF Next, Program, Handler, FaultThread
<1>3. QED
  BY <1>1, <1>2, PTL DEF Spec
-----------------------------------------------------------------------------
LEMMA SlotsStep ==
  ASSUME TypeOK, SlotsGivenBack, [Next]_vars
  PROVE  SlotsGivenBack'
<1> USE DEF TypeOK, SlotsGivenBack, threadVars, slotVars, captureVars, counts
<1>1. ASSUME NEW t \in Thread, Program(t) PROVE SlotsGivenBack'
  BY <1>1 DEF Program, TakeFault, Mask, Stray, Exit, Outsider, UnwindFaults
<1>2. ASSUME NEW t \in Thread, Handler(t) PROVE SlotsGivenBack'
  BY <1>2 DEF Handler, Enter, EnterOther, Unwind, Notify
<1>3. ASSUME NEW t \in Thread, ReadFault(t) PROVE SlotsGivenBack'
  BY <1>3 DEF ReadFault
<1>4. ASSUME NEW s \in Slot, Claim(s) PROVE SlotsGivenBack'
  BY <1>4 DEF Claim, PtidStored
<1>5. CASE Tkill
  BY <1>5 DEF Tkill
<1>6. CASE Wait \/ Copy
  BY <1>6 DEF Wait, Copy
<1>7. CASE Release
  BY <1>7 DEF Release, Freed
<1>8. CASE ZeroPage
  BY <1>8 DEF ZeroPage
<1>9. CASE OwnHandler \/ UNCHANGED vars
  BY <1>9 DEF OwnHandler, vars
<1>10. QED
  BY <1>1, <1>2, <1>3, <1>4, <1>5, <1>6, <1>7, <1>8, <1>9 DEF Next, FaultThread

(* Slots are given back: Stack::Stack stores 0 in the slot that it claimed,
   whatever the threads and their signals do. *)
THEOREM SlotsAlwaysGivenBack == Spec => []SlotsGivenBack
<1>1. Init => SlotsGivenBack
  BY DEF Init, SlotsGivenBack
<1>2. QED
  BY <1>1, TypeCorrect, SlotsStep, PTL DEF Spec

-----------------------------------------------------------------------------
InHandler(t) == found[t] # {} \/ state[t] \in {"handler", "unwound", "stuck"}

(* A capture in which all signals are mtrack's goes through four phases: the
   slot is claimed, the signal is pending, the handler runs, the flag is set. *)
OwnSignals ==
    outsiders = 0 =>
        /\ ~crashed
        /\ pc \in {"kill", "wait"} => slot # {} /\ \A s \in slot : ptid[s] = target
        /\ \A t \in Thread : t \in pending \/ InHandler(t) => pc = "wait" /\ t = target
        /\ \A t \in Thread : found[t] \subseteq slot
        /\ \A t \in pending : ~InHandler(t)
        /\ \A s \in Slot : handled[s] =>
                pc = "wait" /\ s \in slot /\ pending = {} /\ \A t \in Thread : ~InHandler(t)

LEMMA OwnSignalsStep ==
  ASSUME TypeOK, SlotsGivenBack, OwnSignals, [Next]_vars
  PROVE  OwnSignals'
<1> SUFFICES ASSUME outsiders' = 0 PROVE OwnSignals'
  BY DEF OwnSignals
<1> USE DEF TypeOK, OwnSignals, InHandler, threadVars, slotVars, captureVars, counts
<1>1. ASSUME NEW t \in Thread, NEW how \in {"faulting", "syscall"}, TakeFault(t, how) PROVE OwnSignals'
  BY <1>1 DEF TakeFault
<1>2. ASSUME NEW t \in Thread, Mask(t) \/ Stray(t) \/ Exit(t) PROVE OwnSignals'
  BY <1>2 DEF Mask, Stray, Exit
<1>3. ASSUME NEW t \in Thread, Outsider(t) PROVE OwnSignals'
  BY <1>3 DEF Outsider
<1>4. ASSUME NEW t \in Thread, UnwindFaults(t) PROVE OwnSignals'
  BY <1>4 DEF UnwindFaults
<1>5. ASSUME NEW t \in Thread, Enter(t) PROVE OwnSignals'
  <2>1. t \in pending /\ t = target /\ pc = "wait" /\ outsiders = 0
    BY <1>5 DEF Enter, Deliverable
  <2>2. SlotsOf(t) # {} /\ SlotsOf(t) \subseteq slot
    <3>1. PICK s \in slot : ptid[s] = t
      BY <2>1
    <3>2. s \in SlotsOf(t)
      BY <3>1 DEF SlotsOf
    <3>3. \A r \in SlotsOf(t) : r \in slot
      BY CaptureAssumption DEF CaptureAssumption, SlotsOf, SlotsGivenBack
    <3>4. QED
      BY <3>2, <3>3
  <2>3. PICK s \in SlotsOf(t) : found' = [found EXCEPT ![t] = {s}] /\ UNCHANGED crashed
    BY <1>5, <2>2 DEF Enter
  <2>4. pending' = {}
    BY <1>5, <2>1 DEF Enter
  <2>5. QED
    BY <1>5, <2>1, <2>2, <2>3, <2>4 DEF Enter
<1>6. ASSUME NEW t \in Thread, EnterOther(t) PROVE OwnSignals'
  BY <1>6 DEF EnterOther
<1>7. ASSUME NEW t \in Thread, Unwind(t) PROVE OwnSignals'
  BY <1>7 DEF Unwind
<1>8. ASSUME NEW t \in Thread, Notify(t) PROVE OwnSignals'
  <2>1. t = target /\ pc = "wait" /\ pending = {} /\ outsiders = 0
    BY <1>8 DEF Notify
  <2>2. \A u \in Thread : ~InHandler(u)'
    BY <1>8, <2>1 DEF Notify
  <2>3. \A s \in Slot : handled'[s] => s \in slot
    BY <1>8, <2>1 DEF Notify, Notified
  <2>4. QED
    BY <1>8, <2>1, <2>2, <2>3 DEF Notify
<1>9. ASSUME NEW t \in Thread, ReadFault(t) PROVE OwnSignals'
  BY <1>9 DEF ReadFault
<1>10. ASSUME NEW s \in Slot, Claim(s) PROVE OwnSignals'
  BY <1>10 DEF Claim, PtidStored
<1>11. CASE Tkill
  BY <1>11 DEF Tkill
<1>12. CASE Wait
  BY <1>12 DEF Wait, FlagTaken
<1>13. CASE Copy \/ Release
  BY <1>13 DEF Copy, Release, Freed
<1>14. CASE ZeroPage
  BY <1>14 DEF ZeroPage
<1>15. CASE OwnHandler \/ UNCHANGED vars
  BY <1>15 DEF OwnHandler, vars
<1>16. QED
  BY <1>1, <1>2, <1>3, <1>4, <1>5, <1>6, <1>7, <1>8, <1>9, <1>10, <1>11, <1>12, <1>13, <1>14, <1>15
     DEF Next, Program, Handler, FaultThread

(* handler never dereferences the null pointer of a failed findSigData, as
   long as nobody else sends SIGUSR1: the slot is claimed before the signal is
   sent and not released before the handler has ended. *)
THEOREM HandlerAlwaysFindsSlot == Spec => []HandlerFindsSlot
<1>1. Init => OwnSignals
  BY DEF Init, OwnSignals, InHandler
<1>2. TypeOK /\ OwnSignals => HandlerFindsSlot
  BY DEF TypeOK, OwnSignals, HandlerFindsSlot
<1>3. QED
  BY <1>1, <1>2, TypeCorrect, SlotsAlwaysGivenBack, OwnSignalsStep, PTL DEF Spec

-----------------------------------------------------------------------------
Genuine(n) == n = handling \/ handling \in strayed

Capturing == pc \in {"kill", "wait", "copy", "release"}

(* As long as no SIGUSR1 came from elsewhere at a thread in a fault, a signal
   at such a thread is the one of the capture that is under way, and so is
   the handler that runs.  The flag is set after both, and found set only
   by a wait for them. *)
Signalled ==
    ~doubled /\ ~crashed =>
        /\ Capturing => \E s \in Slot : slot = {s} /\ ptid[s] = target
        /\ pc # "idle" => handling # 0
        /\ \A t \in Thread :
            /\ t \in events => fault[t] # 0
            /\ state[t] = "running" => fault[t] = 0
            /\ t \in pending /\ (fault[t] # 0 \/ t = target) => pc = "wait" /\ t = target
            /\ state[t] \in {"handler", "unwound", "stuck"} <=> found[t] # {}
            /\ found[t] # {} => pc = "wait" /\ t = target /\ t \notin pending /\ found[t] = slot
        /\ \A s \in Slot : handled[s] =>
                pc = "wait" /\ s \in slot /\ target \notin pending /\ \A t \in Thread : found[t] = {}

(* What is on its way into the record is the stack of the fault being
   handled, once the handler has written it. *)
StackGenuine ==
    ~doubled /\ ~crashed =>
        /\ pc # "idle" => Genuine(fault[target])
        /\ \A t \in Thread : state[t] = "unwound" => \A s \in slot : Genuine(stack[s])
        /\ \A s \in slot : handled[s] \/ pc = "copy" => Genuine(stack[s])

CaptureInv == Signalled /\ StackGenuine /\ StackOfThisFault

LEMMA CaptureStep ==
  ASSUME TypeOK, SlotsGivenBack, CaptureInv, [Next]_vars
  PROVE  CaptureInv'
<1> USE CaptureAssumption
    DEF CaptureAssumption, CaptureInv, Signalled, StackGenuine, StackOfThisFault, Genuine, Capturing,
        TypeOK, threadVars, slotVars, captureVars, counts
<1>1. ASSUME NEW t \in Thread, NEW how \in {"faulting", "syscall"}, ~crashed, TakeFault(t, how)
      PROVE  CaptureInv'
  <2>1. ASSUME ~doubled'
        PROVE  ~doubled /\ faults + 1 # 0 /\ fault[t] = 0 /\ found[t] = {}
               /\ (t \in pending => t = target)
    <3>1. ~doubled /\ (t \in pending => t = target) /\ state[t] = "running"
      BY <1>1, <2>1 DEF TakeFault
    <3>2. QED
      BY <1>1, <3>1
  <2>2. Signalled'
    BY <1>1, <2>1 DEF TakeFault
  <2>3. StackGenuine' /\ StackOfThisFault'
    BY <1>1, <2>1 DEF TakeFault
  <2>4. QED
    BY <2>2, <2>3
<1>2. ASSUME NEW t \in Thread, ~crashed, Mask(t) \/ Exit(t) \/ UnwindFaults(t) \/ EnterOther(t)
      PROVE  CaptureInv'
  <2>1. CASE Mask(t)
    BY <2>1, <1>2 DEF Mask
  <2>2. CASE Exit(t)
    BY <2>2, <1>2 DEF Exit
  <2>3. CASE UnwindFaults(t)
    BY <2>3, <1>2 DEF UnwindFaults
  <2>4. CASE EnterOther(t)
    BY <2>4, <1>2 DEF EnterOther
  <2>5. QED
    BY <1>2, <2>1, <2>2, <2>3, <2>4
<1>3. ASSUME NEW t \in Thread, ~crashed, Stray(t) PROVE CaptureInv'
  BY <1>3 DEF Stray
<1>4. ASSUME NEW t \in Thread, ~crashed, Outsider(t) PROVE CaptureInv'
  BY <1>4 DEF Outsider
<1>5. ASSUME NEW t \in Thread, ~crashed, Enter(t) PROVE CaptureInv'
  <2>1. CASE SlotsOf(t) = {}
    BY <1>5, <2>1 DEF Enter
  <2>2. CASE SlotsOf(t) # {}
    <3>1. PICK s \in SlotsOf(t) : found' = [found EXCEPT ![t] = {s}]
      BY <1>5, <2>2 DEF Enter
    <3>2. ASSUME ~doubled
          PROVE  pc = "wait" /\ t = target /\ slot = {s} /\ found[t] = {} /\ ~\E r \in Slot : handled[r]
      BY <1>5, <3>1, <3>2 DEF Enter, Deliverable, SlotsOf, SlotsGivenBack
    <3>3. Signalled'
      BY <1>5, <3>1, <3>2 DEF Enter
    <3>4. StackGenuine' /\ StackOfThisFault'
      BY <1>5, <3>1, <3>2 DEF Enter
    <3>5. QED
      BY <3>3, <3>4
  <2>3. QED
    BY <2>1, <2>2
<1>6. ASSUME NEW t \in Thread, ~crashed, Unwind(t) PROVE CaptureInv'
  BY <1>6 DEF Unwind
<1>7. ASSUME NEW t \in Thread, ~crashed, Notify(t) PROVE CaptureInv'
  <2>1. ASSUME ~doubled
        PROVE  /\ pc = "wait" /\ t = target /\ found[t] # {} /\ t \notin pending
               /\ \A u \in Thread \ {t} : found[u] = {}
               /\ \A s \in slot : Genuine(stack[s])
    BY <1>7, <2>1 DEF Notify
  <2>2. Signalled'
    BY <1>7, <2>1 DEF Notify, Notified
  <2>3. /\ UNCHANGED <<fault, stack, pc, slot, handling, strayed, target, copy, doubled, crashed>>
        /\ \A u \in Thread : state'[u] = "unwound" => state[u] = "unwound"
        /\ \A u \in Thread : found'[u] \subseteq found[u]
    <3>1. UNCHANGED <<fault, stack, pc, slot, handling, strayed, target, copy, doubled, crashed>>
      BY <1>7 DEF Notify
    <3>2. found' = [found EXCEPT ![t] = {}]
      BY <1>7 DEF Notify
    <3>3. \/ state' = [state EXCEPT ![t] = "faulting"]
          \/ state' = [state EXCEPT ![t] = "running"]
      BY <1>7 DEF Notify
    <3>4. QED
      BY <3>1, <3>2, <3>3
  <2>4. StackGenuine'
    <3>1. ASSUME ~doubled, ~crashed
          PROVE  StackGenuine'
      BY <2>1, <2>3, <3>1
    <3>2. QED
      BY <2>3, <3>1
  <2>5. StackOfThisFault'
    <3>1. \A u \in Thread : found'[u] \cap slot' \subseteq found[u] \cap slot
      BY <2>3
    <3>2. QED
      BY <2>3, <3>1
  <2>6. QED
    BY <2>2, <2>4, <2>5
<1>8. ASSUME NEW t \in Thread, ~crashed, ReadFault(t) PROVE CaptureInv'
  BY <1>8 DEF ReadFault
<1>9. ASSUME NEW s \in Slot, ~crashed, Claim(s) PROVE CaptureInv'
  BY <1>9 DEF Claim, PtidStored
<1>10. CASE ~crashed /\ Tkill
  BY <1>10 DEF Tkill
<1>11. CASE ~crashed /\ Wait
  BY <1>11 DEF Wait, FlagTaken
<1>12. CASE ~crashed /\ Copy
  BY <1>12 DEF Copy
<1>13. CASE ~crashed /\ Release
  BY <1>13 DEF Release, Freed
<1>14. CASE ~crashed /\ ZeroPage
  BY <1>14 DEF ZeroPage
<1>15. CASE OwnHandler \/ UNCHANGED vars
  BY <1>15 DEF OwnHandler, vars
<1>16. QED
  BY <1>1, <1>2, <1>3, <1>4, <1>5, <1>6, <1>7, <1>8, <1>9, <1>10, <1>11, <1>12, <1>13, <1>14, <1>15
     DEF Next, Program, Handler, FaultThread

(* The stack that goes into a PageFault record is the one of this fault, or
   the thread has left the fault meanwhile, or got a SIGUSR1 from elsewhere in
   it (Stack.cpp Stack::Stack and handler, Waiter). *)
THEOREM StackAlwaysOfThisFault == Spec => []StackOfThisFault
<1>1. Init => CaptureInv
  BY CaptureAssumption DEF CaptureAssumption, Init, CaptureInv, Signalled, StackGenuine, StackOfThisFault,
     Genuine, Capturing
<1>2. CaptureInv => StackOfThisFault
  BY DEF CaptureInv
<1>3. QED
  BY <1>1, <1>2, TypeCorrect, SlotsAlwaysGivenBack, CaptureStep, PTL DEF Spec
=============================================================================
