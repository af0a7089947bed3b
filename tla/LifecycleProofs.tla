-------------------------- MODULE LifecycleProofs ---------------------------
(* Theorems about Lifecycle, for any number of threads and forked processes. *)
EXTENDS Lifecycle, TLAPS

Types ==
    /\ at \in [Thread -> {"out", "once", "body", "report", "write", "fault", "join", "wait", "after", "gone"}]
    /\ tested \in [Thread -> BOOLEAN]
    /\ exiter \in Thread \cup {Nobody} /\ crashed \in Thread \cup {Nobody}
    /\ once \in {"new", "running", "done"}

(* Until Hooks::hook has ended every thread is outside the hooks, and nothing
   that it sets up is in use. *)
Starting ==
    once # "done" =>
        /\ faultThread = "none" /\ data # "ready" /\ pipe = 0
        /\ exiter = Nobody /\ crashed = Nobody
        /\ \A t \in Thread : at[t] \in {"out", "once"}
        /\ parser \in {"none", "reading"}
        /\ once = "running" => writers = {Traced}
        /\ once = "new" => parser = "none"
        /\ \A c \in Child : child[c] = "none"

(* The exiting thread is in the join, or data is null. *)
Exiting ==
    /\ once = "done" /\ data # "ready" => data = "null" /\ exiter # Nobody
    /\ \A t \in Thread : at[t] \in {"join", "wait", "after"} => exiter = t
    /\ \A t \in Thread : exiter = t =>
        /\ at[t] # "out"
        /\ at[t] \notin {"join", "gone"} => data = "null"
        /\ at[t] = "report" => ~tested[t]

Crashing ==
    crashed # Nobody =>
        /\ \A t \in Thread : at[t] = "gone"
        /\ exiter # Nobody /\ (crashed # exiter \/ ~tested[crashed])

IInv == Types /\ Starting /\ Exiting /\ Crashing /\ FaultThreadHasData

LEMMA Step ==
  ASSUME IInv, [Next]_vars
  PROVE  IInv'
<1> USE LifecycleAssumption DEF LifecycleAssumption, IInv, Types, Starting, Exiting, Crashing,
        FaultThreadHasData, threadVars, dataVars, faultVars, pipeVars, parserVars
<1>1. ASSUME NEW t \in Thread, NEW test \in BOOLEAN, Call(t, test) PROVE IInv'
  BY <1>1 DEF Call, InProgram, Go
<1>2. ASSUME NEW t \in Thread, Begin(t) PROVE IInv'
  BY <1>2 DEF Begin, OnceDone, Go
<1>3. ASSUME NEW t \in Thread, HookData(t) PROVE IInv'
  BY <1>3 DEF HookData
<1>4. ASSUME NEW t \in Thread, HookFork(t) PROVE IInv'
  BY <1>4 DEF HookFork, ParserClosesItsCopy
<1>5. ASSUME NEW t \in Thread, HookThread(t) PROVE IInv'
  BY <1>5 DEF HookThread
<1>6. ASSUME NEW t \in Thread, Test(t) PROVE IInv'
  BY <1>6 DEF Test, FindsNull, Back, Go
<1>7. ASSUME NEW t \in Thread, Use(t) PROVE IInv'
  BY <1>7 DEF Use, End, Go
<1>8. ASSUME NEW t \in Thread, Write(t) PROVE IInv'
  BY <1>8 DEF Write, Packet, End, Back, Go
<1>9. ASSUME NEW t \in Thread, NEW lock \in BOOLEAN, Touch(t, lock) PROVE IInv'
  BY <1>9 DEF Touch, InProgram, Go
<1>10. ASSUME NEW t \in Thread, FaultAnswer(t) PROVE IInv'
  BY <1>10 DEF FaultAnswer, Packet, Back, Go
<1>11. CASE FaultQuit \/ PollFails
  BY <1>11 DEF FaultQuit, PollFails
<1>12. ASSUME NEW t \in Thread, Exit(t) PROVE IInv'
  <2>1. once = "done" /\ at[t] = "out" /\ data = "ready" /\ exiter = Nobody
    BY <1>12 DEF Exit
  <2>2. crashed = Nobody
    BY <2>1
  <2>3. Types' /\ Starting' /\ Crashing' /\ FaultThreadHasData'
    BY <1>12, <2>1, <2>2 DEF Exit, Go
  <2>4. Exiting'
    BY <1>12, <2>1 DEF Exit, Go
  <2>5. QED
    BY <2>3, <2>4
<1>13. ASSUME NEW t \in Thread, CleanupClose(t) PROVE IInv'
  BY <1>13 DEF CleanupClose, Joined, Go
<1>14. ASSUME NEW t \in Thread, CleanupWait(t) PROVE IInv'
  BY <1>14 DEF CleanupWait, Go
<1>15. ASSUME NEW t \in Thread, Return(t) PROVE IInv'
  BY <1>15 DEF Return, End
<1>16. CASE Die
  BY <1>16 DEF Die, End
<1>17. ASSUME NEW t \in Thread, NEW c \in Child, Fork(t, c) PROVE IInv'
  BY <1>17 DEF Fork
<1>18. ASSUME NEW c \in Child, ChildReports(c) PROVE IInv'
  BY <1>18 DEF ChildReports, Packet
<1>19. ASSUME NEW c \in Child, ChildExec(c) \/ ChildExit(c) \/ ChildEnds(c) PROVE IInv'
  BY <1>19 DEF ChildExec, ChildExit, ChildEnds, ChildGone
<1>20. CASE ParserRead
  BY <1>20 DEF ParserRead
<1>21. CASE ParserEof
  BY <1>21 DEF ParserEof, AtEof
<1>22. CASE ParserEnd
  BY <1>22 DEF ParserEnd, End
<1>23. CASE UNCHANGED vars
  BY <1>23 DEF vars
<1>24. QED
  BY <1>1, <1>2, <1>3, <1>4, <1>5, <1>6, <1>7, <1>8, <1>9, <1>10, <1>11, <1>12, <1>13, <1>14, <1>15, <1>16, <1>17, <1>18, <1>19, <1>20, <1>21, <1>22, <1>23
     DEF Next, Hook, Program, Cleanup, ChildNext, FaultNext, ParserNext

THEOREM Inductive == Spec => []IInv
<1>1. Init => IInv
  BY LifecycleAssumption DEF LifecycleAssumption, Init, IInv, Types, Starting, Exiting, Crashing,
     FaultThreadHasData
<1>2. QED
  BY <1>1, Step, PTL DEF Spec

(* Nobody uses data before it is complete, and after exit has begun only those
   that DataComplete names. *)
THEOREM DataAlwaysComplete == Spec => []DataComplete
<1>1. IInv => DataComplete
  BY DEF IInv, Crashing, DataComplete
<1>2. QED
  BY <1>1, Inductive, PTL

(* hookCleanup joins the fault thread before it takes data and the pipe away,
   however the fault thread, the other threads and forked processes run. *)
THEOREM FaultThreadAlwaysHasData == Spec => []FaultThreadHasData
<1>1. IInv => FaultThreadHasData
  BY DEF IInv
<1>2. QED
  BY <1>1, Inductive, PTL
=============================================================================
