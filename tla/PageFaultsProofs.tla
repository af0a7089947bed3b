-------------------------- MODULE PageFaultsProofs --------------------------
(***************************************************************************)
(* The pages and mappings that the parser ends up with, and when the fault *)
(* thread may give up, for any number of threads, pages, calls and records *)
(* in the pipe.                                                            *)
(***************************************************************************)
EXTENDS PageFaults, TLAPS, SequenceTheorems

(* A fault that is under way is on a registered page, unless a mapping was
   pulled from under one. *)
FaultsRegistered == UnderWay \subseteq registered \/ pulled

IInv == FaultsRegistered /\ GivesUpOnlyIfPulled

-----------------------------------------------------------------------------
LEMMA InitIInv == Init => IInv
BY DEF Init, IInv, FaultsRegistered, GivesUpOnlyIfPulled, UnderWay

(* Forgetting a range keeps the invariant: either no fault in it is under
   way, or it is noted that a mapping was pulled. *)
LEMMA ForgetKeepsIInv ==
    ASSUME IInv, NEW R, Forget(R), UNCHANGED <<events, place, faultPc, broken>>
    PROVE  IInv'
<1>1. pulled' = (pulled \/ R \cap UnderWay # {}) /\ registered' = registered \ R
  BY DEF Forget
<1>2. UnderWay' = UnderWay
  BY DEF UnderWay
<1>3. CASE R \cap UnderWay # {}
  BY <1>1, <1>3 DEF IInv, FaultsRegistered, GivesUpOnlyIfPulled
<1>4. CASE R \cap UnderWay = {}
  BY <1>1, <1>2, <1>4 DEF IInv, FaultsRegistered, GivesUpOnlyIfPulled
<1>5. QED
  BY <1>3, <1>4

(* A step that leaves the faults alone and takes no registration back keeps
   the invariant. *)
LEMMA OthersKeepIInv ==
    ASSUME IInv, registered \subseteq registered', UNCHANGED <<events, place, faultPc, broken, pulled>>
    PROVE  IInv'
BY DEF IInv, FaultsRegistered, GivesUpOnlyIfPulled, UnderWay

(* A call of the program. *)
LEMMA CallKeepsIInv ==
    ASSUME IInv, NEW t \in Thread, Call(t)
    PROVE  IInv'
<1>1. ASSUME NEW R \in Ranges, NEW w \in BOOLEAN, NEW fixed \in BOOLEAN, NEW followed \in BOOLEAN,
             mmap(t, R, w, fixed, followed)
      PROVE  IInv'
  <2>1. Forget(R) /\ UNCHANGED <<events, place, faultPc, broken>>
    BY <1>1 DEF mmap, faultVars
  <2>2. QED
    BY <2>1, ForgetKeepsIInv
<1>2. ASSUME NEW R \in Ranges, munmap(t, R) \/ madvise(t, R) \/ \E w \in BOOLEAN : mprotect(t, R, w)
      PROVE  IInv'
  <2>1. UNCHANGED <<registered, events, place, faultPc, broken, pulled>>
    BY <1>2 DEF munmap, madvise, mprotect, kernelVars, faultVars, historyVars
  <2>2. QED
    BY <2>1, OthersKeepIInv
<1>3. QED
  BY <1>1, <1>2 DEF Call

(* A step of a hook. *)
LEMMA StepKeepsIInv ==
    ASSUME IInv, NEW t \in Thread, Step(t)
    PROVE  IInv'
<1>1. CASE Unmap(t)
  <2>1. Forget(op[t].range) /\ UNCHANGED <<events, place, faultPc, broken>>
    BY <1>1 DEF Unmap, faultVars
  <2>2. QED
    BY <2>1, ForgetKeepsIInv
<1>2. CASE Register(t)
  <2>1. registered \subseteq registered' /\ UNCHANGED <<events, place, faultPc, broken, pulled>>
    BY <1>2 DEF Register, faultVars
  <2>2. QED
    BY <2>1, OthersKeepIInv
<1>3. CASE ~Unmap(t) /\ ~Register(t)
  <2>1. UNCHANGED <<registered, events, place, faultPc, broken, pulled>>
    BY <1>3 DEF Step, Track, Remove, EmitMmap, EmitMunmap, List, Listed, Protect, Drop, kernelVars,
                faultVars, historyVars
  <2>2. QED
    BY <2>1, OthersKeepIInv
<1>4. QED
  BY <1>1, <1>2, <1>3

(* Touching a page, loading a library, and the parser. *)
LEMMA EnvironmentKeepsIInv ==
    ASSUME IInv, MarkDirty \/ ParseRecord \/ \E t \in Thread, p \in Page : Touch(t, p)
    PROVE  IInv'
<1>1. CASE MarkDirty \/ ParseRecord
  <2>1. UNCHANGED <<registered, events, place, faultPc, broken, pulled>>
    BY <1>1 DEF MarkDirty, ParseRecord, kernelVars, faultVars, historyVars
  <2>2. QED
    BY <2>1, OthersKeepIInv
<1>2. ASSUME NEW t \in Thread, NEW p \in Page, Touch(t, p)
      PROVE  IInv'
  <2>1. UNCHANGED <<registered, place, faultPc, broken, pulled>>
    BY <1>2 DEF Touch, faultVars, historyVars
  <2>2. \/ events' = events
        \/ p \in registered /\ events' = events \cup {p}
    BY <1>2 DEF Touch
  <2>3. QED
    BY <2>1, <2>2 DEF IInv, FaultsRegistered, GivesUpOnlyIfPulled, UnderWay
<1>3. QED
  BY <1>1, <1>2

(* The fault thread closes faultFd only after an error of it, or on a page that
   is not registered; then a mapping was pulled. *)
LEMMA FaultThreadKeepsIInv ==
    ASSUME IInv, FaultThread \/ PollGoesWrong
    PROVE  IInv'
<1> USE DEF IInv, FaultsRegistered, GivesUpOnlyIfPulled, UnderWay
<1>1. CASE FaultPoll \/ PollGoesWrong
  <2>1. UNCHANGED <<registered, events, place, pulled>> /\ faultPc' # "ended"
    BY <1>1 DEF FaultPoll, PollReturns, PollGoesWrong, PollError, PollFails, kernelVars, historyVars
  <2>2. QED
    BY <2>1
<1>2. CASE FaultListed
  BY <1>2 DEF FaultListed, kernelVars, historyVars
<1>3. ASSUME NEW p \in Page, FaultReport(p)
      PROVE  IInv'
  BY <1>3 DEF FaultReport
<1>4. CASE ZeroPage
  BY <1>4 DEF ZeroPage, historyVars
<1>5. CASE ZeroPageExists
  BY <1>5 DEF ZeroPageExists, AfterExists, GoOn, historyVars
<1>6. CASE ZeroPageFails \/ ReadFails
  <2>1. events' = {} /\ place' = {} /\ (pulled' \/ broken')
    BY <1>6 DEF ZeroPageFails, ReadFails, GiveUp, historyVars
  <2>2. QED
    BY <2>1
<1>7. QED
  BY <1>1, <1>2, <1>3, <1>4, <1>5, <1>6 DEF FaultThread

(* hookThread closes faultFd on an error of the descriptor - poll, read or
   UFFDIO_ZEROPAGE -, and no page fault is recorded from then on.  As long as
   the descriptor itself reports none, UFFDIO_ZEROPAGE can only fail on a page
   whose mapping has been replaced or unmapped since the fault (Preload.cpp
   hookThread).  That hookThread may also return at an interrupted poll, with
   faultFd open, is the other end of the recording: there this says nothing. *)
THEOREM FaultThreadLasts == Spec => []GivesUpOnlyIfPulled
<1>1. Init => IInv
  BY InitIInv
<1>2. IInv /\ [Next]_vars => IInv'
  <2> SUFFICES ASSUME IInv, [Next]_vars PROVE IInv'
    OBVIOUS
  <2>1. ASSUME NEW t \in Thread, Call(t) \/ Step(t) \/ \E p \in Page : Touch(t, p)
        PROVE  IInv'
    BY <2>1, CallKeepsIInv, StepKeepsIInv, EnvironmentKeepsIInv
  <2>2. CASE MarkDirty \/ ParseRecord
    BY <2>2, EnvironmentKeepsIInv
  <2>3. CASE FaultThread \/ PollGoesWrong
    BY <2>3, FaultThreadKeepsIInv
  <2>4. CASE UNCHANGED vars
    <3>1. UNCHANGED <<registered, events, place, faultPc, broken, pulled>>
      BY <2>4 DEF vars, kernelVars, faultVars, historyVars
    <3>2. QED
      BY <3>1, OthersKeepIInv
  <2>5. QED
    BY <2>1, <2>2, <2>3, <2>4 DEF Next
<1>3. IInv => GivesUpOnlyIfPulled
  BY DEF IInv
<1>4. QED
  BY <1>1, <1>2, <1>3, PTL DEF Spec

-----------------------------------------------------------------------------
(* What a thread may have to do for the call that it is in. *)
Todo ==
    {<<"track", "register", "remove", "list", "mmap">>, <<"track", "register", "list", "mmap">>,
     <<"track", "remove", "list", "mmap">>, <<"track", "list", "mmap">>,
     <<"register", "remove", "list", "mmap">>, <<"register", "list", "mmap">>,
     <<"remove", "list", "mmap">>, <<"list", "mmap">>, <<"listed", "mmap">>, <<"mmap">>,
     <<"track", "munmap", "unmap">>, <<"munmap", "unmap">>, <<"unmap">>,
     <<"register", "protect">>, <<"protect">>, <<"remove", "drop">>, <<"drop">>, <<>>}

(* Thread t still has this step to do. *)
Has(t, step) == step \in Range(steps[t])

(* The next step of the list s is this one. *)
NextIs(s, step) == s # <<>> /\ Head(s) = step

(* The records that may be in the pipe. *)
Records == [type : {"PageFault", "PageRemove", "Mmap", "Munmap"}, range : SUBSET Page]

(* What the threads do: each page is in the range of at most one call, and a
   call that maps reports a range as gone only if it replaces it. *)
HookTypes ==
    /\ steps \in [Thread -> Todo]
    /\ op \in [Thread -> [range : SUBSET Page, rw : BOOLEAN, fixed : BOOLEAN]]
    /\ \A t \in Thread : steps[t] = <<>> => op[t].range = {}
    /\ \A t, u \in Thread : t # u => op[t].range \cap op[u].range = {}
    /\ \A t \in Thread : Has(t, "remove") /\ Has(t, "mmap") => op[t].fixed

(* The types of the rest, as far as they matter. *)
Types ==
    /\ HookTypes
    /\ pipe \in Seq(Records)
    /\ place \subseteq Page /\ (faultPc # "zero" => place = {})
    /\ pageFaults \subseteq Page /\ mmaps \subseteq Page

(* What the kernel guarantees of its sets, and that calls are about mapped
   pages. *)
Kernel ==
    /\ rw \subseteq mapped /\ registered \subseteq mapped /\ present \subseteq mapped
    /\ \A t \in Thread : op[t].range \subseteq mapped

TypeInv == Types /\ Kernel

-----------------------------------------------------------------------------
(* What is mapped is tracked, or in one of the sets of exceptions, or a call
   on it is under way. *)
MappedIsKnown ==
    \A p \in mapped :
        \/ p \in tracked \cup unfollowed \cup gaps
        \/ \E t \in Thread : p \in op[t].range /\ (Has(t, "unmap") \/ Has(t, "track"))

Followed(p) == p \in registered \cup unfollowed \cup refused \cup gaps

(* What can be written is registered, or about to be. *)
WritableIsFollowed ==
    faultPc # "ended" =>
        /\ \A p \in rw : Followed(p) \/ \E t \in Thread : p \in op[t].range /\ Has(t, "register")
        /\ \A t \in Thread :
            /\ Has(t, "track") /\ Has(t, "mmap") /\ ~Has(t, "register") => op[t].range \cap rw = {}
            /\ NextIs(steps[t], "protect") /\ op[t].rw => \A p \in op[t].range : Followed(p)

RegisterInv == MappedIsKnown /\ WritableIsFollowed

-----------------------------------------------------------------------------
(* The record is one of these types, about p. *)
About(r, p, types) == r.type \in types /\ p \in r.range

(* No record of these types about p is in the pipe. *)
Untouched(q, p, types) == \A i \in 1 .. Len(q) : ~About(q[i], p, types)

(* There is a record about p of one of the types in sets, and none of those
   in clears after it. *)
Settled(q, p, sets, clears) ==
    \E i \in 1 .. Len(q) :
        /\ About(q[i], p, sets)
        /\ \A j \in i + 1 .. Len(q) : ~About(q[j], p, clears)

(* When the parser has read the pipe it will not have the mapping of p ... *)
MapGone(p) ==
    \/ p \notin mmaps /\ Untouched(pipe, p, {"Mmap"})
    \/ Settled(pipe, p, {"Munmap"}, {"Mmap"})

(* ... or it will, as far as the tracker added it. *)
MapThere(p) ==
    \/ p \in mmaps \cup overlooked /\ Untouched(pipe, p, {"Munmap"})
    \/ Settled(pipe, p, {"Mmap"}, {"Munmap"})

(* The records of one page are in the order of what the kernel did: an munmap
   is reported before, an mmap after it happens, each before the next call. *)
RecordsFollow ==
    /\ \A p \in Page \ mapped : MapGone(p)
    /\ \A t \in Thread : NextIs(steps[t], "unmap") => \A p \in op[t].range : MapGone(p)
    /\ \A p \in mapped :
        \/ MapThere(p)
        \/ \E t \in Thread : p \in op[t].range /\ (Has(t, "mmap") \/ NextIs(steps[t], "unmap"))

-----------------------------------------------------------------------------
Removals == {"PageRemove", "Munmap"}

(* When the parser has read the pipe it will count p ... *)
FaultCounted(p) ==
    \/ p \in pageFaults /\ Untouched(pipe, p, Removals)
    \/ Settled(pipe, p, {"PageFault"}, Removals)

(* ... or it will not. *)
FaultGone(p) ==
    \/ p \notin pageFaults /\ Untouched(pipe, p, {"PageFault"})
    \/ Settled(pipe, p, Removals, {"PageFault"})

(* A resident page will be counted, and so will one that is about to be
   resident, unless its record was lost or its range is about to be dropped. *)
PresentCounted ==
    /\ \A p \in registered \cap present : FaultCounted(p) \/ p \in lost \/ AboutToDrop(p)
    /\ \A p \in place : FaultCounted(p) \/ p \in lost

(* A page that is not resident, nor about to be, will not be counted; a page
   that is about to be dropped will not be either. *)
AbsentGone ==
    faultPc # "ended" =>
        /\ \A p \in Page :
            \/ p \in present \cup kept \cup place
            \/ FaultGone(p)
            \/ \E t \in Thread : p \in op[t].range /\ Has(t, "remove")
        /\ \A t \in Thread :
            NextIs(steps[t], "drop") \/ NextIs(steps[t], "unmap") => \A p \in op[t].range : p \in kept \/ FaultGone(p)
(* What is in a short sequence. *)
LEMMA RangeEmpty == Range(<<>>) = {}
BY DEF Range

LEMMA RangeOf1 ==
    ASSUME NEW s, NEW a, s = <<a>>, NEW x
    PROVE  x \in Range(s) <=> x = a
BY DEF Range

LEMMA RangeOf2 ==
    ASSUME NEW s, NEW a, NEW b, s = <<a, b>>, NEW x
    PROVE  x \in Range(s) <=> (x = a \/ x = b)
BY DEF Range

LEMMA RangeOf3 ==
    ASSUME NEW s, NEW a, NEW b, NEW c, s = <<a, b, c>>, NEW x
    PROVE  x \in Range(s) <=> (x = a \/ x = b \/ x = c)
BY DEF Range

LEMMA RangeOf4 ==
    ASSUME NEW s, NEW a, NEW b, NEW c, NEW d, s = <<a, b, c, d>>, NEW x
    PROVE  x \in Range(s) <=> (x = a \/ x = b \/ x = c \/ x = d)
BY DEF Range

LEMMA RangeOf5 ==
    ASSUME NEW s, NEW a, NEW b, NEW c, NEW d, NEW e, s = <<a, b, c, d, e>>, NEW x
    PROVE  x \in Range(s) <=> (x = a \/ x = b \/ x = c \/ x = d \/ x = e)
<1>1. DOMAIN s = 1 .. 5 /\ s[1] = a /\ s[2] = b /\ s[3] = c /\ s[4] = d /\ s[5] = e
  OBVIOUS
<1>2. \A i \in 1 .. 5 : i = 1 \/ i = 2 \/ i = 3 \/ i = 4 \/ i = 5
  OBVIOUS
<1>3. QED
  BY ONLY <1>1, <1>2 DEF Range

(* What is left of a mapping that replaces another, or is writable. *)
LEMMA List1 ==
    ASSUME NEW s, s = <<"register", "remove", "list", "mmap">>
    PROVE  \A x : x \in Range(s) <=> (x = "register" \/ x = "remove" \/ x = "list" \/ x = "mmap")
BY RangeOf4

LEMMA List2 ==
    ASSUME NEW s, s = <<"register", "list", "mmap">>
    PROVE  \A x : x \in Range(s) <=> (x = "register" \/ x = "list" \/ x = "mmap")
BY RangeOf3

LEMMA List3 ==
    ASSUME NEW s, s = <<"remove", "list", "mmap">>
    PROVE  \A x : x \in Range(s) <=> (x = "remove" \/ x = "list" \/ x = "mmap")
BY RangeOf3

(* What is left, r, after the first step of a call: its steps ... *)
StepsLeft(s, r) ==
    /\ r \in Todo
    /\ Range(s) = {Head(s)} \cup Range(r)
    /\ Head(s) \notin Range(r)
    /\ "track" \notin Range(r)

(* ... what is still to do ... *)
EndsLeft(s, r) ==
    /\ Head(s) = "track" => "mmap" \in Range(r) \/ "unmap" \in Range(r)
    /\ Head(s) = "register" => "mmap" \in Range(r) \/ NextIs(r, "protect")
    /\ Head(s) = "remove" => "mmap" \in Range(r) \/ NextIs(r, "drop")
    /\ Head(s) = "munmap" => NextIs(r, "unmap")
    /\ Head(s) = "list" => r = <<"mmap">>
    /\ Head(s) = "listed" => r = <<"mmap">>
    /\ Head(s) = "unmap" => r = <<>>
    /\ Head(s) = "drop" => r = <<>>
    /\ Head(s) = "protect" => r = <<>>
    /\ Head(s) = "mmap" => r = <<>>

(* ... and what comes before the step in the kernel. *)
KernelNext(s, r) ==
    /\ NextIs(r, "unmap") => Head(s) = "munmap"
    /\ NextIs(r, "drop") => Head(s) = "remove"
    /\ NextIs(r, "protect") => Head(s) = "register"

(* All of this. *)
Rest(s, r) == StepsLeft(s, r) /\ EndsLeft(s, r) /\ KernelNext(s, r)

(* All of this holds of each list of steps that a call can have. *)
LEMMA TodoFacts ==
    ASSUME NEW s \in Todo, s # <<>>, NEW r, r = Tail(s)
    PROVE  Rest(s, r)
<1>1. CASE s = <<"track", "register", "remove", "list", "mmap">>
  <2>1. Head(s) = "track" /\ r = <<"register", "remove", "list", "mmap">>
    BY <1>1
  <2>2. \A x : x \in Range(r) <=> (x = "register" \/ x = "remove" \/ x = "list" \/ x = "mmap")
    BY <2>1, List1
  <2>3. \A x : x \in Range(s) <=> (x = "track" \/ x = "register" \/ x = "remove" \/ x = "list" \/ x = "mmap")
    BY <1>1, RangeOf5
  <2>4. r # <<>> /\ Head(r) = "register"
    BY ONLY <2>1
  <2>5. r \in Todo
    BY <2>1 DEF Todo
  <2>6. StepsLeft(s, r)
    BY <2>1, <2>2, <2>3, <2>5 DEF StepsLeft
  <2>7. EndsLeft(s, r) /\ KernelNext(s, r)
    BY <2>1, <2>2, <2>4, Zenon DEF EndsLeft, KernelNext, NextIs
  <2>8. QED
    BY <2>6, <2>7 DEF Rest
<1>2. CASE s = <<"track", "register", "list", "mmap">>
  <2>1. Head(s) = "track" /\ r = <<"register", "list", "mmap">>
    BY <1>2
  <2>2. \A x : x \in Range(r) <=> (x = "register" \/ x = "list" \/ x = "mmap")
    BY <2>1, List2
  <2>3. \A x : x \in Range(s) <=> (x = "track" \/ x = "register" \/ x = "list" \/ x = "mmap")
    BY <1>2, RangeOf4
  <2>4. r # <<>> /\ Head(r) = "register"
    BY ONLY <2>1
  <2>5. r \in Todo
    BY <2>1 DEF Todo
  <2>6. StepsLeft(s, r)
    BY <2>1, <2>2, <2>3, <2>5 DEF StepsLeft
  <2>7. EndsLeft(s, r) /\ KernelNext(s, r)
    BY <2>1, <2>2, <2>4, Zenon DEF EndsLeft, KernelNext, NextIs
  <2>8. QED
    BY <2>6, <2>7 DEF Rest
<1>3. CASE s = <<"track", "remove", "list", "mmap">>
  <2>1. Head(s) = "track" /\ r = <<"remove", "list", "mmap">>
    BY <1>3
  <2>2. \A x : x \in Range(r) <=> (x = "remove" \/ x = "list" \/ x = "mmap")
    BY <2>1, List3
  <2>3. \A x : x \in Range(s) <=> (x = "track" \/ x = "remove" \/ x = "list" \/ x = "mmap")
    BY <1>3, RangeOf4
  <2>4. r # <<>> /\ Head(r) = "remove"
    BY ONLY <2>1
  <2>5. r \in Todo
    BY <2>1 DEF Todo
  <2>6. StepsLeft(s, r)
    BY <2>1, <2>2, <2>3, <2>5 DEF StepsLeft
  <2>7. EndsLeft(s, r) /\ KernelNext(s, r)
    BY <2>1, <2>2, <2>4, Zenon DEF EndsLeft, KernelNext, NextIs
  <2>8. QED
    BY <2>6, <2>7 DEF Rest
<1>4. CASE s = <<"track", "list", "mmap">>
  <2>1. Head(s) = "track" /\ r = <<"list", "mmap">>
    BY <1>4
  <2>2. \A x : x \in Range(r) <=> (x = "list" \/ x = "mmap")
    BY <2>1, RangeOf2, ZenonT(40)
  <2>3. \A x : x \in Range(s) <=> (x = "track" \/ x = "list" \/ x = "mmap")
    BY <1>4, RangeOf3
  <2>4. r # <<>> /\ Head(r) = "list"
    BY ONLY <2>1
  <2>5. r \in Todo
    BY <2>1 DEF Todo
  <2>6. StepsLeft(s, r)
    BY <2>1, <2>2, <2>3, <2>5 DEF StepsLeft
  <2>7. EndsLeft(s, r) /\ KernelNext(s, r)
    BY <2>1, <2>2, <2>4, Zenon DEF EndsLeft, KernelNext, NextIs
  <2>8. QED
    BY <2>6, <2>7 DEF Rest
<1>5. CASE s = <<"register", "remove", "list", "mmap">>
  <2>1. Head(s) = "register" /\ r = <<"remove", "list", "mmap">>
    BY <1>5
  <2>2. \A x : x \in Range(r) <=> (x = "remove" \/ x = "list" \/ x = "mmap")
    BY <2>1, List3
  <2>3. \A x : x \in Range(s) <=> (x = "register" \/ x = "remove" \/ x = "list" \/ x = "mmap")
    BY <1>5, RangeOf4
  <2>4. r # <<>> /\ Head(r) = "remove"
    BY ONLY <2>1
  <2>5. r \in Todo
    BY <2>1 DEF Todo
  <2>6. StepsLeft(s, r)
    BY <2>1, <2>2, <2>3, <2>5 DEF StepsLeft
  <2>7. EndsLeft(s, r) /\ KernelNext(s, r)
    BY <2>1, <2>2, <2>4, Zenon DEF EndsLeft, KernelNext, NextIs
  <2>8. QED
    BY <2>6, <2>7 DEF Rest
<1>6. CASE s = <<"register", "list", "mmap">>
  <2>1. Head(s) = "register" /\ r = <<"list", "mmap">>
    BY <1>6
  <2>2. \A x : x \in Range(r) <=> (x = "list" \/ x = "mmap")
    BY <2>1, RangeOf2, ZenonT(40)
  <2>3. \A x : x \in Range(s) <=> (x = "register" \/ x = "list" \/ x = "mmap")
    BY <1>6, RangeOf3
  <2>4. r # <<>> /\ Head(r) = "list"
    BY ONLY <2>1
  <2>5. r \in Todo
    BY <2>1 DEF Todo
  <2>6. StepsLeft(s, r)
    BY <2>1, <2>2, <2>3, <2>5 DEF StepsLeft
  <2>7. EndsLeft(s, r) /\ KernelNext(s, r)
    BY <2>1, <2>2, <2>4, Zenon DEF EndsLeft, KernelNext, NextIs
  <2>8. QED
    BY <2>6, <2>7 DEF Rest
<1>7. CASE s = <<"remove", "list", "mmap">>
  <2>1. Head(s) = "remove" /\ r = <<"list", "mmap">>
    BY <1>7
  <2>2. \A x : x \in Range(r) <=> (x = "list" \/ x = "mmap")
    BY <2>1, RangeOf2, ZenonT(40)
  <2>3. \A x : x \in Range(s) <=> (x = "remove" \/ x = "list" \/ x = "mmap")
    BY <1>7, RangeOf3
  <2>4. r # <<>> /\ Head(r) = "list"
    BY ONLY <2>1
  <2>5. r \in Todo
    BY <2>1 DEF Todo
  <2>6. StepsLeft(s, r)
    BY <2>1, <2>2, <2>3, <2>5 DEF StepsLeft
  <2>7. EndsLeft(s, r) /\ KernelNext(s, r)
    BY <2>1, <2>2, <2>4, Zenon DEF EndsLeft, KernelNext, NextIs
  <2>8. QED
    BY <2>6, <2>7 DEF Rest
<1>8. CASE s = <<"list", "mmap">>
  <2>1. Head(s) = "list" /\ r = <<"mmap">>
    BY <1>8
  <2>2. \A x : x \in Range(r) <=> x = "mmap"
    BY <2>1, RangeOf1
  <2>3. \A x : x \in Range(s) <=> (x = "list" \/ x = "mmap")
    BY <1>8, RangeOf2
  <2>4. r # <<>> /\ Head(r) = "mmap"
    BY ONLY <2>1
  <2>5. r \in Todo
    BY <2>1 DEF Todo
  <2>6. StepsLeft(s, r)
    BY <2>1, <2>2, <2>3, <2>5 DEF StepsLeft
  <2>7. EndsLeft(s, r) /\ KernelNext(s, r)
    BY <2>1, <2>2, <2>4, Zenon DEF EndsLeft, KernelNext, NextIs
  <2>8. QED
    BY <2>6, <2>7 DEF Rest
<1>9. CASE s = <<"listed", "mmap">>
  <2>1. Head(s) = "listed" /\ r = <<"mmap">>
    BY <1>9
  <2>2. \A x : x \in Range(r) <=> x = "mmap"
    BY <2>1, RangeOf1
  <2>3. \A x : x \in Range(s) <=> (x = "listed" \/ x = "mmap")
    BY <1>9, RangeOf2
  <2>4. r # <<>> /\ Head(r) = "mmap"
    BY ONLY <2>1
  <2>5. r \in Todo
    BY <2>1 DEF Todo
  <2>6. StepsLeft(s, r)
    BY <2>1, <2>2, <2>3, <2>5 DEF StepsLeft
  <2>7. EndsLeft(s, r) /\ KernelNext(s, r)
    BY <2>1, <2>2, <2>4, Zenon DEF EndsLeft, KernelNext, NextIs
  <2>8. QED
    BY <2>6, <2>7 DEF Rest
<1>10. CASE s = <<"mmap">>
  <2>1. Head(s) = "mmap" /\ r = <<>>
    BY <1>10
  <2>2. \A x : x \in Range(r) <=> FALSE
    BY <2>1 DEF Range
  <2>3. \A x : x \in Range(s) <=> x = "mmap"
    BY <1>10, RangeOf1
  <2>4. r = <<>>
    BY ONLY <2>1
  <2>5. r \in Todo
    BY <2>1 DEF Todo
  <2>6. StepsLeft(s, r)
    BY <2>1, <2>2, <2>3, <2>5 DEF StepsLeft
  <2>7. EndsLeft(s, r) /\ KernelNext(s, r)
    BY <2>1, <2>2, <2>4, Zenon DEF EndsLeft, KernelNext, NextIs
  <2>8. QED
    BY <2>6, <2>7 DEF Rest
<1>11. CASE s = <<"track", "munmap", "unmap">>
  <2>1. Head(s) = "track" /\ r = <<"munmap", "unmap">>
    BY <1>11
  <2>2. \A x : x \in Range(r) <=> (x = "munmap" \/ x = "unmap")
    BY <2>1, RangeOf2, ZenonT(40)
  <2>3. \A x : x \in Range(s) <=> (x = "track" \/ x = "munmap" \/ x = "unmap")
    BY <1>11, RangeOf3
  <2>4. r # <<>> /\ Head(r) = "munmap"
    BY ONLY <2>1
  <2>5. r \in Todo
    BY <2>1 DEF Todo
  <2>6. StepsLeft(s, r)
    BY <2>1, <2>2, <2>3, <2>5 DEF StepsLeft
  <2>7. EndsLeft(s, r) /\ KernelNext(s, r)
    BY <2>1, <2>2, <2>4, Zenon DEF EndsLeft, KernelNext, NextIs
  <2>8. QED
    BY <2>6, <2>7 DEF Rest
<1>12. CASE s = <<"munmap", "unmap">>
  <2>1. Head(s) = "munmap" /\ r = <<"unmap">>
    BY <1>12
  <2>2. \A x : x \in Range(r) <=> x = "unmap"
    BY <2>1, RangeOf1
  <2>3. \A x : x \in Range(s) <=> (x = "munmap" \/ x = "unmap")
    BY <1>12, RangeOf2
  <2>4. r # <<>> /\ Head(r) = "unmap"
    BY ONLY <2>1
  <2>5. r \in Todo
    BY <2>1 DEF Todo
  <2>6. StepsLeft(s, r)
    BY <2>1, <2>2, <2>3, <2>5 DEF StepsLeft
  <2>7. EndsLeft(s, r) /\ KernelNext(s, r)
    BY <2>1, <2>2, <2>4, Zenon DEF EndsLeft, KernelNext, NextIs
  <2>8. QED
    BY <2>6, <2>7 DEF Rest
<1>13. CASE s = <<"unmap">>
  <2>1. Head(s) = "unmap" /\ r = <<>>
    BY <1>13
  <2>2. \A x : x \in Range(r) <=> FALSE
    BY <2>1 DEF Range
  <2>3. \A x : x \in Range(s) <=> x = "unmap"
    BY <1>13, RangeOf1
  <2>4. r = <<>>
    BY ONLY <2>1
  <2>5. r \in Todo
    BY <2>1 DEF Todo
  <2>6. StepsLeft(s, r)
    BY <2>1, <2>2, <2>3, <2>5 DEF StepsLeft
  <2>7. EndsLeft(s, r) /\ KernelNext(s, r)
    BY <2>1, <2>2, <2>4, Zenon DEF EndsLeft, KernelNext, NextIs
  <2>8. QED
    BY <2>6, <2>7 DEF Rest
<1>14. CASE s = <<"register", "protect">>
  <2>1. Head(s) = "register" /\ r = <<"protect">>
    BY <1>14
  <2>2. \A x : x \in Range(r) <=> x = "protect"
    BY <2>1, RangeOf1
  <2>3. \A x : x \in Range(s) <=> (x = "register" \/ x = "protect")
    BY <1>14, RangeOf2
  <2>4. r # <<>> /\ Head(r) = "protect"
    BY ONLY <2>1
  <2>5. r \in Todo
    BY <2>1 DEF Todo
  <2>6. StepsLeft(s, r)
    BY <2>1, <2>2, <2>3, <2>5 DEF StepsLeft
  <2>7. EndsLeft(s, r) /\ KernelNext(s, r)
    BY <2>1, <2>2, <2>4, Zenon DEF EndsLeft, KernelNext, NextIs
  <2>8. QED
    BY <2>6, <2>7 DEF Rest
<1>15. CASE s = <<"protect">>
  <2>1. Head(s) = "protect" /\ r = <<>>
    BY <1>15
  <2>2. \A x : x \in Range(r) <=> FALSE
    BY <2>1 DEF Range
  <2>3. \A x : x \in Range(s) <=> x = "protect"
    BY <1>15, RangeOf1
  <2>4. r = <<>>
    BY ONLY <2>1
  <2>5. r \in Todo
    BY <2>1 DEF Todo
  <2>6. StepsLeft(s, r)
    BY <2>1, <2>2, <2>3, <2>5 DEF StepsLeft
  <2>7. EndsLeft(s, r) /\ KernelNext(s, r)
    BY <2>1, <2>2, <2>4, Zenon DEF EndsLeft, KernelNext, NextIs
  <2>8. QED
    BY <2>6, <2>7 DEF Rest
<1>16. CASE s = <<"remove", "drop">>
  <2>1. Head(s) = "remove" /\ r = <<"drop">>
    BY <1>16
  <2>2. \A x : x \in Range(r) <=> x = "drop"
    BY <2>1, RangeOf1
  <2>3. \A x : x \in Range(s) <=> (x = "remove" \/ x = "drop")
    BY <1>16, RangeOf2
  <2>4. r # <<>> /\ Head(r) = "drop"
    BY ONLY <2>1
  <2>5. r \in Todo
    BY <2>1 DEF Todo
  <2>6. StepsLeft(s, r)
    BY <2>1, <2>2, <2>3, <2>5 DEF StepsLeft
  <2>7. EndsLeft(s, r) /\ KernelNext(s, r)
    BY <2>1, <2>2, <2>4, Zenon DEF EndsLeft, KernelNext, NextIs
  <2>8. QED
    BY <2>6, <2>7 DEF Rest
<1>17. CASE s = <<"drop">>
  <2>1. Head(s) = "drop" /\ r = <<>>
    BY <1>17
  <2>2. \A x : x \in Range(r) <=> FALSE
    BY <2>1 DEF Range
  <2>3. \A x : x \in Range(s) <=> x = "drop"
    BY <1>17, RangeOf1
  <2>4. r = <<>>
    BY ONLY <2>1
  <2>5. r \in Todo
    BY <2>1 DEF Todo
  <2>6. StepsLeft(s, r)
    BY <2>1, <2>2, <2>3, <2>5 DEF StepsLeft
  <2>7. EndsLeft(s, r) /\ KernelNext(s, r)
    BY <2>1, <2>2, <2>4, Zenon DEF EndsLeft, KernelNext, NextIs
  <2>8. QED
    BY <2>6, <2>7 DEF Rest
<1>18. QED
  BY <1>1, <1>2, <1>3, <1>4, <1>5, <1>6, <1>7, <1>8, <1>9, <1>10, <1>11, <1>12, <1>13, <1>14, <1>15, <1>16, <1>17 DEF Todo

-----------------------------------------------------------------------------
(* Writing one more record to the pipe. *)
LEMMA AppendRecord ==
    ASSUME NEW q \in Seq(Records), NEW r \in Records, NEW p, NEW sets, NEW clears
    PROVE  /\ Append(q, r) \in Seq(Records)
           /\ About(r, p, sets) => Settled(Append(q, r), p, sets, clears)
           /\ ~About(r, p, clears) /\ Settled(q, p, sets, clears) => Settled(Append(q, r), p, sets, clears)
           /\ ~About(r, p, clears) /\ Untouched(q, p, clears) => Untouched(Append(q, r), p, clears)
<1> DEFINE a == Append(q, r)
<1>1. a \in Seq(Records) /\ Len(a) = Len(q) + 1 /\ a[Len(q) + 1] = r /\ Len(q) \in Nat
      /\ \A i \in 1 .. Len(q) : a[i] = q[i]
  OBVIOUS
<1> HIDE DEF a
<1>2. About(r, p, sets) => Settled(a, p, sets, clears)
  <2>1. Len(q) + 1 \in 1 .. Len(a) /\ \A j \in (Len(q) + 1) + 1 .. Len(a) : FALSE
    BY <1>1
  <2>2. QED
    BY <1>1, <2>1 DEF Settled
<1>3. ASSUME ~About(r, p, clears), Settled(q, p, sets, clears)
      PROVE  Settled(a, p, sets, clears)
  <2>1. PICK i \in 1 .. Len(q) : About(q[i], p, sets) /\ \A j \in i + 1 .. Len(q) : ~About(q[j], p, clears)
    BY <1>3 DEF Settled
  <2>2. i \in 1 .. Len(a) /\ About(a[i], p, sets)
    BY <1>1, <2>1
  <2>3. ASSUME NEW j \in i + 1 .. Len(a) PROVE ~About(a[j], p, clears)
    <3>1. CASE j = Len(q) + 1
      BY <1>1, <1>3, <3>1
    <3>2. CASE j # Len(q) + 1
      <4>1. j \in i + 1 .. Len(q) /\ j \in 1 .. Len(q)
        BY <1>1, <3>2
      <4>2. QED
        BY <1>1, <2>1, <4>1
    <3>3. QED
      BY <3>1, <3>2
  <2>4. QED
    BY <2>2, <2>3 DEF Settled
<1>4. ASSUME ~About(r, p, clears), Untouched(q, p, clears)
      PROVE  Untouched(a, p, clears)
  <2>1. ASSUME NEW j \in 1 .. Len(a) PROVE ~About(a[j], p, clears)
    <3>1. CASE j = Len(q) + 1
      BY <1>1, <1>4, <3>1
    <3>2. CASE j # Len(q) + 1
      <4>1. j \in 1 .. Len(q)
        BY <1>1, <3>2
      <4>2. QED
        BY <1>1, <1>4, <4>1 DEF Untouched
    <3>3. QED
      BY <3>1, <3>2
  <2>2. QED
    BY <2>1 DEF Untouched
<1>5. QED
  BY <1>1, <1>2, <1>3, <1>4 DEF a

(* Reading the first record of the pipe. *)
LEMMA TakeRecord ==
    ASSUME NEW q \in Seq(Records), q # <<>>, NEW p, NEW sets, NEW clears
    PROVE  /\ Head(q) \in Records /\ Tail(q) \in Seq(Records)
           /\ Settled(q, p, sets, clears) =>
                \/ Settled(Tail(q), p, sets, clears)
                \/ About(Head(q), p, sets) /\ Untouched(Tail(q), p, clears)
           /\ Untouched(q, p, clears) => ~About(Head(q), p, clears) /\ Untouched(Tail(q), p, clears)
<1> DEFINE h == Head(q)
           t == Tail(q)
<1>1. h \in Records /\ t \in Seq(Records) /\ Len(t) = Len(q) - 1 /\ h = q[1] /\ Len(q) \in Nat /\ Len(q) >= 1
      /\ \A i \in 1 .. Len(t) : t[i] = q[i + 1]
  OBVIOUS
<1> HIDE DEF h, t
<1>2. ASSUME Settled(q, p, sets, clears)
      PROVE  Settled(t, p, sets, clears) \/ (About(h, p, sets) /\ Untouched(t, p, clears))
  <2>1. PICK i \in 1 .. Len(q) : About(q[i], p, sets) /\ \A j \in i + 1 .. Len(q) : ~About(q[j], p, clears)
    BY <1>2 DEF Settled
  <2>2. CASE i = 1
    <3>1. ASSUME NEW j \in 1 .. Len(t) PROVE ~About(t[j], p, clears)
      <4>1. j + 1 \in i + 1 .. Len(q)
        BY <1>1, <2>2
      <4>2. QED
        BY <1>1, <2>1, <4>1
    <3>2. About(h, p, sets)
      BY <1>1, <2>1, <2>2
    <3>3. QED
      BY <3>1, <3>2 DEF Untouched
  <2>3. CASE i # 1
    <3> DEFINE k == i - 1
    <3>1. k \in 1 .. Len(t) /\ t[k] = q[i] /\ k + 1 = i
      BY <1>1, <2>3
    <3> HIDE DEF k
    <3>2. ASSUME NEW j \in k + 1 .. Len(t) PROVE ~About(t[j], p, clears)
      <4>1. j + 1 \in i + 1 .. Len(q) /\ j \in 1 .. Len(t)
        BY <1>1, <3>1
      <4>2. QED
        BY <1>1, <2>1, <4>1
    <3>3. About(t[k], p, sets)
      BY <2>1, <3>1
    <3>4. Settled(t, p, sets, clears)
      BY ONLY <3>1, <3>2, <3>3 DEF Settled
    <3>5. QED
      BY <3>4
  <2>4. QED
    BY <2>2, <2>3
<1>3. ASSUME Untouched(q, p, clears)
      PROVE  ~About(h, p, clears) /\ Untouched(t, p, clears)
  <2>1. 1 \in 1 .. Len(q)
    BY <1>1
  <2>2. \A j \in 1 .. Len(t) : j + 1 \in 1 .. Len(q) /\ t[j] = q[j + 1]
    BY <1>1
  <2>3. QED
    BY <1>1, <1>3, <2>1, <2>2 DEF Untouched
<1>4. QED
  BY <1>1, <1>2, <1>3 DEF h, t

(* The parser's knowledge of a page, with what is in the pipe, is no less
   than before. *)
KnowsStill(p) ==
    /\ MapGone(p) => MapGone(p)'
    /\ MapThere(p) => MapThere(p)'
    /\ FaultCounted(p) => FaultCounted(p)'
    /\ FaultGone(p) => FaultGone(p)'

(* Without a record nothing changes in what the parser will know ... *)
LEMMA NothingWritten ==
    ASSUME UNCHANGED <<pipe, pageFaults, mmaps, overlooked>>
    PROVE  \A p : KnowsStill(p)
BY DEF KnowsStill, MapGone, MapThere, FaultCounted, FaultGone, Untouched, Settled

(* ... and with one, nothing but what the record says. *)
LEMMA RecordWritten ==
    ASSUME pipe \in Seq(Records), NEW type \in {"PageFault", "PageRemove", "Mmap", "Munmap"}, NEW R \in SUBSET Page,
           Write(type, R), UNCHANGED <<pageFaults, mmaps, overlooked>>
    PROVE  /\ pipe' \in Seq(Records)
           /\ \A p : p \notin R => KnowsStill(p)
           /\ type = "Mmap" => \A p \in R : MapThere(p)'
           /\ type = "Munmap" => \A p \in R : MapGone(p)'
           /\ type \in {"Munmap", "PageRemove"} => \A p \in R : FaultGone(p)'
           /\ type = "PageFault" => \A p \in R : FaultCounted(p)'
           /\ type \notin {"Mmap", "Munmap"} => \A p : (MapThere(p) => MapThere(p)') /\ (MapGone(p) => MapGone(p)')
           /\ type = "Mmap" => \A p : (FaultCounted(p) => FaultCounted(p)') /\ (FaultGone(p) => FaultGone(p)')
           /\ type = "PageFault" => \A p : FaultCounted(p) => FaultCounted(p)'
<1> DEFINE r == [type |-> type, range |-> R]
<1>1. r \in Records /\ pipe' = Append(pipe, r) /\ r.type = type /\ r.range = R
  BY DEF Write, Records
<1> HIDE DEF r
<1>2. ASSUME NEW p, NEW sets, NEW clears
      PROVE  /\ About(r, p, sets) => Settled(pipe', p, sets, clears)
             /\ ~About(r, p, clears) /\ Settled(pipe, p, sets, clears) => Settled(pipe', p, sets, clears)
             /\ ~About(r, p, clears) /\ Untouched(pipe, p, clears) => Untouched(pipe', p, clears)
  BY <1>1, AppendRecord
<1>3. pipe' \in Seq(Records)
  BY <1>1, AppendRecord
<1>4. \A p, types : About(r, p, types) <=> type \in types /\ p \in R
  BY <1>1 DEF About
<1>5. ASSUME NEW p
      PROVE  /\ ~(type = "Mmap" /\ p \in R) => (MapGone(p) => MapGone(p)')
             /\ type = "Munmap" /\ p \in R => MapGone(p)'
  BY <1>2, <1>4 DEF MapGone
<1>6. ASSUME NEW p
      PROVE  /\ ~(type = "Munmap" /\ p \in R) => (MapThere(p) => MapThere(p)')
             /\ type = "Mmap" /\ p \in R => MapThere(p)'
  BY <1>2, <1>4 DEF MapThere
<1>7. ASSUME NEW p
      PROVE  /\ ~(type \in Removals /\ p \in R) => (FaultCounted(p) => FaultCounted(p)')
             /\ type = "PageFault" /\ p \in R => FaultCounted(p)'
  BY <1>2, <1>4 DEF FaultCounted
<1>8. ASSUME NEW p
      PROVE  /\ ~(type = "PageFault" /\ p \in R) => (FaultGone(p) => FaultGone(p)')
             /\ type \in Removals /\ p \in R => FaultGone(p)'
  BY <1>2, <1>4 DEF FaultGone
<1>9. \A p : p \notin R => KnowsStill(p)
  BY <1>5, <1>6, <1>7, <1>8 DEF KnowsStill
<1>10. (type = "Mmap" => \A p \in R : MapThere(p)') /\ (type = "Munmap" => \A p \in R : MapGone(p)')
  BY <1>5, <1>6
<1>15. (type \in {"Munmap", "PageRemove"} => \A p \in R : FaultGone(p)')
       /\ (type = "PageFault" => \A p \in R : FaultCounted(p)')
  BY <1>7, <1>8 DEF Removals
<1>11. type \notin {"Mmap", "Munmap"} => \A p : (MapThere(p) => MapThere(p)') /\ (MapGone(p) => MapGone(p)')
  BY <1>5, <1>6
<1>12. type = "Mmap" => \A p : (FaultCounted(p) => FaultCounted(p)') /\ (FaultGone(p) => FaultGone(p)')
  BY <1>7, <1>8 DEF Removals
<1>13. type = "PageFault" => \A p : FaultCounted(p) => FaultCounted(p)'
  BY <1>7 DEF Removals
<1>14. QED
  BY <1>3, <1>9, <1>10, <1>11, <1>12, <1>13, <1>15

(* What the parser does with a record is what the record says. *)
LEMMA RecordRead ==
    ASSUME pipe \in Seq(Records), ParseRecord
    PROVE  pipe' \in Seq(Records) /\ \A p : KnowsStill(p)
<1> DEFINE h == Head(pipe)
<1>1. pipe # <<>> /\ pipe' = Tail(pipe)
  BY DEF ParseRecord
<1>2. ASSUME NEW p, NEW sets, NEW clears
      PROVE  /\ Settled(pipe, p, sets, clears) =>
                  Settled(pipe', p, sets, clears) \/ (About(h, p, sets) /\ Untouched(pipe', p, clears))
             /\ Untouched(pipe, p, clears) => ~About(h, p, clears) /\ Untouched(pipe', p, clears)
  BY <1>1, TakeRecord
<1>3. pipe' \in Seq(Records)
  BY <1>1
<1>4. \/ h.type = "PageFault" /\ pageFaults' = pageFaults \cup h.range /\ UNCHANGED <<mmaps, overlooked>>
      \/ h.type = "PageRemove" /\ pageFaults' = pageFaults \ h.range /\ UNCHANGED <<mmaps, overlooked>>
      \/ /\ h.type = "Mmap" /\ mmaps' = KnownAfterMap(mmaps, h.range)
         /\ overlooked' = (overlooked \ h.range) \cup (h.range \ mmaps') /\ UNCHANGED pageFaults
      \/ /\ h.type = "Munmap" /\ pageFaults' = pageFaults \ h.range /\ mmaps' = mmaps \ h.range
         /\ overlooked' = overlooked \ h.range
  BY DEF ParseRecord
<1> HIDE DEF h
<1>5. ASSUME NEW p
      PROVE  /\ ~About(h, p, {"Mmap"}) /\ p \notin mmaps => p \notin mmaps'
             /\ About(h, p, {"Munmap"}) => p \notin mmaps'
             /\ ~About(h, p, {"Munmap"}) /\ p \in mmaps \cup overlooked => p \in mmaps' \cup overlooked'
             /\ About(h, p, {"Mmap"}) => p \in mmaps' \cup overlooked'
  BY <1>4 DEF About, KnownAfterMap
<1>6. ASSUME NEW p
      PROVE  /\ ~About(h, p, Removals) /\ p \in pageFaults => p \in pageFaults'
             /\ About(h, p, {"PageFault"}) => p \in pageFaults'
             /\ ~About(h, p, {"PageFault"}) /\ p \notin pageFaults => p \notin pageFaults'
             /\ About(h, p, Removals) => p \notin pageFaults'
  BY <1>4 DEF About, Removals
<1>7. ASSUME NEW p PROVE KnowsStill(p)
  <2>1. MapGone(p) => MapGone(p)'
    BY <1>2, <1>5 DEF MapGone
  <2>2. MapThere(p) => MapThere(p)'
    BY <1>2, <1>5 DEF MapThere
  <2>3. FaultCounted(p) => FaultCounted(p)'
    BY <1>2, <1>6 DEF FaultCounted
  <2>4. FaultGone(p) => FaultGone(p)'
    BY <1>2, <1>6 DEF FaultGone
  <2>5. QED
    BY <2>1, <2>2, <2>3, <2>4 DEF KnowsStill
<1>8. QED
  BY <1>3, <1>7

-----------------------------------------------------------------------------
(* Thread t has taken a step of its call. *)
Advanced(t, step) ==
    /\ steps' \in [Thread -> Todo]
    /\ op' \in [Thread -> [range : SUBSET Page, rw : BOOLEAN, fixed : BOOLEAN]]
    /\ NextIs(steps[t], step) /\ KernelNext(steps[t], steps'[t])
    /\ step # "list" => EndsLeft(steps[t], steps'[t])
    /\ steps'[t] = <<>> => op'[t] = NoOp
    /\ steps'[t] # <<>> => op'[t] = op[t]
    /\ \A u \in Thread \ {t} : steps'[u] = steps[u] /\ op'[u] = op[u]
    /\ \A x : x # "list" /\ x # "listed" => (Has(t, x)' <=> Has(t, x) /\ x # step)

(* A step takes itself from the list, and the last step ends the call. *)
LEMMA AdvanceIs ==
    ASSUME HookTypes, NEW t \in Thread, NEW step, At(t, step), Advance(t)
    PROVE  Advanced(t, step) /\ steps'[t] \in Todo /\ ~Has(t, step)'
<1>1. steps[t] \in Todo /\ NextIs(steps[t], step)
  BY DEF HookTypes, At, NextIs
<1>2. steps'[t] = Tail(steps[t]) /\ \A u \in Thread \ {t} : steps'[u] = steps[u]
  BY DEF HookTypes, Advance
<1>3. Rest(steps[t], steps'[t])
  BY <1>1, <1>2, TodoFacts DEF NextIs
<1>4. steps' \in [Thread -> Todo]
  BY <1>3 DEF HookTypes, Advance, Rest, StepsLeft
<1>5. /\ op' \in [Thread -> [range : SUBSET Page, rw : BOOLEAN, fixed : BOOLEAN]]
      /\ steps'[t] = <<>> => op'[t] = NoOp
      /\ steps'[t] # <<>> => op'[t] = op[t]
      /\ \A u \in Thread \ {t} : op'[u] = op[u]
  BY <1>2 DEF HookTypes, Advance, NoOp
<1>6. Range(steps[t]) = {step} \cup Range(steps'[t]) /\ step \notin Range(steps'[t])
  BY <1>1, <1>3 DEF Rest, StepsLeft, NextIs
<1>7. \A x : Has(t, x)' <=> Has(t, x) /\ x # step
  BY <1>6 DEF Has
<1>8. KernelNext(steps[t], steps'[t]) /\ EndsLeft(steps[t], steps'[t])
  BY <1>3 DEF Rest
<1>9. QED
  BY <1>1, <1>2, <1>4, <1>5, <1>7, <1>8 DEF Advanced

(* The list of steps while the modules are listed. *)
LEMMA ListedFirst ==
    /\ <<"listed">> \o <<"mmap">> = <<"listed", "mmap">>
    /\ <<"listed", "mmap">> # <<>> /\ Head(<<"listed", "mmap">>) = "listed" /\ <<"listed", "mmap">> \in Todo
    /\ <<"mmap">> # <<>> /\ Head(<<"mmap">>) = "mmap" /\ <<"mmap">> \in Todo
<1>1. <<"listed">> \o <<"mmap">> = <<"listed", "mmap">>
  <2> DEFINE S == {"listed", "mmap"}
             a == <<"listed">>
             b == <<"mmap">>
             c == <<"listed", "mmap">>
  <2>1. a \in Seq(S) /\ Len(a) = 1 /\ a[1] = "listed"
    OBVIOUS
  <2>2. b \in Seq(S) /\ Len(b) = 1 /\ b[1] = "mmap"
    OBVIOUS
  <2>3. c \in Seq(S) /\ Len(c) = 2 /\ c[1] = "listed" /\ c[2] = "mmap"
    OBVIOUS
  <2> HIDE DEF S, a, b, c
  <2>4. a \o b \in Seq(S) /\ Len(a \o b) = 2 /\ (a \o b)[1] = "listed" /\ (a \o b)[2] = "mmap"
    BY <2>1, <2>2, SMTT(40)
  <2>5. \A i \in 1 .. 2 : (a \o b)[i] = c[i]
    BY <2>3, <2>4
  <2>6. a \o b = c
    BY Zenon, <2>3, <2>4, <2>5, SeqEqual
  <2>7. QED
    BY <2>6 DEF a, b, c
<1>2. <<"listed", "mmap">> # <<>> /\ Head(<<"listed", "mmap">>) = "listed"
  OBVIOUS
<1>3. <<"mmap">> # <<>> /\ Head(<<"mmap">>) = "mmap"
  OBVIOUS
<1>4. <<"listed", "mmap">> \in Todo /\ <<"mmap">> \in Todo
  BY DEF Todo
<1>5. QED
  BY <1>1, <1>2, <1>3, <1>4

(* Listing the modules puts the callback of dl_iterate_phdr in its place. *)
LEMMA ListIs ==
    ASSUME HookTypes, NEW t \in Thread, List(t)
    PROVE  Advanced(t, "list")
<1>1. steps[t] \in Todo /\ NextIs(steps[t], "list")
  BY DEF HookTypes, At, NextIs, List
<1> DEFINE r == Tail(steps[t])
<1>2. Rest(steps[t], r)
  BY <1>1, TodoFacts DEF NextIs
<1>3. r = <<"mmap">> /\ Range(steps[t]) = {"list"} \cup Range(r)
  BY <1>1, <1>2 DEF Rest, EndsLeft, NextIs, StepsLeft
<1>4. steps' = [steps EXCEPT ![t] = r] \/ steps' = [steps EXCEPT ![t] = <<"listed">> \o r]
  BY DEF List
<1>5. steps'[t] = <<"mmap">> \/ steps'[t] = <<"listed", "mmap">>
  <2>1. steps'[t] = r \/ steps'[t] = <<"listed">> \o r
    BY <1>4 DEF HookTypes
  <2>2. QED
    BY <1>3, <2>1, ListedFirst
<1>6. (\A u \in Thread \ {t} : steps'[u] = steps[u]) /\ op' = op
  BY <1>4 DEF HookTypes, List
<1> HIDE DEF r
<1>7. \A x : x \in Range(r) <=> x = "mmap"
  BY <1>3, RangeOf1
<1>8. \A x : x \in Range(steps'[t]) <=> x = "mmap" \/ (x = "listed" /\ steps'[t] = <<"listed", "mmap">>)
  <2>1. CASE steps'[t] = <<"mmap">>
    BY <2>1, RangeOf1
  <2>2. CASE steps'[t] = <<"listed", "mmap">>
    BY <2>2, RangeOf2
  <2>3. QED
    BY <1>5, <2>1, <2>2
<1>9. \A x : x # "list" /\ x # "listed" => (Has(t, x)' <=> Has(t, x) /\ x # "list")
  BY <1>3, <1>7, <1>8 DEF Has
<1>10. steps'[t] # <<>> /\ Head(steps'[t]) \in {"mmap", "listed"} /\ steps'[t] \in Todo
  BY <1>5, ListedFirst
<1>11. KernelNext(steps[t], steps'[t])
  BY <1>10 DEF KernelNext, NextIs
<1>12. steps' \in [Thread -> Todo]
  BY <1>4, <1>6, <1>10 DEF HookTypes
<1>13. QED
  BY <1>1, <1>6, <1>9, <1>10, <1>11, <1>12 DEF Advanced, HookTypes

(* The callback of dl_iterate_phdr ends. *)
LEMMA ListedIs ==
    ASSUME HookTypes, NEW t \in Thread, Listed(t)
    PROVE  Advanced(t, "listed")
<1>1. steps[t] \in Todo /\ NextIs(steps[t], "listed")
  BY DEF HookTypes, At, NextIs, Listed
<1>2. Rest(steps[t], Tail(steps[t]))
  BY <1>1, TodoFacts DEF NextIs
<1>3. Tail(steps[t]) = <<"mmap">>
  BY <1>1, <1>2 DEF Rest, EndsLeft, NextIs
<1>4. Tail(steps[t]) # <<>>
  BY ONLY <1>3
<1>5. Advance(t) /\ At(t, "listed")
  BY <1>4 DEF Listed, Advance
<1>6. QED
  BY <1>5, AdvanceIs

(* No step gives a thread pages that it did not have. *)
LEMMA AdvancedKeepsTypes ==
    ASSUME HookTypes, NEW t \in Thread, NEW step, Advanced(t, step)
    PROVE  HookTypes' /\ \A u \in Thread : op'[u].range \subseteq op[u].range
<1>1. \A u \in Thread : steps'[u] = <<>> => op'[u].range = {}
  BY DEF HookTypes, Advanced, NoOp
<1>2. \A u \in Thread : op'[u].range \subseteq op[u].range
  BY DEF HookTypes, Advanced, NoOp
<1>3. \A u, v \in Thread : u # v => op'[u].range \cap op'[v].range = {}
  BY <1>2 DEF HookTypes
<1>4. ASSUME NEW u \in Thread, Has(u, "remove")', Has(u, "mmap")'
      PROVE  op'[u].fixed
  <2>1. CASE u # t
    BY <1>4, <2>1 DEF Advanced, HookTypes, Has
  <2>2. CASE u = t
    <3>1. Has(t, "remove") /\ Has(t, "mmap")
      BY <1>4, <2>2 DEF Advanced
    <3>2. steps'[t] # <<>>
      BY <1>4, <2>2, RangeEmpty DEF Has
    <3>3. QED
      BY <2>2, <3>1, <3>2 DEF Advanced, HookTypes
  <2>3. QED
    BY <2>1, <2>2
<1>5. QED
  BY <1>1, <1>2, <1>3, <1>4 DEF HookTypes, Advanced

(* Sequences put together. *)
LEMMA Concat11 ==
    ASSUME NEW a, NEW b
    PROVE  <<a>> \o <<b>> = <<a, b>>
<1> DEFINE S == {a, b}
           p == <<a>>
           q == <<b>>
           r == <<a, b>>
<1>1. p \in Seq(S) /\ Len(p) = 1 /\ p[1] = a
  OBVIOUS
<1>2. q \in Seq(S) /\ Len(q) = 1 /\ q[1] = b
  OBVIOUS
<1>3. r \in Seq(S) /\ Len(r) = 2 /\ r[1] = a /\ r[2] = b
  BY SMTT(60)
<1> HIDE DEF S, p, q, r
<1>4. /\ p \o q \in Seq(S) /\ Len(p \o q) = Len(p) + Len(q)
      /\ \A i \in 1 .. Len(p) + Len(q) : (p \o q)[i] = IF i <= Len(p) THEN p[i] ELSE q[i - Len(p)]
  BY ONLY Zenon, <1>1, <1>2, ConcatProperties
<1>5. ASSUME NEW i \in 1 .. 2 PROVE (p \o q)[i] = r[i]
  <2>1. i = 1 \/ i = 2
    OBVIOUS
  <2>2. QED
    BY <1>1, <1>2, <1>3, <1>4, <2>1
<1>6. p \o q = r
  BY <1>1, <1>2, <1>3, <1>4, <1>5, SeqEqual
<1>7. QED
  BY <1>6 DEF p, q, r

LEMMA Concat12 ==
    ASSUME NEW a, NEW b, NEW c
    PROVE  <<a>> \o <<b, c>> = <<a, b, c>>
<1> DEFINE S == {a, b, c}
           p == <<a>>
           q == <<b, c>>
           r == <<a, b, c>>
<1>1. p \in Seq(S) /\ Len(p) = 1 /\ p[1] = a
  OBVIOUS
<1>2. q \in Seq(S) /\ Len(q) = 2 /\ q[1] = b /\ q[2] = c
  OBVIOUS
<1>3. r \in Seq(S) /\ Len(r) = 3 /\ r[1] = a /\ r[2] = b /\ r[3] = c
  BY SMTT(60)
<1> HIDE DEF S, p, q, r
<1>4. /\ p \o q \in Seq(S) /\ Len(p \o q) = Len(p) + Len(q)
      /\ \A i \in 1 .. Len(p) + Len(q) : (p \o q)[i] = IF i <= Len(p) THEN p[i] ELSE q[i - Len(p)]
  BY ONLY Zenon, <1>1, <1>2, ConcatProperties
<1>5. ASSUME NEW i \in 1 .. 3 PROVE (p \o q)[i] = r[i]
  <2>1. i = 1 \/ i = 2 \/ i = 3
    OBVIOUS
  <2>2. QED
    BY <1>1, <1>2, <1>3, <1>4, <2>1
<1>6. p \o q = r
  BY <1>1, <1>2, <1>3, <1>4, <1>5, SeqEqual
<1>7. QED
  BY <1>6 DEF p, q, r

LEMMA Concat21 ==
    ASSUME NEW a, NEW b, NEW c
    PROVE  <<a, b>> \o <<c>> = <<a, b, c>>
<1> DEFINE S == {a, b, c}
           p == <<a, b>>
           q == <<c>>
           r == <<a, b, c>>
<1>1. p \in Seq(S) /\ Len(p) = 2 /\ p[1] = a /\ p[2] = b
  OBVIOUS
<1>2. q \in Seq(S) /\ Len(q) = 1 /\ q[1] = c
  OBVIOUS
<1>3. r \in Seq(S) /\ Len(r) = 3 /\ r[1] = a /\ r[2] = b /\ r[3] = c
  BY SMTT(60)
<1> HIDE DEF S, p, q, r
<1>4. /\ p \o q \in Seq(S) /\ Len(p \o q) = Len(p) + Len(q)
      /\ \A i \in 1 .. Len(p) + Len(q) : (p \o q)[i] = IF i <= Len(p) THEN p[i] ELSE q[i - Len(p)]
  BY ONLY Zenon, <1>1, <1>2, ConcatProperties
<1>5. ASSUME NEW i \in 1 .. 3 PROVE (p \o q)[i] = r[i]
  <2>1. i = 1 \/ i = 2 \/ i = 3
    OBVIOUS
  <2>2. QED
    BY <1>1, <1>2, <1>3, <1>4, <2>1
<1>6. p \o q = r
  BY <1>1, <1>2, <1>3, <1>4, <1>5, SeqEqual
<1>7. QED
  BY <1>6 DEF p, q, r

LEMMA Concat22 ==
    ASSUME NEW a, NEW b, NEW c, NEW d
    PROVE  <<a, b>> \o <<c, d>> = <<a, b, c, d>>
<1> DEFINE S == {a, b, c, d}
           p == <<a, b>>
           q == <<c, d>>
           r == <<a, b, c, d>>
<1>1. p \in Seq(S) /\ Len(p) = 2 /\ p[1] = a /\ p[2] = b
  OBVIOUS
<1>2. q \in Seq(S) /\ Len(q) = 2 /\ q[1] = c /\ q[2] = d
  OBVIOUS
<1>3. r \in Seq(S) /\ Len(r) = 4 /\ r[1] = a /\ r[2] = b /\ r[3] = c /\ r[4] = d
  BY SMTT(60)
<1> HIDE DEF S, p, q, r
<1>4. /\ p \o q \in Seq(S) /\ Len(p \o q) = Len(p) + Len(q)
      /\ \A i \in 1 .. Len(p) + Len(q) : (p \o q)[i] = IF i <= Len(p) THEN p[i] ELSE q[i - Len(p)]
  BY ONLY Zenon, <1>1, <1>2, ConcatProperties
<1>5. ASSUME NEW i \in 1 .. 4 PROVE (p \o q)[i] = r[i]
  <2>1. i = 1 \/ i = 2 \/ i = 3 \/ i = 4
    OBVIOUS
  <2>2. QED
    BY <1>1, <1>2, <1>3, <1>4, <2>1
<1>6. p \o q = r
  BY <1>1, <1>2, <1>3, <1>4, <1>5, SeqEqual
<1>7. QED
  BY <1>6 DEF p, q, r

LEMMA Concat32 ==
    ASSUME NEW a, NEW b, NEW c, NEW d, NEW e
    PROVE  <<a, b, c>> \o <<d, e>> = <<a, b, c, d, e>>
<1> DEFINE S == {a, b, c, d, e}
           p == <<a, b, c>>
           q == <<d, e>>
           r == <<a, b, c, d, e>>
<1>1. p \in Seq(S) /\ Len(p) = 3 /\ p[1] = a /\ p[2] = b /\ p[3] = c
  OBVIOUS
<1>2. q \in Seq(S) /\ Len(q) = 2 /\ q[1] = d /\ q[2] = e
  OBVIOUS
<1>3. r \in Seq(S) /\ Len(r) = 5 /\ r[1] = a /\ r[2] = b /\ r[3] = c /\ r[4] = d /\ r[5] = e
  BY SMTT(60)
<1> HIDE DEF S, p, q, r
<1>4. /\ p \o q \in Seq(S) /\ Len(p \o q) = Len(p) + Len(q)
      /\ \A i \in 1 .. Len(p) + Len(q) : (p \o q)[i] = IF i <= Len(p) THEN p[i] ELSE q[i - Len(p)]
  BY ONLY Zenon, <1>1, <1>2, ConcatProperties
<1>5. ASSUME NEW i \in 1 .. 5 PROVE (p \o q)[i] = r[i]
  <2>1. i = 1 \/ i = 2 \/ i = 3 \/ i = 4 \/ i = 5
    OBVIOUS
  <2>2. QED
    BY <1>1, <1>2, <1>3, <1>4, <2>1, SMTT(40)
<1>6. p \o q = r
  BY <1>1, <1>2, <1>3, <1>4, <1>5, SeqEqual, SMTT(40)
<1>7. QED
  BY <1>6 DEF p, q, r

(* The steps of an mmap. *)
LEMMA MmapStepsAre ==
    ASSUME NEW followed \in BOOLEAN, NEW w \in BOOLEAN, NEW fixed \in BOOLEAN, NEW s, s = MmapSteps(followed, w, fixed)
    PROVE  /\ s \in Todo /\ s # <<>> /\ Head(s) \in {"track", "list"}
           /\ \A x : x \in Range(s) <=> \/ x = "list" \/ x = "mmap"
                                        \/ x = "track" /\ followed
                                        \/ x = "register" /\ followed /\ w
                                        \/ x = "remove" /\ followed /\ fixed
<1>1. \A q \in {<<>>, <<"track">>, <<"register">>, <<"remove">>, <<"list", "mmap">>, <<"track", "register">>,
                <<"track", "remove">>, <<"track", "register", "remove">>} : q \o <<>> = q /\ <<>> \o q = q
  OBVIOUS
<1>2. CASE ~followed
  <2>1. s = <<"list", "mmap">>
    BY <1>1, <1>2 DEF MmapSteps
  <2>2. \A x : x \in Range(s) <=> x = "list" \/ x = "mmap"
    BY <2>1, RangeOf2
  <2>3. s \in Todo /\ s # <<>> /\ Head(s) = "list"
    BY ONLY <2>1 DEF Todo
  <2>4. QED
    BY <1>2, <2>2, <2>3
<1>3. CASE followed /\ ~w /\ ~fixed
  <2>1. s = <<"track">> \o <<"list", "mmap">>
    BY <1>1, <1>3 DEF MmapSteps, RemoveSteps
  <2>2. s = <<"track", "list", "mmap">>
    BY <2>1, Concat12
  <2>3. \A x : x \in Range(s) <=> (x = "track" \/ x = "list" \/ x = "mmap")
    BY ONLY <2>2, RangeOf3
  <2>4. s \in Todo /\ s # <<>> /\ Head(s) = "track"
    BY ONLY <2>2 DEF Todo
  <2>5. QED
    BY <1>3, <2>3, <2>4
<1>4. CASE followed /\ ~w /\ fixed
  <2>1. s = (<<"track">> \o <<"remove">>) \o <<"list", "mmap">>
    BY <1>1, <1>4 DEF MmapSteps, RemoveSteps
  <2>2. s = <<"track", "remove", "list", "mmap">>
    <3>1. <<"track">> \o <<"remove">> = <<"track", "remove">>
      BY Concat11
    <3>2. <<"track", "remove">> \o <<"list", "mmap">> = <<"track", "remove", "list", "mmap">>
      BY Concat22
    <3>3. QED
      BY ONLY <2>1, <3>1, <3>2, Zenon
  <2>3. \A x : x \in Range(s) <=> (x = "track" \/ x = "remove" \/ x = "list" \/ x = "mmap")
    BY ONLY <2>2, RangeOf4
  <2>4. s \in Todo /\ s # <<>> /\ Head(s) = "track"
    BY ONLY <2>2 DEF Todo
  <2>5. QED
    BY <1>4, <2>3, <2>4
<1>5. CASE followed /\ w /\ ~fixed
  <2>1. s = (<<"track">> \o <<"register">>) \o <<"list", "mmap">>
    BY <1>1, <1>5 DEF MmapSteps, RemoveSteps
  <2>2. s = <<"track", "register", "list", "mmap">>
    <3>1. <<"track">> \o <<"register">> = <<"track", "register">>
      BY Concat11
    <3>2. <<"track", "register">> \o <<"list", "mmap">> = <<"track", "register", "list", "mmap">>
      BY Concat22
    <3>3. QED
      BY ONLY <2>1, <3>1, <3>2, Zenon
  <2>3. \A x : x \in Range(s) <=> (x = "track" \/ x = "register" \/ x = "list" \/ x = "mmap")
    BY ONLY <2>2, RangeOf4
  <2>4. s \in Todo /\ s # <<>> /\ Head(s) = "track"
    BY ONLY <2>2 DEF Todo
  <2>5. QED
    BY <1>5, <2>3, <2>4
<1>6. CASE followed /\ w /\ fixed
  <2>1. s = ((<<"track">> \o <<"register">>) \o <<"remove">>) \o <<"list", "mmap">>
    BY <1>1, <1>6 DEF MmapSteps, RemoveSteps
  <2>2. s = <<"track", "register", "remove", "list", "mmap">>
    <3>1. <<"track">> \o <<"register">> = <<"track", "register">>
      BY Concat11
    <3>2. <<"track", "register">> \o <<"remove">> = <<"track", "register", "remove">>
      BY Concat21
    <3>3. <<"track", "register", "remove">> \o <<"list", "mmap">> = <<"track", "register", "remove", "list", "mmap">>
      BY Concat32
    <3>4. QED
      BY ONLY <2>1, <3>1, <3>2, <3>3, Zenon
  <2>3. \A x : x \in Range(s) <=> (x = "track" \/ x = "register" \/ x = "remove" \/ x = "list" \/ x = "mmap")
    BY ONLY <2>2, RangeOf5
  <2>4. s \in Todo /\ s # <<>> /\ Head(s) = "track"
    BY ONLY <2>2 DEF Todo
  <2>5. QED
    BY <1>6, <2>3, <2>4
<1>8. QED
  BY <1>2, <1>3, <1>4, <1>5, <1>6

-----------------------------------------------------------------------------
(* Thread t has made a call about R. *)
Entered(t, R, w, f) ==
    /\ steps[t] = <<>> /\ op[t].range = {} /\ \A x : ~Has(t, x)
    /\ steps'[t] # <<>> /\ op'[t] = [range |-> R, rw |-> w, fixed |-> f]
    /\ \A u \in Thread \ {t} : steps'[u] = steps[u] /\ op'[u] = op[u] /\ op[u].range \cap R = {}

(* A call takes a thread from having nothing to do to the steps of the call. *)
LEMMA EnterIs ==
    ASSUME HookTypes, NEW t \in Thread, NEW R \in SUBSET Page, NEW w \in BOOLEAN, NEW f \in BOOLEAN,
           NEW todo \in Todo, todo # <<>>, Ready(t), Enter(t, R, w, f, todo), Undisturbed(t, R),
           "remove" \in Range(todo) /\ "mmap" \in Range(todo) => f
    PROVE  Entered(t, R, w, f) /\ steps'[t] = todo /\ HookTypes'
<1>1. steps[t] = <<>> /\ op[t].range = {}
  BY DEF Ready, HookTypes
<1>2. \A x : ~Has(t, x)
  BY <1>1, RangeEmpty DEF Has
<1>3. steps' = [steps EXCEPT ![t] = todo] /\ op' = [op EXCEPT ![t] = [range |-> R, rw |-> w, fixed |-> f]]
  BY DEF Enter
<1>4. steps' \in [Thread -> Todo] /\ steps'[t] = todo /\ \A u \in Thread \ {t} : steps'[u] = steps[u]
  BY <1>3 DEF HookTypes
<1>5. /\ op' \in [Thread -> [range : SUBSET Page, rw : BOOLEAN, fixed : BOOLEAN]]
      /\ op'[t] = [range |-> R, rw |-> w, fixed |-> f]
      /\ \A u \in Thread \ {t} : op'[u] = op[u]
  BY <1>3 DEF HookTypes
<1>6. \A u \in Thread \ {t} : op[u].range \cap R = {}
  BY DEF Undisturbed
<1>7. \A u \in Thread : steps'[u] = <<>> => op'[u].range = {}
  BY <1>4, <1>5 DEF HookTypes
<1>8. \A u, v \in Thread : u # v => op'[u].range \cap op'[v].range = {}
  BY <1>5, <1>6 DEF HookTypes
<1>9. ASSUME NEW u \in Thread, Has(u, "remove")', Has(u, "mmap")'
      PROVE  op'[u].fixed
  <2>1. CASE u = t
    <3>1. "remove" \in Range(todo) /\ "mmap" \in Range(todo)
      BY <1>4, <1>9, <2>1 DEF Has
    <3>2. QED
      BY <1>5, <2>1, <3>1
  <2>2. CASE u # t
    BY <1>4, <1>5, <1>9, <2>2 DEF Has, HookTypes
  <2>3. QED
    BY <2>1, <2>2
<1>10. QED
  BY <1>1, <1>2, <1>4, <1>5, <1>6, <1>7, <1>8, <1>9 DEF Entered, HookTypes

(* Where nobody is about what is not mapped, a mapping that the kernel places
   disturbs nobody. *)
LEMMA mmapIs ==
    ASSUME HookTypes, Kernel, NEW t \in Thread, NEW R \in Ranges, NEW w \in BOOLEAN, NEW fixed \in BOOLEAN,
           NEW followed \in BOOLEAN, mmap(t, R, w, fixed, followed)
    PROVE  /\ R \subseteq Page
           /\ Entered(t, R, w, fixed) /\ HookTypes'
           /\ \A x : Has(t, x)' <=> \/ x = "list" \/ x = "mmap"
                                    \/ x = "track" /\ followed
                                    \/ x = "register" /\ followed /\ w
                                    \/ x = "remove" /\ followed /\ fixed
           /\ \A x \in {"unmap", "drop", "protect"} : ~NextIs(steps'[t], x)
<1>1. R \in SUBSET Page
  BY FaultsAssumption
<1>2. Undisturbed(t, R)
  BY DEF mmap, Kernel, Undisturbed
<1> DEFINE todo == MmapSteps(followed, w, fixed)
<1>3. Ready(t) /\ Enter(t, R, w, fixed, todo)
  BY DEF mmap
<1>4. /\ todo \in Todo /\ todo # <<>> /\ Head(todo) \in {"track", "list"}
      /\ \A x : x \in Range(todo) <=> \/ x = "list" \/ x = "mmap"
                                      \/ x = "track" /\ followed
                                      \/ x = "register" /\ followed /\ w
                                      \/ x = "remove" /\ followed /\ fixed
  BY MmapStepsAre
<1> HIDE DEF todo
<1>5. Entered(t, R, w, fixed) /\ steps'[t] = todo /\ HookTypes'
  BY <1>1, <1>2, <1>3, <1>4, EnterIs
<1>6. QED
  BY <1>1, <1>4, <1>5 DEF Has, NextIs

(* A call about memory that is mapped. *)
OtherCall(t, R) ==
    /\ R \subseteq mapped
    /\ \E w \in BOOLEAN : Entered(t, R, w, FALSE) /\ (NextIs(steps'[t], "protect") /\ w => R \cap tracked = {})
    /\ ~Has(t, "mmap")' /\ ~NextIs(steps'[t], "unmap") /\ ~NextIs(steps'[t], "drop")
    /\ UNCHANGED <<kernelVars, tracked, faultVars, pipe, parserVars, historyVars>>

(* munmap, madvise and mprotect are such calls. *)
LEMMA OtherCallIs ==
    ASSUME HookTypes, NEW t \in Thread, NEW R \in Ranges,
           munmap(t, R) \/ madvise(t, R) \/ \E w \in BOOLEAN : mprotect(t, R, w)
    PROVE  OtherCall(t, R) /\ HookTypes'
<1>1. R \in SUBSET Page /\ R \subseteq mapped /\ Ready(t) /\ Undisturbed(t, R)
  BY FaultsAssumption DEF munmap, madvise, mprotect, Starts
<1>2. UNCHANGED <<kernelVars, tracked, faultVars, pipe, parserVars, historyVars>>
  BY DEF munmap, madvise, mprotect
<1>3. ASSUME NEW w \in BOOLEAN, NEW todo \in Todo, todo # <<>>, Enter(t, R, w, FALSE, todo), "mmap" \notin Range(todo),
             Head(todo) # "unmap", Head(todo) # "drop", Head(todo) = "protect" /\ w => R \cap tracked = {}
      PROVE  OtherCall(t, R) /\ HookTypes'
  <2>1. Entered(t, R, w, FALSE) /\ steps'[t] = todo /\ HookTypes'
    BY <1>1, <1>3, EnterIs
  <2>2. QED
    BY <1>1, <1>2, <1>3, <2>1 DEF OtherCall, Has, NextIs
<1>4. CASE munmap(t, R)
  <2>1. Enter(t, R, FALSE, FALSE, MunmapSteps)
    BY <1>4 DEF munmap
  <2>2. MunmapSteps \in Todo /\ MunmapSteps # <<>> /\ Head(MunmapSteps) = "track"
    BY ONLY TRUE DEF MunmapSteps, Todo
  <2>3. \A x : x \in Range(MunmapSteps) <=> (x = "track" \/ x = "munmap" \/ x = "unmap")
    BY RangeOf3 DEF MunmapSteps
  <2>4. FALSE \in BOOLEAN /\ "mmap" \notin Range(MunmapSteps) /\ Head(MunmapSteps) # "unmap" /\ Head(MunmapSteps) # "drop"
        /\ Head(MunmapSteps) # "protect"
    BY <2>2, <2>3
  <2>5. QED
    BY <1>3, <2>1, <2>2, <2>4, Zenon
<1>5. CASE madvise(t, R)
  <2>1. Enter(t, R, FALSE, FALSE, MadviseSteps)
    BY <1>5 DEF madvise
  <2>2. MadviseSteps \in Todo /\ MadviseSteps # <<>> /\ Head(MadviseSteps) = "remove"
    BY ONLY TRUE DEF MadviseSteps, Todo
  <2>3. \A x : x \in Range(MadviseSteps) <=> (x = "remove" \/ x = "drop")
    BY RangeOf2 DEF MadviseSteps
  <2>4. FALSE \in BOOLEAN /\ "mmap" \notin Range(MadviseSteps) /\ Head(MadviseSteps) # "unmap" /\ Head(MadviseSteps) # "drop"
        /\ Head(MadviseSteps) # "protect"
    BY <2>2, <2>3
  <2>5. QED
    BY <1>3, <2>1, <2>2, <2>4, Zenon
<1>6. ASSUME NEW w \in BOOLEAN, mprotect(t, R, w)
      PROVE  OtherCall(t, R) /\ HookTypes'
  <2> DEFINE todo == ProtectSteps(R, w)
  <2>1. Enter(t, R, w, FALSE, todo)
    BY <1>6 DEF mprotect
  <2>2. <<"register">> \o <<"protect">> = <<"register", "protect">> /\ <<>> \o <<"protect">> = <<"protect">>
    BY Concat11
  <2>3. CASE w /\ KnownByOne(R)
    <3>1. todo = <<"register", "protect">>
      BY <2>2, <2>3 DEF ProtectSteps
    <3> HIDE DEF todo
    <3>2. todo \in Todo /\ todo # <<>> /\ Head(todo) = "register"
      BY ONLY <3>1 DEF Todo
    <3>3. \A x : x \in Range(todo) <=> (x = "register" \/ x = "protect")
      BY ONLY <3>1, RangeOf2
    <3>4. "mmap" \notin Range(todo) /\ Head(todo) # "unmap" /\ Head(todo) # "drop" /\ Head(todo) # "protect"
      BY <3>2, <3>3
    <3>5. QED
      BY <1>3, <2>1, <3>2, <3>4, Zenon
  <2>4. CASE ~(w /\ KnownByOne(R))
    <3>1. todo = <<"protect">>
      BY <2>2, <2>4 DEF ProtectSteps
    <3> HIDE DEF todo
    <3>2. todo \in Todo /\ todo # <<>> /\ Head(todo) = "protect"
      BY ONLY <3>1 DEF Todo
    <3>3. \A x : x \in Range(todo) <=> x = "protect"
      BY ONLY <3>1, RangeOf1
    <3>4. w => R \cap tracked = {}
      BY <2>4 DEF KnownByOne
    <3>5. "mmap" \notin Range(todo) /\ Head(todo) # "unmap" /\ Head(todo) # "drop"
      BY <3>2, <3>3
    <3>6. QED
      BY <1>3, <2>1, <3>2, <3>4, <3>5, Zenon
  <2>5. QED
    BY <2>3, <2>4
<1>7. QED
  BY <1>4, <1>5, <1>6

-----------------------------------------------------------------------------
(* Each step of a hook takes the step it is named for from the list. *)
LEMMA StepIs ==
    ASSUME HookTypes, NEW t \in Thread
    PROVE  /\ Track(t) => Advanced(t, "track")
           /\ Register(t) => Advanced(t, "register")
           /\ Protect(t) => Advanced(t, "protect")
           /\ Unmap(t) => Advanced(t, "unmap")
           /\ Drop(t) => Advanced(t, "drop")
           /\ Remove(t) => Advanced(t, "remove")
           /\ EmitMmap(t) => Advanced(t, "mmap")
           /\ EmitMunmap(t) => Advanced(t, "munmap")
           /\ List(t) => Advanced(t, "list")
           /\ Listed(t) => Advanced(t, "listed")
BY AdvanceIs, ListIs, ListedIs DEF Track, Register, Protect, Unmap, Drop, Remove, EmitMmap, EmitMunmap

(* The invariant of the threads, of the types and of the kernel, step by step. *)
LEMMA HookTypesKept ==
    ASSUME HookTypes, Kernel, Next
    PROVE  HookTypes'
<1>1. ASSUME NEW t \in Thread, Call(t) PROVE HookTypes'
  BY <1>1, mmapIs, OtherCallIs DEF Call
<1>2. ASSUME NEW t \in Thread, Step(t) PROVE HookTypes'
  BY <1>2, StepIs, AdvancedKeepsTypes DEF Step
<1>3. CASE UNCHANGED <<steps, op>>
  BY <1>3 DEF HookTypes, Has
<1>4. QED
  BY <1>1, <1>2, <1>3 DEF Next, Touch, MarkDirty, FaultThread, FaultPoll, PollReturns, PollGoesWrong,
     PollError, PollFails, FaultListed, FaultReport, ZeroPage, ZeroPageExists, AfterExists, GoOn,
     ZeroPageFails, ReadFails, GiveUp, ParseRecord, hookVars

LEMMA TypesKept ==
    ASSUME Types, Kernel, Next
    PROVE  Types'
<1>1. HookTypes'
  BY HookTypesKept DEF Types
<1>2. pipe' \in Seq(Records)
  <2>1. ASSUME NEW type \in {"PageFault", "PageRemove", "Mmap", "Munmap"}, NEW R \in SUBSET Page, Write(type, R)
        PROVE  pipe' \in Seq(Records)
    BY <2>1 DEF Write, Types, Records
  <2>2. ASSUME NEW t \in Thread, Remove(t) \/ EmitMmap(t) \/ EmitMunmap(t)
        PROVE  pipe' \in Seq(Records)
    BY <2>1, <2>2 DEF Remove, EmitMmap, EmitMunmap, Types, HookTypes
  <2>3. ASSUME NEW p \in Page, FaultReport(p) PROVE pipe' \in Seq(Records)
    BY <2>1, <2>3 DEF FaultReport
  <2>4. CASE ParseRecord
    BY <2>4, RecordRead DEF Types
  <2>5. CASE UNCHANGED pipe
    BY <2>5 DEF Types
  <2>6. ASSUME NEW t \in Thread, Call(t) \/ \E p \in Page : Touch(t, p) PROVE UNCHANGED pipe
    BY <2>6, ZenonT(40) DEF Call, mmap, munmap, mprotect, madvise, Touch
  <2>7. ASSUME NEW t \in Thread, Step(t), ~Remove(t), ~EmitMmap(t), ~EmitMunmap(t) PROVE UNCHANGED pipe
    BY <2>7 DEF Step, Track, Register, Protect, Unmap, Drop, List, Listed
  <2>8. ASSUME MarkDirty \/ FaultPoll \/ PollGoesWrong \/ FaultListed \/ ZeroPage
               \/ ZeroPageExists \/ ZeroPageFails \/ ReadFails
        PROVE  UNCHANGED pipe
    BY <2>8 DEF MarkDirty, FaultPoll, PollReturns, PollGoesWrong, PollError, PollFails, FaultListed,
       ZeroPage, ZeroPageExists, ZeroPageFails, ReadFails
  <2>9. QED
    BY <2>2, <2>3, <2>4, <2>5, <2>6, <2>7, <2>8 DEF Next, FaultThread
<1>3. place' \subseteq Page /\ (faultPc' # "zero" => place' = {})
  <2>1. ASSUME NEW t \in Thread, Call(t) \/ \E p \in Page : Touch(t, p) PROVE UNCHANGED faultVars
    BY <2>1, ZenonT(40) DEF Call, mmap, munmap, mprotect, madvise, Touch
  <2>2. ASSUME NEW t \in Thread, Step(t) PROVE UNCHANGED faultVars
    BY <2>2 DEF Step, Track, Register, Protect, Unmap, Drop, Remove, EmitMmap, EmitMunmap, List, Listed
  <2>3. MarkDirty \/ ParseRecord => UNCHANGED faultVars
    BY DEF MarkDirty, ParseRecord
  <2>4. CASE FaultThread \/ PollGoesWrong
    BY <2>4 DEF Types, FaultThread, FaultPoll, PollReturns, PollGoesWrong, PollError, PollFails,
       FaultListed, FaultReport, ZeroPage, ZeroPageExists, AfterExists, GoOn, ZeroPageFails, ReadFails,
       GiveUp
  <2>5. CASE UNCHANGED faultVars
    BY <2>5 DEF Types, faultVars
  <2>6. QED
    BY <2>1, <2>2, <2>3, <2>4, <2>5 DEF Next
<1>4. pageFaults' \subseteq Page /\ mmaps' \subseteq Page
  <2>1. ASSUME NEW t \in Thread, Call(t) \/ \E p \in Page : Touch(t, p) PROVE UNCHANGED parserVars
    BY <2>1, ZenonT(40) DEF Call, mmap, munmap, mprotect, madvise, Touch
  <2>2. ASSUME NEW t \in Thread, Step(t) PROVE UNCHANGED parserVars
    BY <2>2 DEF Step, Track, Register, Protect, Unmap, Drop, Remove, EmitMmap, EmitMunmap, List, Listed
  <2>3. MarkDirty \/ FaultThread \/ PollGoesWrong => UNCHANGED parserVars
    BY DEF MarkDirty, FaultThread, FaultPoll, PollReturns, PollGoesWrong, PollError, PollFails, FaultListed,
       FaultReport, ZeroPage, ZeroPageExists, ZeroPageFails, ReadFails
  <2>4. CASE ParseRecord
    <3>1. Head(pipe).range \subseteq Page
      BY <2>4, TakeRecord DEF ParseRecord, Types, Records
    <3>2. QED
      BY <2>4, <3>1 DEF ParseRecord, KnownAfterMap, Types
  <2>5. CASE UNCHANGED parserVars
    BY <2>5 DEF Types, parserVars
  <2>6. QED
    BY <2>1, <2>2, <2>3, <2>4, <2>5 DEF Next
<1>5. QED
  BY <1>1, <1>2, <1>3, <1>4 DEF Types

LEMMA KernelKept ==
    ASSUME Types, Kernel, Next
    PROVE  Kernel'
<1>0. HookTypes
  BY DEF Types
<1>1. ASSUME NEW t \in Thread, NEW R \in Ranges, NEW w \in BOOLEAN, NEW fixed \in BOOLEAN, NEW followed \in BOOLEAN,
             mmap(t, R, w, fixed, followed)
      PROVE  Kernel'
  <2>1. Entered(t, R, w, fixed)
    BY <1>0, <1>1, mmapIs
  <2>2. mapped' = mapped \cup R /\ rw' \subseteq rw \cup R /\ registered' = registered \ R /\ present' = present \ R
    BY <1>1 DEF mmap, Forget
  <2>3. QED
    BY <2>1, <2>2 DEF Entered, Kernel
<1>2. ASSUME NEW t \in Thread, NEW R, OtherCall(t, R) PROVE Kernel'
  BY <1>2 DEF OtherCall, Entered, Kernel, kernelVars
<1>3. ASSUME NEW t \in Thread, Step(t) PROVE Kernel'
  <2>1. \A u \in Thread : op'[u].range \subseteq op[u].range
    BY <1>0, <1>3, StepIs, AdvancedKeepsTypes DEF Step
  <2>2. CASE Unmap(t)
    <3>1. mapped' = mapped \ op[t].range /\ rw' = rw \ op[t].range /\ registered' = registered \ op[t].range
          /\ present' = present \ op[t].range
      BY <2>2 DEF Unmap, Forget
    <3>2. op'[t].range = {}
      <4>1. Advanced(t, "unmap")
        BY <1>0, <2>2, StepIs
      <4>2. QED
        BY <4>1 DEF Advanced, NextIs, EndsLeft, NoOp
    <3>3. \A u \in Thread \ {t} : op'[u].range \cap op[t].range = {}
      BY <1>0, <2>1 DEF HookTypes
    <3>4. QED
      BY <2>1, <3>1, <3>2, <3>3 DEF Kernel
  <2>3. CASE ~Unmap(t)
    <3>1. mapped' = mapped /\ rw' \subseteq rw \cup op[t].range /\ registered' \subseteq registered \cup op[t].range
          /\ present' \subseteq present
      BY <1>3, <2>3 DEF Step, Track, Register, Protect, Drop, Remove, EmitMmap, EmitMunmap, List, Listed, kernelVars
    <3>2. QED
      BY <2>1, <3>1 DEF Kernel
  <2>4. QED
    BY <2>2, <2>3
<1>4. ASSUME NEW t \in Thread, NEW p \in Page, Touch(t, p) PROVE Kernel'
  BY <1>4 DEF Touch, Usable, Kernel, hookVars
<1>5. CASE FaultThread \/ PollGoesWrong \/ MarkDirty \/ ParseRecord
  <2>1. mapped' = mapped /\ rw' = rw /\ op' = op /\ registered' \subseteq registered
        /\ present' \subseteq present \cup registered
    BY <1>5 DEF MarkDirty, FaultThread, FaultPoll, PollReturns, PollGoesWrong, PollError, PollFails,
       FaultListed, FaultReport, ZeroPage, ZeroPageExists, AfterExists, GoOn, ZeroPageFails, ReadFails,
       GiveUp, ParseRecord, hookVars, kernelVars
  <2>2. QED
    BY <2>1 DEF Kernel
<1>6. QED
  BY <1>0, <1>1, <1>2, <1>3, <1>4, <1>5, OtherCallIs DEF Next, Call

-----------------------------------------------------------------------------
(* A thread that did not take one of these steps still has it to do. *)
LEMMA StillHas ==
    ASSUME HookTypes, NEW t \in Thread, NEW step, Advanced(t, step)
    PROVE  /\ \A u \in Thread : \A x : x # step /\ x # "list" /\ x # "listed" /\ Has(u, x) =>
                    Has(u, x)' /\ op'[u] = op[u]
           /\ \A u \in Thread : \A x : x # "list" /\ x # "listed" /\ Has(u, x)' =>
                    Has(u, x) /\ op'[u] = op[u] /\ (u = t => x # step)
           /\ \A u \in Thread \ {t} : \A x : NextIs(steps'[u], x) <=> NextIs(steps[u], x)
<1>1. \A u \in Thread : \A x : Has(u, x)' => steps'[u] # <<>>
  BY RangeEmpty DEF Has
<1>2. \A u \in Thread \ {t} : \A x : Has(u, x)' <=> Has(u, x)
  BY DEF Advanced, Has
<1>3. \A u \in Thread : steps'[u] # <<>> => op'[u] = op[u]
  BY DEF Advanced
<1>4. \A x : x # "list" /\ x # "listed" => (Has(t, x)' <=> Has(t, x) /\ x # step)
  BY DEF Advanced
<1>5. \A u \in Thread \ {t} : \A x : NextIs(steps'[u], x) <=> NextIs(steps[u], x)
  BY DEF Advanced
<1> HIDE DEF Has
<1>6. QED
  BY <1>1, <1>2, <1>3, <1>4, <1>5

(* What the hooks enter in the tracker goes along with what the kernel maps. *)
LEMMA MappedIsKnownKept ==
    ASSUME TypeInv, MappedIsKnown, Next
    PROVE  MappedIsKnown'
<1>0. HookTypes /\ Kernel
  BY DEF TypeInv, Types
<1>1. ASSUME NEW t \in Thread, NEW R \in Ranges, NEW w \in BOOLEAN, NEW fixed \in BOOLEAN, NEW followed \in BOOLEAN,
             mmap(t, R, w, fixed, followed)
      PROVE  MappedIsKnown'
  <2>1. Entered(t, R, w, fixed) /\ (Has(t, "track")' <=> followed)
    BY <1>0, <1>1, mmapIs
  <2>2. mapped' = mapped \cup R /\ tracked' = tracked
        /\ unfollowed' = (IF followed THEN unfollowed \ R ELSE unfollowed \cup R)
        /\ gaps' = (IF followed THEN gaps ELSE gaps \ R)
    BY <1>1 DEF mmap
  <2>3. ASSUME NEW p \in R
        PROVE  p \in unfollowed' \/ (p \in op'[t].range /\ Has(t, "track")')
    BY <2>1, <2>2 DEF Entered
  <2>4. ASSUME NEW p \in mapped, p \notin R
        PROVE  \/ p \in tracked' \cup unfollowed' \cup gaps'
               \/ \E u \in Thread : p \in op'[u].range /\ (Has(u, "unmap")' \/ Has(u, "track")')
    BY <2>1, <2>2, <2>4 DEF MappedIsKnown, Entered, Has
  <2>5. QED
    BY <2>2, <2>3, <2>4 DEF MappedIsKnown
<1>2. ASSUME NEW t \in Thread, NEW R, OtherCall(t, R) PROVE MappedIsKnown'
  <2>1. \A u \in Thread : \A x : Has(u, x) => u # t /\ Has(u, x)' /\ op'[u] = op[u]
    BY <1>2 DEF OtherCall, Entered, Has
  <2>2. UNCHANGED <<mapped, tracked, unfollowed, gaps>>
    BY <1>2 DEF OtherCall, kernelVars, historyVars
  <2>3. QED
    BY <2>1, <2>2 DEF MappedIsKnown
<1>3. ASSUME NEW t \in Thread, Track(t) PROVE MappedIsKnown'
  <2>1. Advanced(t, "track") /\ mapped' = mapped /\ unfollowed' = unfollowed
    BY <1>0, <1>3, StepIs DEF Track, kernelVars
  <2>2. \A u \in Thread : Has(u, "unmap") => Has(u, "unmap")' /\ op'[u] = op[u]
    BY <1>0, <2>1, StillHas
  <2>3. \A u \in Thread \ {t} : Has(u, "track") => Has(u, "track")' /\ op'[u] = op[u]
    BY <2>1 DEF Advanced, Has
  <2> DEFINE R == op[t].range
  <2>4. Has(t, "mmap") \/ Has(t, "unmap")
    BY <2>1 DEF Advanced, EndsLeft, NextIs, Has
  <2>5. CASE Has(t, "mmap")
    <3>1. tracked \subseteq tracked' /\ gaps' = (gaps \ R) \cup (R \ tracked')
      BY <1>3, <2>5 DEF Track, Has, KnownAfterMap
    <3>2. \A p \in mapped : p \in R => p \in tracked' \cup gaps'
      BY <3>1
    <3>3. \A p \in mapped : p \notin R /\ p \in tracked \cup gaps => p \in tracked' \cup gaps'
      BY <3>1
    <3> HIDE DEF R
    <3>4. ASSUME NEW p \in mapped, p \notin R, p \notin tracked \cup unfollowed \cup gaps
          PROVE  \E u \in Thread : p \in op'[u].range /\ (Has(u, "unmap")' \/ Has(u, "track")')
      BY <2>2, <2>3, <3>4 DEF MappedIsKnown, R
    <3>5. QED
      BY <2>1, <3>2, <3>3, <3>4 DEF MappedIsKnown
  <2>6. CASE ~Has(t, "mmap")
    <3>1. tracked' = tracked \ R /\ gaps' = gaps
      BY <1>3, <2>6 DEF Track, Has
    <3>2. ASSUME NEW p \in mapped
          PROVE  \/ p \in tracked' \cup unfollowed' \cup gaps'
                 \/ \E u \in Thread : p \in op'[u].range /\ (Has(u, "unmap")' \/ Has(u, "track")')
      <4>1. CASE p \in R
        BY <2>2, <2>4, <2>6, <4>1
      <4>2. CASE p \notin R
        BY <2>1, <2>2, <2>3, <3>1, <4>2 DEF MappedIsKnown
      <4>3. QED
        BY <4>1, <4>2
    <3>3. QED
      BY <2>1, <3>2 DEF MappedIsKnown
  <2>7. QED
    BY <2>5, <2>6
<1>4. ASSUME NEW t \in Thread, Unmap(t) PROVE MappedIsKnown'
  <2>1. Advanced(t, "unmap") /\ tracked' = tracked /\ mapped' = mapped \ op[t].range
        /\ unfollowed' = unfollowed \ op[t].range /\ gaps' = gaps \ op[t].range
    BY <1>0, <1>4, StepIs DEF Unmap
  <2>2. \A u \in Thread \ {t} : \A x : Has(u, x) => Has(u, x)' /\ op'[u] = op[u]
    BY <2>1 DEF Advanced, Has
  <2>3. QED
    BY <2>1, <2>2 DEF MappedIsKnown
<1>5. ASSUME NEW t \in Thread, Step(t), ~Track(t), ~Unmap(t) PROVE MappedIsKnown'
  <2>1. \A u \in Thread : \A x \in {"unmap", "track"} : Has(u, x) => Has(u, x)' /\ op'[u] = op[u]
    BY <1>0, <1>5, StepIs, StillHas DEF Step
  <2>2. UNCHANGED <<mapped, tracked, unfollowed, gaps>>
    BY <1>5 DEF Step, Register, Protect, Drop, Remove, EmitMmap, EmitMunmap, List, Listed, kernelVars, historyVars
  <2>3. QED
    BY <2>1, <2>2 DEF MappedIsKnown
<1>6. CASE FaultThread \/ PollGoesWrong \/ MarkDirty \/ ParseRecord \/ \E t \in Thread, p \in Page : Touch(t, p)
  <2>1. UNCHANGED <<mapped, tracked, unfollowed, gaps, op, steps>>
    BY <1>6 DEF MarkDirty, FaultThread, FaultPoll, PollReturns, PollGoesWrong, PollError, PollFails,
       FaultListed, FaultReport, ZeroPage, ZeroPageExists, ZeroPageFails, ReadFails, ParseRecord, Touch,
       kernelVars, hookVars, historyVars
  <2>2. QED
    BY <2>1 DEF MappedIsKnown, Has
<1>7. QED
  BY <1>0, <1>1, <1>2, <1>3, <1>4, <1>5, <1>6, OtherCallIs DEF Next, Call

(* The mapping is entered in the tracker before its pages are registered. *)
LEMMA NoTrackLeft ==
    ASSUME HookTypes, NEW t \in Thread, Register(t)
    PROVE  ~Has(t, "track")'
<1>1. steps[t] \in Todo /\ steps[t] # <<>> /\ steps'[t] = Tail(steps[t])
  BY DEF HookTypes, Register, At, Advance
<1>2. Rest(steps[t], steps'[t])
  BY <1>1, TodoFacts
<1>3. QED
  BY <1>2 DEF Rest, StepsLeft, Has

(* The step that a thread takes is one it had to do. *)
LEMMA HeadIsStep ==
    ASSUME HookTypes, NEW t \in Thread, NEW step, Advanced(t, step)
    PROVE  Has(t, step)
<1>1. steps[t] \in Todo /\ steps[t] # <<>> /\ Head(steps[t]) = step
  BY DEF HookTypes, Advanced, NextIs
<1>2. Rest(steps[t], Tail(steps[t]))
  BY <1>1, TodoFacts
<1>3. QED
  BY <1>1, <1>2 DEF Rest, StepsLeft, Has

-----------------------------------------------------------------------------
(* WritableIsFollowed is kept where what can be written, what is followed and
   what is to be registered go along. *)
LEMMA FollowedStill ==
    ASSUME WritableIsFollowed,
           rw' \subseteq rw, \A p \in rw' : Followed(p) => Followed(p)', faultPc' # "ended" => faultPc # "ended",
           \A u \in Thread : Has(u, "register") => Has(u, "register")' /\ op'[u] = op[u],
           \A u \in Thread : Has(u, "track")' /\ Has(u, "mmap")' =>
                Has(u, "track") /\ Has(u, "mmap") /\ op'[u] = op[u],
           \A u \in Thread : NextIs(steps'[u], "protect") =>
                /\ NextIs(steps[u], "protect") /\ op'[u] = op[u]
                /\ \A p \in op[u].range : Followed(p) => Followed(p)'
    PROVE  WritableIsFollowed'
<1> SUFFICES ASSUME faultPc' # "ended"
             PROVE  /\ \A p \in rw' : Followed(p)' \/ \E t \in Thread : p \in op'[t].range /\ Has(t, "register")'
                    /\ \A t \in Thread :
                        /\ Has(t, "track")' /\ Has(t, "mmap")' /\ ~Has(t, "register")' => op'[t].range \cap rw' = {}
                        /\ NextIs(steps'[t], "protect") /\ op'[t].rw => \A p \in op'[t].range : Followed(p)'
  BY DEF WritableIsFollowed
<1> HIDE DEF Has, NextIs, Followed
<1>1. /\ \A p \in rw : Followed(p) \/ \E t \in Thread : p \in op[t].range /\ Has(t, "register")
      /\ \A t \in Thread :
            /\ Has(t, "track") /\ Has(t, "mmap") /\ ~Has(t, "register") => op[t].range \cap rw = {}
            /\ NextIs(steps[t], "protect") /\ op[t].rw => \A p \in op[t].range : Followed(p)
  BY DEF WritableIsFollowed
<1>2. \A p \in rw' : Followed(p)' \/ \E t \in Thread : p \in op'[t].range /\ Has(t, "register")'
  BY <1>1
<1>3. \A t \in Thread : Has(t, "track")' /\ Has(t, "mmap")' /\ ~Has(t, "register")' => op'[t].range \cap rw' = {}
  BY <1>1
<1>4. \A t \in Thread : NextIs(steps'[t], "protect") /\ op'[t].rw => \A p \in op'[t].range : Followed(p)'
  BY <1>1
<1>5. QED
  BY <1>2, <1>3, <1>4

(* No step makes a page writable that is not followed. *)
LEMMA WritableIsFollowedKept ==
    ASSUME TypeInv, MappedIsKnown, WritableIsFollowed, Next
    PROVE  WritableIsFollowed'
<1>0. HookTypes /\ Kernel
  BY DEF TypeInv, Types
<1>1. ASSUME NEW t \in Thread, NEW R \in Ranges, NEW w \in BOOLEAN, NEW fixed \in BOOLEAN, NEW followed \in BOOLEAN,
             mmap(t, R, w, fixed, followed), faultPc' # "ended"
      PROVE  WritableIsFollowed'
  <2>1. /\ Entered(t, R, w, fixed) /\ (Has(t, "register")' <=> followed /\ w)
        /\ (Has(t, "track")' <=> followed) /\ ~NextIs(steps'[t], "protect")
    BY <1>0, <1>1, mmapIs
  <2>2. /\ rw' = (IF w THEN rw \cup R ELSE rw \ R)
        /\ unfollowed' = (IF followed THEN unfollowed \ R ELSE unfollowed \cup R)
        /\ gaps' = (IF followed THEN gaps ELSE gaps \ R)
        /\ registered' = registered \ R /\ refused' = refused \ R /\ faultPc # "ended"
    BY <1>1 DEF mmap, Forget, faultVars
  <2>3. \A p : p \notin R /\ Followed(p) => Followed(p)'
    BY <2>2 DEF Followed
  <2>4. \A u \in Thread \ {t} : \A x : (Has(u, x)' <=> Has(u, x)) /\ (NextIs(steps'[u], x) <=> NextIs(steps[u], x))
    BY <2>1 DEF Entered, Has
  <2>5. ASSUME NEW p \in rw'
        PROVE  Followed(p)' \/ \E u \in Thread : p \in op'[u].range /\ Has(u, "register")'
    <3>1. CASE p \in R
      <4>1. w /\ (~followed => p \in unfollowed')
        BY <2>2, <3>1
      <4>2. QED
        BY <2>1, <3>1, <4>1 DEF Followed, Entered
    <3>2. CASE p \notin R
      <4>1. p \in rw
        BY <2>2, <3>2
      <4>2. CASE Followed(p)
        BY <2>3, <3>2, <4>2
      <4>3. ASSUME NEW u \in Thread, p \in op[u].range, Has(u, "register")
            PROVE  p \in op'[u].range /\ Has(u, "register")'
        BY <2>1, <2>4, <4>3 DEF Entered
      <4>4. QED
        BY <2>2, <4>1, <4>2, <4>3 DEF WritableIsFollowed
    <3>3. QED
      BY <3>1, <3>2
  <2>6. ASSUME NEW u \in Thread, Has(u, "track")', Has(u, "mmap")', ~Has(u, "register")'
        PROVE  op'[u].range \cap rw' = {}
    <3>1. CASE u = t
      BY <2>1, <2>2, <2>6, <3>1 DEF Entered
    <3>2. CASE u # t
      BY <2>1, <2>2, <2>4, <2>6, <3>2 DEF Entered, WritableIsFollowed
    <3>3. QED
      BY <3>1, <3>2
  <2>7. ASSUME NEW u \in Thread, NextIs(steps'[u], "protect"), op'[u].rw, NEW p \in op'[u].range
        PROVE  Followed(p)'
    <3>1. u # t
      BY <2>1, <2>7
    <3>2. op'[u] = op[u] /\ p \notin R /\ NextIs(steps[u], "protect")
      BY <2>1, <2>4, <2>7, <3>1 DEF Entered
    <3>3. Followed(p)
      BY <2>2, <2>7, <3>2 DEF WritableIsFollowed
    <3>4. QED
      BY <2>3, <3>2, <3>3
  <2>8. QED
    BY <2>5, <2>6, <2>7 DEF WritableIsFollowed
<1>2. ASSUME NEW t \in Thread, NEW R, OtherCall(t, R) PROVE WritableIsFollowed'
  <2>1. UNCHANGED <<rw, mapped, tracked, registered, unfollowed, refused, gaps, faultPc>>
    BY <1>2 DEF OtherCall, kernelVars, historyVars, faultVars
  <2>2. \A p : Followed(p)' <=> Followed(p)
    BY <2>1 DEF Followed
  <2>3. PICK w \in BOOLEAN : Entered(t, R, w, FALSE) /\ (NextIs(steps'[t], "protect") /\ w => R \cap tracked = {})
    BY <1>2 DEF OtherCall
  <2>4. \A u \in Thread : \A x : Has(u, x) => u # t /\ Has(u, x)' /\ op'[u] = op[u]
    BY <2>3 DEF Entered, Has
  <2>5. \A u \in Thread \ {t} : \A x : (Has(u, x)' <=> Has(u, x)) /\ (NextIs(steps'[u], x) <=> NextIs(steps[u], x))
    BY <2>3 DEF Entered, Has
  <2>6. ~Has(t, "mmap")' /\ R \subseteq mapped
    BY <1>2 DEF OtherCall
  <2>7. ASSUME NextIs(steps'[t], "protect"), op'[t].rw, NEW p \in op'[t].range PROVE Followed(p)
    <3>1. w /\ p \in R /\ p \notin tracked
      BY <2>3, <2>7 DEF Entered
    <3>2. \A u \in Thread : p \notin op[u].range
      BY <2>3, <3>1 DEF Entered
    <3>3. p \in unfollowed \cup gaps
      BY <2>6, <3>1, <3>2 DEF MappedIsKnown
    <3>4. QED
      BY <3>3 DEF Followed
  <2>8. \A u \in Thread \ {t} : op'[u] = op[u]
    BY <2>3 DEF Entered
  <2> HIDE DEF Has, NextIs
  <2>9. QED
    BY <2>1, <2>2, <2>4, <2>5, <2>6, <2>7, <2>8 DEF WritableIsFollowed
<1>3. ASSUME NEW t \in Thread, Step(t), ~Track(t), ~Register(t), ~Protect(t), ~Unmap(t) PROVE WritableIsFollowed'
  <2>1. UNCHANGED <<rw, registered, unfollowed, refused, gaps, faultPc>>
    BY <1>3 DEF Step, Drop, Remove, EmitMmap, EmitMunmap, List, Listed, kernelVars, historyVars, faultVars
  <2>2. \A p : Followed(p)' <=> Followed(p)
    BY <2>1 DEF Followed
  <2>3. PICK step \in {"drop", "remove", "mmap", "munmap", "list", "listed"} : Advanced(t, step)
    BY <1>0, <1>3, StepIs DEF Step
  <2>4. /\ \A u \in Thread : Has(u, "register") => Has(u, "register")' /\ op'[u] = op[u]
        /\ \A u \in Thread : Has(u, "track")' /\ Has(u, "mmap")' => Has(u, "track") /\ Has(u, "mmap") /\ op'[u] = op[u]
    BY <1>0, <2>3, StillHas
  <2>5. \A u \in Thread : NextIs(steps'[u], "protect") => NextIs(steps[u], "protect") /\ op'[u] = op[u]
    BY <2>3 DEF Advanced, KernelNext, NextIs
  <2>6. QED
    BY <2>1, <2>2, <2>4, <2>5, FollowedStill
<1>4. ASSUME NEW t \in Thread, Track(t) PROVE WritableIsFollowed'
  <2>1. UNCHANGED <<rw, registered, unfollowed, refused, faultPc>>
    BY <1>4 DEF Track, kernelVars, faultVars
  <2>2. Advanced(t, "track")
    BY <1>0, <1>4, StepIs
  <2>3. /\ \A u \in Thread : Has(u, "register") => Has(u, "register")' /\ op'[u] = op[u]
        /\ \A u \in Thread : Has(u, "track")' /\ Has(u, "mmap")' => Has(u, "track") /\ Has(u, "mmap") /\ op'[u] = op[u]
    BY <1>0, <2>2, StillHas
  <2>4. \A u \in Thread : NextIs(steps'[u], "protect") => u # t /\ NextIs(steps[u], "protect") /\ op'[u] = op[u]
    BY <2>2 DEF Advanced, KernelNext, NextIs
  <2>5. \A p : p \notin op[t].range /\ Followed(p) => Followed(p)'
    <3>1. \A p : p \notin op[t].range /\ p \in gaps => p \in gaps'
      BY <1>4 DEF Track
    <3>2. QED
      BY <2>1, <3>1 DEF Followed
  <2>6. ASSUME NEW u \in Thread, NextIs(steps'[u], "protect"), NEW p \in op[u].range, Followed(p) PROVE Followed(p)'
    <3>1. p \notin op[t].range
      BY <1>0, <2>4, <2>6 DEF HookTypes
    <3>2. QED
      BY <2>5, <2>6, <3>1
  <2>7. CASE Has(t, "mmap") /\ ~Has(t, "register") /\ faultPc # "ended"
    <3>1. Has(t, "track")
      BY <1>0, <2>2, HeadIsStep
    <3>2. op[t].range \cap rw = {}
      BY <2>7, <3>1 DEF WritableIsFollowed
    <3>3. \A p \in rw' : Followed(p) => Followed(p)'
      BY <2>1, <2>5, <3>2
    <3>4. QED
      BY <2>1, <2>3, <2>4, <2>6, <3>3, FollowedStill
  <2>8. CASE ~Has(t, "mmap")
    <3>1. \A p : Followed(p) => Followed(p)'
      BY <1>4, <2>1, <2>8 DEF Track, Followed, Has
    <3>2. QED
      BY <2>1, <2>3, <2>4, <3>1, FollowedStill
  <2>9. CASE Has(t, "register") /\ faultPc # "ended"
    <3>1. \A p \in op[t].range : p \in op'[t].range /\ Has(t, "register")'
      BY <2>3, <2>9
    <3>2. \A p \in rw' : Followed(p)' \/ \E u \in Thread : p \in op'[u].range /\ Has(u, "register")'
      <4>1. ASSUME NEW p \in rw', p \notin op[t].range
            PROVE  Followed(p)' \/ \E u \in Thread : p \in op'[u].range /\ Has(u, "register")'
        BY <2>1, <2>3, <2>5, <2>9, <4>1 DEF WritableIsFollowed
      <4>2. QED
        BY <3>1, <4>1
    <3>3. \A u \in Thread : Has(u, "track")' /\ Has(u, "mmap")' /\ ~Has(u, "register")' => op'[u].range \cap rw' = {}
      BY <2>1, <2>3, <2>9 DEF WritableIsFollowed
    <3>4. \A u \in Thread : NextIs(steps'[u], "protect") /\ op'[u].rw => \A p \in op'[u].range : Followed(p)'
      BY <2>4, <2>6, <2>9 DEF WritableIsFollowed
    <3>5. QED
      BY <3>2, <3>3, <3>4 DEF WritableIsFollowed
  <2>10. CASE faultPc = "ended"
    BY <2>1, <2>10 DEF WritableIsFollowed
  <2>11. QED
    BY <2>7, <2>8, <2>9, <2>10
<1>5. ASSUME NEW t \in Thread, Register(t), faultPc # "ended" PROVE WritableIsFollowed'
  <2>1. UNCHANGED <<rw, unfollowed, gaps, faultPc>>
    BY <1>5 DEF Register, faultVars
  <2>2. Advanced(t, "register")
    BY <1>0, <1>5, StepIs
  <2>3. /\ \A u \in Thread \ {t} : Has(u, "register") => Has(u, "register")' /\ op'[u] = op[u]
        /\ \A u \in Thread : Has(u, "track")' /\ Has(u, "mmap")' => Has(u, "track") /\ Has(u, "mmap") /\ op'[u] = op[u]
        /\ \A u \in Thread \ {t} : Has(u, "register") => Has(u, "register")'
        /\ \A u \in Thread \ {t} : Has(u, "register")' <=> Has(u, "register")
    BY <1>0, <2>2, StillHas, ZenonT(40) DEF Advanced, Has
  <2>4. ~Has(t, "track")'
    BY <1>0, <1>5, NoTrackLeft
  <2>5. /\ \A u \in Thread \ {t} : NextIs(steps'[u], "protect") => NextIs(steps[u], "protect") /\ op'[u] = op[u]
        /\ NextIs(steps'[t], "protect") => op'[t] = op[t]
    BY <2>2 DEF Advanced, NextIs
  <2>6. \A p : p \in op[t].range \/ Followed(p) => Followed(p)'
    <3>1. CASE registered' = registered \cup op[t].range /\ refused' = refused \ op[t].range
      BY <2>1, <3>1 DEF Followed
    <3>2. CASE refused' = refused \cup op[t].range /\ registered' = registered
      BY <2>1, <3>2 DEF Followed
    <3>3. QED
      BY <1>5, <3>1, <3>2 DEF Register
  <2> HIDE DEF Has, NextIs, Followed
  <2>7. \A p \in rw' : Followed(p)' \/ \E u \in Thread : p \in op'[u].range /\ Has(u, "register")'
    <3>1. ASSUME NEW p \in rw, NEW u \in Thread, p \in op[u].range, Has(u, "register")
          PROVE  Followed(p)' \/ \E v \in Thread : p \in op'[v].range /\ Has(v, "register")'
      BY <2>3, <2>6, <3>1
    <3>2. QED
      BY <1>5, <2>1, <2>6, <3>1 DEF WritableIsFollowed
  <2>8. \A u \in Thread : Has(u, "track")' /\ Has(u, "mmap")' /\ ~Has(u, "register")' => op'[u].range \cap rw' = {}
    BY <1>5, <2>1, <2>3, <2>4 DEF WritableIsFollowed
  <2>9. \A u \in Thread : NextIs(steps'[u], "protect") /\ op'[u].rw => \A p \in op'[u].range : Followed(p)'
    BY <1>5, <2>5, <2>6 DEF WritableIsFollowed
  <2>10. QED
    BY <2>7, <2>8, <2>9 DEF WritableIsFollowed
<1>6. ASSUME NEW t \in Thread, Protect(t), faultPc # "ended" PROVE WritableIsFollowed'
  <2>1. UNCHANGED <<registered, refused, unfollowed, gaps, faultPc>>
        /\ rw' = IF op[t].rw THEN rw \cup op[t].range ELSE rw \ op[t].range
    BY <1>6 DEF Protect, faultVars, historyVars
  <2>2. Advanced(t, "protect") /\ NextIs(steps[t], "protect")
    BY <1>0, <1>6, StepIs DEF Advanced
  <2>3. \A p : Followed(p)' <=> Followed(p)
    BY <2>1 DEF Followed
  <2>4. /\ \A u \in Thread : Has(u, "register") => Has(u, "register")' /\ op'[u] = op[u]
        /\ \A u \in Thread : \A x \in {"track", "mmap", "register"} : Has(u, x)' => Has(u, x) /\ op'[u] = op[u]
    BY <1>0, <2>2, StillHas
  <2>5. steps'[t] = <<>>
    BY <2>2 DEF Advanced, EndsLeft, NextIs
  <2>6. \A u \in Thread : NextIs(steps'[u], "protect") => u # t /\ NextIs(steps[u], "protect") /\ op'[u] = op[u]
    BY <2>2, <2>5 DEF Advanced, NextIs
  <2>7. \A x : ~Has(t, x)'
    BY <2>5, RangeEmpty DEF Has
  <2>8. \A u \in Thread \ {t} : op[u].range \cap op[t].range = {}
    BY <1>0 DEF HookTypes
  <2> HIDE DEF Has, NextIs, Followed
  <2>9. \A p \in rw' : Followed(p)' \/ \E u \in Thread : p \in op'[u].range /\ Has(u, "register")'
    <3>1. op[t].rw => \A p \in op[t].range : Followed(p)
      BY <1>6, <2>2 DEF WritableIsFollowed
    <3>2. \A p \in rw : Followed(p)' \/ \E u \in Thread : p \in op'[u].range /\ Has(u, "register")'
      BY <1>6, <2>3, <2>4 DEF WritableIsFollowed
    <3>3. QED
      BY <2>1, <2>3, <3>1, <3>2
  <2>10. \A u \in Thread : Has(u, "track")' /\ Has(u, "mmap")' /\ ~Has(u, "register")' => op'[u].range \cap rw' = {}
    <3>1. ASSUME NEW u \in Thread, Has(u, "track")', Has(u, "mmap")', ~Has(u, "register")'
          PROVE  u # t /\ op'[u] = op[u] /\ op[u].range \cap rw = {}
      BY <1>6, <2>4, <2>7, <3>1 DEF WritableIsFollowed
    <3>2. QED
      BY <2>1, <2>8, <3>1
  <2>11. \A u \in Thread : NextIs(steps'[u], "protect") /\ op'[u].rw => \A p \in op'[u].range : Followed(p)'
    BY <1>6, <2>3, <2>6 DEF WritableIsFollowed
  <2>12. QED
    BY <2>9, <2>10, <2>11 DEF WritableIsFollowed
<1>7. ASSUME NEW t \in Thread, Unmap(t) PROVE WritableIsFollowed'
  <2> DEFINE R == op[t].range
  <2>1. /\ rw' = rw \ R /\ registered' = registered \ R /\ unfollowed' = unfollowed \ R /\ gaps' = gaps \ R
        /\ refused' = refused \ R /\ faultPc' = faultPc
    BY <1>7 DEF Unmap, Forget, faultVars
  <2>2. Advanced(t, "unmap")
    BY <1>0, <1>7, StepIs
  <2>3. \A p : p \notin R /\ Followed(p) => Followed(p)'
    BY <2>1 DEF Followed
  <2>4. /\ \A u \in Thread : Has(u, "register") => Has(u, "register")' /\ op'[u] = op[u]
        /\ \A u \in Thread : Has(u, "track")' /\ Has(u, "mmap")' => Has(u, "track") /\ Has(u, "mmap") /\ op'[u] = op[u]
    BY <1>0, <2>2, StillHas
  <2>5. \A u \in Thread : NextIs(steps'[u], "protect") => u # t /\ NextIs(steps[u], "protect") /\ op'[u] = op[u]
    BY <2>2 DEF Advanced, EndsLeft, NextIs
  <2>6. \A u \in Thread \ {t} : \A p \in op[u].range : p \notin R
    BY <1>0 DEF HookTypes
  <2>7. rw' \subseteq rw /\ (\A p \in rw' : Followed(p) => Followed(p)')
    BY <2>1, <2>3
  <2>8. \A u \in Thread : NextIs(steps'[u], "protect") => \A p \in op[u].range : Followed(p) => Followed(p)'
    BY <2>3, <2>5, <2>6
  <2>9. QED
    BY <2>1, <2>4, <2>5, <2>7, <2>8, FollowedStill
<1>8. CASE MarkDirty \/ ParseRecord \/ FaultPoll \/ PollGoesWrong \/ FaultListed \/ ZeroPage \/ ZeroPageExists
           \/ (\E p \in Page : FaultReport(p)) \/ \E t \in Thread, p \in Page : Touch(t, p)
  <2>1. UNCHANGED <<rw, registered, refused, unfollowed, gaps, op, steps>> /\ (faultPc' # "ended" => faultPc # "ended")
    BY <1>8 DEF MarkDirty, FaultPoll, PollReturns, PollGoesWrong, PollError, PollFails, FaultListed,
       FaultReport, ZeroPage, ZeroPageExists, AfterExists, GoOn, ParseRecord, Touch, kernelVars, hookVars,
       historyVars, faultVars
  <2>2. \A p : Followed(p)' <=> Followed(p)
    BY <2>1 DEF Followed
  <2>3. QED
    BY <2>1, <2>2 DEF WritableIsFollowed, Has
<1>9. ASSUME faultPc' = "ended" PROVE WritableIsFollowed'
  BY <1>9 DEF WritableIsFollowed
<1>10. ASSUME NEW t \in Thread, Register(t) \/ Protect(t) PROVE faultPc' = faultPc
  BY <1>10 DEF Register, Protect, faultVars
<1>11. ZeroPageFails \/ ReadFails => faultPc' = "ended"
  BY DEF ZeroPageFails, ReadFails, GiveUp
<1>12. ASSUME NEW t \in Thread, Step(t) PROVE WritableIsFollowed'
  BY <1>3, <1>4, <1>5, <1>6, <1>7, <1>9, <1>10, <1>12
<1>13. ASSUME NEW t \in Thread, Call(t) PROVE WritableIsFollowed'
  BY <1>0, <1>1, <1>2, <1>9, <1>13, OtherCallIs DEF Call
<1>14. QED
  BY <1>8, <1>9, <1>11, <1>12, <1>13 DEF Next, FaultThread

-----------------------------------------------------------------------------
(* Reading a record, and steps that write none. *)
LEMMA RecordsFollowStill ==
    ASSUME RecordsFollow, UNCHANGED mapped,
           \A p : (MapGone(p) => MapGone(p)') /\ (MapThere(p) => MapThere(p)'),
           \A u \in Thread : Has(u, "mmap") => Has(u, "mmap")' /\ op'[u] = op[u],
           \A u \in Thread : NextIs(steps[u], "unmap") <=> NextIs(steps'[u], "unmap"),
           \A u \in Thread : NextIs(steps[u], "unmap") => op'[u] = op[u]
    PROVE  RecordsFollow'
<1>1. \A p \in Page \ mapped' : MapGone(p)'
  BY DEF RecordsFollow
<1> HIDE DEF Has, NextIs, MapGone, MapThere
<1>2. \A u \in Thread : NextIs(steps'[u], "unmap") => \A p \in op'[u].range : MapGone(p)'
  BY DEF RecordsFollow
<1>3. \A p \in mapped' : MapThere(p)' \/ \E u \in Thread : p \in op'[u].range /\ (Has(u, "mmap")' \/ NextIs(steps'[u], "unmap"))
  BY DEF RecordsFollow
<1>4. QED
  BY <1>1, <1>2, <1>3 DEF RecordsFollow

(* No step loses track of which mappings the parser will have. *)
LEMMA RecordsFollowKept ==
    ASSUME TypeInv, RecordsFollow, Next
    PROVE  RecordsFollow'
<1>0. HookTypes /\ Kernel /\ pipe \in Seq(Records)
  BY DEF TypeInv, Types
<1>1. ASSUME NEW t \in Thread, NEW R \in Ranges, NEW w \in BOOLEAN, NEW fixed \in BOOLEAN, NEW followed \in BOOLEAN,
             mmap(t, R, w, fixed, followed)
      PROVE  RecordsFollow'
  <2>1. Entered(t, R, w, fixed) /\ Has(t, "mmap")' /\ ~NextIs(steps'[t], "unmap")
    BY <1>0, <1>1, mmapIs
  <2>2. mapped' = mapped \cup R /\ UNCHANGED <<pipe, pageFaults, mmaps, overlooked>>
    BY <1>1 DEF mmap, parserVars
  <2>3. \A p : KnowsStill(p)
    BY <2>2, NothingWritten
  <2>4. \A p \in Page \ mapped' : MapGone(p)'
    BY <2>2, <2>3 DEF RecordsFollow, KnowsStill
  <2>5. ASSUME NEW u \in Thread, NextIs(steps'[u], "unmap"), NEW p \in op'[u].range PROVE MapGone(p)'
    BY <2>1, <2>3, <2>5 DEF RecordsFollow, KnowsStill, Entered
  <2>6. ASSUME NEW p \in mapped'
        PROVE  MapThere(p)' \/ \E u \in Thread : p \in op'[u].range /\ (Has(u, "mmap")' \/ NextIs(steps'[u], "unmap"))
    <3>1. CASE p \in R
      BY <2>1, <3>1 DEF Entered
    <3>2. CASE p \notin R /\ MapThere(p)
      BY <2>3, <3>2 DEF KnowsStill
    <3>3. ASSUME NEW u \in Thread, p \in op[u].range, Has(u, "mmap") \/ NextIs(steps[u], "unmap")
          PROVE  p \in op'[u].range /\ (Has(u, "mmap")' \/ NextIs(steps'[u], "unmap"))
      BY <2>1, <3>3 DEF Entered, Has
    <3>4. QED
      BY <2>2, <3>1, <3>2, <3>3 DEF RecordsFollow
  <2>7. QED
    BY <2>4, <2>5, <2>6 DEF RecordsFollow
<1>2. ASSUME NEW t \in Thread, NEW R, OtherCall(t, R) PROVE RecordsFollow'
  <2>1. UNCHANGED <<mapped, pipe, pageFaults, mmaps, overlooked>>
    BY <1>2 DEF OtherCall, kernelVars, historyVars, parserVars
  <2>2. PICK w \in BOOLEAN : Entered(t, R, w, FALSE)
    BY <1>2 DEF OtherCall
  <2>3. \A u \in Thread : \A x : Has(u, x) => Has(u, x)' /\ op'[u] = op[u]
    BY <2>2 DEF Entered, Has
  <2>4. \A u \in Thread : (NextIs(steps[u], "unmap") <=> NextIs(steps'[u], "unmap")) /\ (NextIs(steps[u], "unmap") => op'[u] = op[u])
    BY <1>2, <2>2 DEF OtherCall, Entered, NextIs
  <2>5. \A p : KnowsStill(p)
    BY <2>1, NothingWritten
  <2>6. QED
    BY <2>1, <2>3, <2>4, <2>5, RecordsFollowStill DEF KnowsStill
<1>3. ASSUME NEW t \in Thread, Step(t), ~EmitMmap(t), ~EmitMunmap(t), ~Unmap(t) PROVE RecordsFollow'
  <2>1. PICK step \in {"track", "register", "protect", "drop", "remove", "list", "listed"} : Advanced(t, step)
    BY <1>0, <1>3, StepIs DEF Step
  <2>2. \A u \in Thread : Has(u, "mmap") => Has(u, "mmap")' /\ op'[u] = op[u]
    BY <1>0, <2>1, StillHas
  <2>3. \A u \in Thread : (NextIs(steps[u], "unmap") <=> NextIs(steps'[u], "unmap")) /\ (NextIs(steps[u], "unmap") => op'[u] = op[u])
    BY <2>1 DEF Advanced, KernelNext, NextIs
  <2>4. mapped' = mapped
    BY <1>3 DEF Step, Track, Register, Protect, Drop, Remove, List, Listed, kernelVars
  <2>5. \A p : (MapGone(p) => MapGone(p)') /\ (MapThere(p) => MapThere(p)')
    <3>1. CASE Remove(t)
      <4>1. Write("PageRemove", op[t].range) /\ UNCHANGED <<pageFaults, mmaps, overlooked>> /\ op[t].range \in SUBSET Page
        BY <1>0, <3>1 DEF Remove, parserVars, HookTypes
      <4>2. QED
        BY <1>0, <4>1, RecordWritten
    <3>2. CASE ~Remove(t)
      <4>1. UNCHANGED <<pipe, pageFaults, mmaps, overlooked>>
        BY <1>3, <3>2 DEF Step, Track, Register, Protect, Drop, List, Listed, parserVars, historyVars
      <4>2. QED
        BY <4>1, NothingWritten DEF KnowsStill
    <3>3. QED
      BY <3>1, <3>2
  <2>6. QED
    BY <2>2, <2>3, <2>4, <2>5, RecordsFollowStill
<1>4. ASSUME NEW t \in Thread, EmitMmap(t) PROVE RecordsFollow'
  <2> DEFINE R == op[t].range
  <2>1. Advanced(t, "mmap") /\ NextIs(steps[t], "mmap") /\ Has(t, "mmap")
    BY <1>0, <1>4, StepIs, HeadIsStep DEF Advanced
  <2>2. Write("Mmap", R) /\ UNCHANGED <<mapped, pageFaults, mmaps, overlooked>> /\ R \in SUBSET Page /\ R \subseteq mapped
    BY <1>0, <1>4 DEF EmitMmap, kernelVars, parserVars, historyVars, HookTypes, Kernel
  <2>3. (\A p : p \notin R => KnowsStill(p)) /\ \A p \in R : MapThere(p)'
    BY <1>0, <2>2, RecordWritten
  <2>4. steps'[t] = <<>>
    BY <2>1 DEF Advanced, EndsLeft, NextIs
  <2>5. \A u \in Thread \ {t} : steps'[u] = steps[u] /\ op'[u] = op[u] /\ op[u].range \cap R = {}
    BY <1>0, <2>1 DEF Advanced, HookTypes
  <2>6. \A p \in Page \ mapped' : MapGone(p)'
    BY <2>2, <2>3 DEF RecordsFollow, KnowsStill
  <2>7. ASSUME NEW u \in Thread, NextIs(steps'[u], "unmap"), NEW p \in op'[u].range PROVE MapGone(p)'
    <3>1. u # t
      BY <2>4, <2>7 DEF NextIs
    <3>2. QED
      BY <2>3, <2>5, <2>7, <3>1 DEF RecordsFollow, KnowsStill
  <2>8. ASSUME NEW p \in mapped'
        PROVE  MapThere(p)' \/ \E u \in Thread : p \in op'[u].range /\ (Has(u, "mmap")' \/ NextIs(steps'[u], "unmap"))
    <3>1. CASE p \in R
      BY <2>3, <3>1
    <3>2. CASE p \notin R
      <4>1. MapThere(p) => MapThere(p)'
        BY <2>3, <3>2 DEF KnowsStill
      <4>2. ASSUME NEW u \in Thread, p \in op[u].range, Has(u, "mmap") \/ NextIs(steps[u], "unmap")
            PROVE  p \in op'[u].range /\ (Has(u, "mmap")' \/ NextIs(steps'[u], "unmap"))
        BY <2>5, <3>2, <4>2 DEF Has
      <4>3. QED
        BY <2>2, <4>1, <4>2 DEF RecordsFollow
    <3>3. QED
      BY <3>1, <3>2
  <2>9. QED
    BY <2>6, <2>7, <2>8 DEF RecordsFollow
<1>5. ASSUME NEW t \in Thread, EmitMunmap(t) PROVE RecordsFollow'
  <2> DEFINE R == op[t].range
  <2>1. Advanced(t, "munmap")
    BY <1>0, <1>5, StepIs
  <2>2. Write("Munmap", R) /\ UNCHANGED <<mapped, pageFaults, mmaps, overlooked>> /\ R \in SUBSET Page
    BY <1>0, <1>5 DEF EmitMunmap, kernelVars, parserVars, HookTypes
  <2>3. (\A p : p \notin R => KnowsStill(p)) /\ \A p \in R : MapGone(p)'
    BY <1>0, <2>2, RecordWritten
  <2>4. NextIs(steps'[t], "unmap") /\ op'[t] = op[t] /\ NextIs(steps[t], "munmap")
    BY <2>1 DEF Advanced, EndsLeft, NextIs
  <2>5. \A u \in Thread \ {t} : steps'[u] = steps[u] /\ op'[u] = op[u] /\ op[u].range \cap R = {}
    BY <1>0, <2>1 DEF Advanced, HookTypes
  <2>6. \A p \in Page \ mapped' : MapGone(p)'
    BY <2>2, <2>3 DEF RecordsFollow, KnowsStill
  <2>7. ASSUME NEW u \in Thread, NextIs(steps'[u], "unmap"), NEW p \in op'[u].range PROVE MapGone(p)'
    <3>1. CASE u = t
      BY <2>3, <2>4, <2>7, <3>1
    <3>2. CASE u # t
      BY <2>3, <2>5, <2>7, <3>2 DEF RecordsFollow, KnowsStill
    <3>3. QED
      BY <3>1, <3>2
  <2>8. ASSUME NEW p \in mapped'
        PROVE  MapThere(p)' \/ \E u \in Thread : p \in op'[u].range /\ (Has(u, "mmap")' \/ NextIs(steps'[u], "unmap"))
    <3>1. CASE p \in R
      BY <2>4, <3>1
    <3>2. CASE p \notin R
      <4>1. MapThere(p) => MapThere(p)'
        BY <2>3, <3>2 DEF KnowsStill
      <4>2. ASSUME NEW u \in Thread, p \in op[u].range, Has(u, "mmap") \/ NextIs(steps[u], "unmap")
            PROVE  p \in op'[u].range /\ (Has(u, "mmap")' \/ NextIs(steps'[u], "unmap"))
        BY <2>5, <3>2, <4>2 DEF Has
      <4>3. QED
        BY <2>2, <4>1, <4>2 DEF RecordsFollow
    <3>3. QED
      BY <3>1, <3>2
  <2>9. QED
    BY <2>6, <2>7, <2>8 DEF RecordsFollow
<1>6. ASSUME NEW t \in Thread, Unmap(t) PROVE RecordsFollow'
  <2> DEFINE R == op[t].range
  <2>1. Advanced(t, "unmap") /\ NextIs(steps[t], "unmap")
    BY <1>0, <1>6, StepIs DEF Advanced
  <2>2. mapped' = mapped \ R /\ UNCHANGED <<pipe, pageFaults, mmaps, overlooked>>
    BY <1>6 DEF Unmap, parserVars
  <2>3. \A p : KnowsStill(p)
    BY <2>2, NothingWritten
  <2>4. steps'[t] = <<>>
    BY <2>1 DEF Advanced, EndsLeft, NextIs
  <2>5. \A u \in Thread \ {t} : steps'[u] = steps[u] /\ op'[u] = op[u]
    BY <2>1 DEF Advanced
  <2>6. \A p \in Page \ mapped' : MapGone(p)'
    BY <2>1, <2>2, <2>3 DEF RecordsFollow, KnowsStill
  <2>7. ASSUME NEW u \in Thread, NextIs(steps'[u], "unmap"), NEW p \in op'[u].range PROVE MapGone(p)'
    <3>1. u # t
      BY <2>4, <2>7 DEF NextIs
    <3>2. QED
      BY <2>3, <2>5, <2>7, <3>1 DEF RecordsFollow, KnowsStill
  <2>8. ASSUME NEW p \in mapped'
        PROVE  MapThere(p)' \/ \E u \in Thread : p \in op'[u].range /\ (Has(u, "mmap")' \/ NextIs(steps'[u], "unmap"))
    <3>1. MapThere(p) => MapThere(p)'
      BY <2>3 DEF KnowsStill
    <3>2. ASSUME NEW u \in Thread, p \in op[u].range, Has(u, "mmap") \/ NextIs(steps[u], "unmap")
          PROVE  p \in op'[u].range /\ (Has(u, "mmap")' \/ NextIs(steps'[u], "unmap"))
      BY <2>2, <2>5, <3>2 DEF Has
    <3>3. QED
      BY <2>2, <3>1, <3>2 DEF RecordsFollow
  <2>9. QED
    BY <2>6, <2>7, <2>8 DEF RecordsFollow
<1>7. ASSUME NEW p \in Page, FaultReport(p) PROVE RecordsFollow'
  <2>1. Write("PageFault", {p}) /\ UNCHANGED <<mapped, op, steps, pageFaults, mmaps, overlooked>>
    BY <1>7 DEF FaultReport, hookVars, parserVars
  <2>2. \A q : (MapThere(q) => MapThere(q)') /\ (MapGone(q) => MapGone(q)')
    BY <1>0, <2>1, RecordWritten
  <2>3. \A u \in Thread : Has(u, "mmap") => Has(u, "mmap")' /\ op'[u] = op[u]
    BY <2>1 DEF Has
  <2>4. QED
    BY <2>1, <2>2, <2>3, RecordsFollowStill
<1>8. CASE ParseRecord \/ MarkDirty \/ FaultPoll \/ PollGoesWrong
           \/ FaultListed \/ ZeroPage \/ ZeroPageExists \/ ZeroPageFails \/ ReadFails
           \/ \E t \in Thread, p \in Page : Touch(t, p)
  <2>1. UNCHANGED <<mapped, op, steps>>
    BY <1>8 DEF ParseRecord, MarkDirty, FaultPoll, PollReturns, PollGoesWrong, PollError, PollFails,
       FaultListed, ZeroPage, ZeroPageExists, ZeroPageFails, ReadFails, Touch, kernelVars, hookVars
  <2>2. \A p : KnowsStill(p)
    <3>1. CASE ParseRecord
      BY <1>0, <3>1, RecordRead
    <3>2. CASE ~ParseRecord
      <4>1. UNCHANGED <<pipe, pageFaults, mmaps, overlooked>>
        BY <1>8, <3>2 DEF MarkDirty, FaultPoll, PollReturns, PollGoesWrong, PollError, PollFails,
           FaultListed, ZeroPage, ZeroPageExists, ZeroPageFails, ReadFails, Touch, parserVars, historyVars
      <4>2. QED
        BY <4>1, NothingWritten
    <3>3. QED
      BY <3>1, <3>2
  <2>3. \A u \in Thread : Has(u, "mmap") => Has(u, "mmap")' /\ op'[u] = op[u]
    BY <2>1 DEF Has
  <2>4. QED
    BY <2>1, <2>2, <2>3, RecordsFollowStill DEF KnowsStill
<1>9. QED
  BY <1>0, <1>1, <1>2, <1>3, <1>4, <1>5, <1>6, <1>7, <1>8, OtherCallIs DEF Next, Call, Step, FaultThread

-----------------------------------------------------------------------------
(* PresentCounted is kept when all that may go wrong is in a range, and does
   not. *)
LEMMA PresentCountedStill ==
    ASSUME PresentCounted, NEW R,
           \A p : p \notin R => (FaultCounted(p) => FaultCounted(p)') /\ (AboutToDrop(p) => AboutToDrop(p)'),
           \A p : p \notin R /\ p \in registered' \cap present' =>
                p \in registered \cap present \/ FaultCounted(p)' \/ p \in lost',
           \A p : p \notin R /\ p \in place' => p \in place,
           \A p : p \notin R /\ p \in lost => p \in lost',
           \A p \in R : /\ p \in registered' \cap present' => FaultCounted(p)' \/ p \in lost' \/ AboutToDrop(p)'
                        /\ p \in place' => FaultCounted(p)' \/ p \in lost'
    PROVE  PresentCounted'
<1> HIDE DEF FaultCounted, AboutToDrop
<1>1. \A p \in registered' \cap present' : FaultCounted(p)' \/ p \in lost' \/ AboutToDrop(p)'
  BY DEF PresentCounted
<1>2. \A p \in place' : FaultCounted(p)' \/ p \in lost'
  BY DEF PresentCounted
<1>3. QED
  BY <1>1, <1>2 DEF PresentCounted

(* A thread that is about to drop a page is until it does. *)
LEMMA AboutToDropStill ==
    ASSUME NEW p
    PROVE  /\ \A t \in Thread : \A step : Advanced(t, step) /\ step # "drop" /\ step # "unmap" =>
                    (AboutToDrop(p) => AboutToDrop(p)')
           /\ \A t \in Thread : \A step : Advanced(t, step) /\ p \notin op[t].range => (AboutToDrop(p) => AboutToDrop(p)')
           /\ \A t \in Thread : \A R, w, f : Entered(t, R, w, f) => (AboutToDrop(p) => AboutToDrop(p)')
           /\ UNCHANGED <<op, steps>> => (AboutToDrop(p) => AboutToDrop(p)')
<1>1. ASSUME NEW t \in Thread, NEW step, Advanced(t, step), step # "drop", step # "unmap", AboutToDrop(p)
      PROVE  AboutToDrop(p)'
  <2>1. PICK u \in Thread : p \in op[u].range /\ steps[u] # <<>> /\ Head(steps[u]) \in {"drop", "unmap"}
    BY <1>1 DEF AboutToDrop
  <2>2. u # t
    BY <1>1, <2>1 DEF Advanced, NextIs
  <2>3. QED
    BY <1>1, <2>1, <2>2 DEF AboutToDrop, Advanced
<1>2. ASSUME NEW t \in Thread, NEW step, Advanced(t, step), p \notin op[t].range, AboutToDrop(p)
      PROVE  AboutToDrop(p)'
  BY <1>2 DEF AboutToDrop, Advanced
<1>3. ASSUME NEW t \in Thread, NEW R, NEW w, NEW f, Entered(t, R, w, f), AboutToDrop(p)
      PROVE  AboutToDrop(p)'
  BY <1>3 DEF AboutToDrop, Entered
<1>4. UNCHANGED <<op, steps>> => (AboutToDrop(p) => AboutToDrop(p)')
  BY DEF AboutToDrop
<1>5. QED
  BY <1>1, <1>2, <1>3, <1>4

(* No step makes a page resident, or forgets its record, unnoticed. *)
LEMMA PresentCountedKept ==
    ASSUME TypeInv, PresentCounted, Next
    PROVE  PresentCounted'
<1>0. HookTypes /\ Kernel /\ pipe \in Seq(Records)
  BY DEF TypeInv, Types
<1>1. ASSUME NEW t \in Thread, NEW R \in Ranges, NEW w \in BOOLEAN, NEW fixed \in BOOLEAN, NEW followed \in BOOLEAN,
             mmap(t, R, w, fixed, followed)
      PROVE  PresentCounted'
  <2>1. Entered(t, R, w, fixed)
    BY <1>0, <1>1, mmapIs
  <2>2. registered' = registered \ R /\ present' = present \ R /\ lost' = lost \ (R \ place) /\ place' = place
        /\ UNCHANGED <<pipe, pageFaults, mmaps, overlooked>>
    BY <1>1 DEF mmap, Forget, faultVars, parserVars
  <2>3. \A p : (FaultCounted(p) => FaultCounted(p)') /\ (AboutToDrop(p) => AboutToDrop(p)')
    BY <2>1, <2>2, NothingWritten, AboutToDropStill DEF KnowsStill
  <2>4. \A p \in R : p \in place' => FaultCounted(p)' \/ p \in lost'
    BY <2>2, <2>3 DEF PresentCounted
  <2>5. QED
    BY <2>2, <2>3, <2>4, PresentCountedStill
<1>2. ASSUME NEW t \in Thread, NEW R, OtherCall(t, R) PROVE PresentCounted'
  <2>1. UNCHANGED <<registered, present, lost, place, pipe, pageFaults, mmaps, overlooked>>
    BY <1>2 DEF OtherCall, kernelVars, historyVars, parserVars, faultVars
  <2>2. \A p : (FaultCounted(p) => FaultCounted(p)') /\ (AboutToDrop(p) => AboutToDrop(p)')
    BY <1>2, <2>1, NothingWritten, AboutToDropStill DEF KnowsStill, OtherCall
  <2>3. QED
    BY <2>1, <2>2 DEF PresentCounted
<1>3. ASSUME NEW t \in Thread, Unmap(t) \/ Drop(t) PROVE PresentCounted'
  <2> DEFINE R == op[t].range
  <2>1. Advanced(t, "unmap") \/ Advanced(t, "drop")
    BY <1>0, <1>3, StepIs
  <2>2. registered' \subseteq registered /\ present' = present \ R /\ lost' = lost \ (R \ place) /\ place' = place
        /\ UNCHANGED <<pipe, pageFaults, mmaps, overlooked>>
    BY <1>3 DEF Unmap, Drop, Forget, faultVars, parserVars
  <2>3. \A p : FaultCounted(p) => FaultCounted(p)'
    BY <2>2, NothingWritten DEF KnowsStill
  <2>4. \A p : p \notin R => (AboutToDrop(p) => AboutToDrop(p)')
    BY <2>1, AboutToDropStill
  <2>5. \A p \in R : p \in place' => FaultCounted(p)' \/ p \in lost'
    BY <2>2, <2>3 DEF PresentCounted
  <2> HIDE DEF R
  <2>6. QED
    BY <2>2, <2>3, <2>4, <2>5, PresentCountedStill
<1>4. ASSUME NEW t \in Thread, Register(t) PROVE PresentCounted'
  <2>1. Advanced(t, "register")
    BY <1>0, <1>4, StepIs
  <2>2. UNCHANGED <<present, place, pipe, pageFaults, mmaps, overlooked>> /\ lost \subseteq lost'
        /\ \A p : p \in registered' \cap present' => p \in registered \/ p \in lost'
    BY <1>4 DEF Register, faultVars, parserVars
  <2>3. \A p : (FaultCounted(p) => FaultCounted(p)') /\ (AboutToDrop(p) => AboutToDrop(p)')
    BY <2>1, <2>2, NothingWritten, AboutToDropStill DEF KnowsStill
  <2>4. QED
    BY <2>2, <2>3 DEF PresentCounted
<1>5. ASSUME NEW t \in Thread, Remove(t) \/ EmitMunmap(t) PROVE PresentCounted'
  <2> DEFINE R == op[t].range
  <2>1. PICK step \in {"remove", "munmap"} : Advanced(t, step) /\ (Remove(t) => step = "remove")
    BY <1>0, <1>5, StepIs
  <2>2. PICK type \in {"PageRemove", "Munmap"} : Write(type, R)
    BY <1>5 DEF Remove, EmitMunmap
  <2>3. /\ R \in SUBSET Page /\ UNCHANGED <<registered, present, place, pageFaults, mmaps, overlooked>>
        /\ lost \subseteq lost' /\ R \cap place \subseteq lost'
        /\ Remove(t) /\ op[t].fixed => R \cap present \subseteq lost'
    BY <1>0, <1>5 DEF Remove, EmitMunmap, HookTypes, kernelVars, faultVars, parserVars
  <2>4. \A p : p \notin R => (FaultCounted(p) => FaultCounted(p)') /\ (AboutToDrop(p) => AboutToDrop(p)')
    BY <1>0, <2>1, <2>2, <2>3, RecordWritten, AboutToDropStill DEF KnowsStill
  <2>5. CASE NextIs(steps'[t], "drop") \/ NextIs(steps'[t], "unmap")
    <3>1. op'[t].range = R
      BY <2>1, <2>5 DEF Advanced, NextIs
    <3>2. \A p \in R : AboutToDrop(p)'
      BY <2>5, <3>1 DEF AboutToDrop, NextIs
    <3> HIDE DEF R
    <3>3. QED
      BY <2>3, <2>4, <3>2, PresentCountedStill
  <2>6. CASE ~(NextIs(steps'[t], "drop") \/ NextIs(steps'[t], "unmap"))
    <3>1. Remove(t) /\ Advanced(t, "remove")
      BY <1>0, <1>5, <2>6, StepIs DEF Advanced, EndsLeft, NextIs
    <3>2. Has(t, "mmap")' /\ Has(t, "remove")
      BY <1>0, <2>6, <3>1, HeadIsStep DEF Advanced, EndsLeft, NextIs, Has
    <3>3. Has(t, "mmap")
      BY <3>1, <3>2 DEF Advanced
    <3>4. op[t].fixed
      BY <1>0, <3>2, <3>3 DEF HookTypes
    <3> HIDE DEF R
    <3>5. QED
      BY <2>3, <2>4, <3>1, <3>4, PresentCountedStill
  <2>7. QED
    BY <2>5, <2>6
<1>6. ASSUME NEW t \in Thread, EmitMmap(t) \/ Track(t) \/ Protect(t) \/ List(t) \/ Listed(t) PROVE PresentCounted'
  <2>1. PICK step \in {"mmap", "track", "protect", "list", "listed"} : Advanced(t, step)
    BY <1>0, <1>6, StepIs
  <2>2. UNCHANGED <<registered, present, lost, place, pageFaults, mmaps, overlooked>>
    BY <1>6 DEF EmitMmap, Track, Protect, List, Listed, kernelVars, historyVars, parserVars, faultVars
  <2>3. \A p : FaultCounted(p) => FaultCounted(p)'
    <3>1. CASE EmitMmap(t)
      <4>1. Write("Mmap", op[t].range) /\ op[t].range \in SUBSET Page
        BY <1>0, <3>1 DEF EmitMmap, HookTypes
      <4>2. QED
        BY <1>0, <2>2, <4>1, RecordWritten
    <3>2. CASE ~EmitMmap(t)
      <4>1. pipe' = pipe
        BY <1>6, <3>2 DEF Track, Protect, List, Listed
      <4>2. QED
        BY <2>2, <4>1, NothingWritten DEF KnowsStill
    <3>3. QED
      BY <3>1, <3>2
  <2>4. \A p : AboutToDrop(p) => AboutToDrop(p)'
    BY <2>1, AboutToDropStill
  <2>5. QED
    BY <2>2, <2>3, <2>4 DEF PresentCounted
<1>7. ASSUME NEW p \in Page, FaultReport(p) PROVE PresentCounted'
  <2>1. Write("PageFault", {p}) /\ UNCHANGED <<registered, present, lost, op, steps, pageFaults, mmaps, overlooked>>
        /\ place' = {p}
    BY <1>7 DEF FaultReport, hookVars, parserVars
  <2>2. (\A q : FaultCounted(q) => FaultCounted(q)') /\ FaultCounted(p)'
    BY <1>0, <2>1, RecordWritten
  <2>3. \A q : AboutToDrop(q) => AboutToDrop(q)'
    BY <2>1, AboutToDropStill
  <2>4. QED
    BY <2>1, <2>2, <2>3 DEF PresentCounted
<1>8. CASE ParseRecord \/ MarkDirty \/ FaultPoll \/ PollGoesWrong
           \/ FaultListed \/ ZeroPage \/ ZeroPageExists \/ ZeroPageFails \/ ReadFails
           \/ \E t \in Thread, p \in Page : Touch(t, p)
  <2>1. /\ UNCHANGED <<op, steps, lost>> /\ place' \subseteq place /\ registered' \subseteq registered
        /\ \A p : p \in registered' \cap present' => p \in present \/ p \in place
    BY <1>8 DEF ParseRecord, MarkDirty, FaultPoll, PollReturns, PollGoesWrong, PollError, PollFails,
       FaultListed, ZeroPage, ZeroPageExists, ZeroPageFails, ReadFails, Touch, kernelVars, hookVars,
       historyVars, faultVars, AfterExists, GoOn, GiveUp
  <2>2. \A p : KnowsStill(p)
    <3>1. CASE ParseRecord
      BY <1>0, <3>1, RecordRead
    <3>2. CASE ~ParseRecord
      <4>1. UNCHANGED <<pipe, pageFaults, mmaps, overlooked>>
        BY <1>8, <3>2 DEF MarkDirty, FaultPoll, PollReturns, PollGoesWrong, PollError, PollFails,
           FaultListed, ZeroPage, ZeroPageExists, ZeroPageFails, ReadFails, Touch, parserVars, historyVars
      <4>2. QED
        BY <4>1, NothingWritten
    <3>3. QED
      BY <3>1, <3>2
  <2>3. \A p : (FaultCounted(p) => FaultCounted(p)') /\ (AboutToDrop(p) => AboutToDrop(p)')
    BY <2>1, <2>2, AboutToDropStill DEF KnowsStill
  <2>4. QED
    BY <2>1, <2>3 DEF PresentCounted
<1>9. QED
  BY <1>0, <1>1, <1>2, <1>3, <1>4, <1>5, <1>6, <1>7, <1>8, OtherCallIs DEF Next, Call, Step, FaultThread

-----------------------------------------------------------------------------
(* Thread u has reported its range as gone and not yet told the kernel. *)
Going(u) == NextIs(steps[u], "drop") \/ NextIs(steps[u], "unmap")

(* The same of AbsentGone. *)
LEMMA AbsentGoneStill ==
    ASSUME AbsentGone, NEW R,
           faultPc' # "ended" => faultPc # "ended",
           \A p : p \notin R /\ FaultGone(p) => FaultGone(p)' \/ p \in kept' \cup place',
           \A p : p \notin R /\ p \in present \cup place => p \in present' \cup place',
           \A p : p \notin R /\ p \in kept => p \in kept' \/ p \in place',
           \A u \in Thread : \A p : p \notin R /\ p \in op[u].range /\ Has(u, "remove") =>
                p \in op'[u].range /\ Has(u, "remove")',
           \A p \in R \cap Page : p \in kept' \/ FaultGone(p)' \/ \E u \in Thread : p \in op'[u].range /\ Has(u, "remove")',
           \A u \in Thread : Going(u)' => \A p \in op'[u].range :
                \/ p \in kept' \/ FaultGone(p)'
                \/ /\ Going(u) /\ p \in op[u].range
                   /\ (FaultGone(p) => FaultGone(p)') /\ (p \in kept => p \in kept')
    PROVE  AbsentGone'
<1> SUFFICES ASSUME faultPc' # "ended" PROVE AbsentGone'
  BY DEF AbsentGone
<1>1. /\ \A p \in Page : \/ p \in present \cup kept \cup place \/ FaultGone(p)
                         \/ \E t \in Thread : p \in op[t].range /\ Has(t, "remove")
      /\ \A t \in Thread : Going(t) => \A p \in op[t].range : p \in kept \/ FaultGone(p)
  BY DEF AbsentGone, Going
<1> HIDE DEF FaultGone, Has, Going
<1>2. ASSUME NEW p \in Page
      PROVE  \/ p \in present' \cup kept' \cup place' \/ FaultGone(p)'
             \/ \E t \in Thread : p \in op'[t].range /\ Has(t, "remove")'
  <2>1. CASE p \in R
    BY <2>1
  <2>2. CASE p \notin R
    BY <1>1, <2>2
  <2>3. QED
    BY <2>1, <2>2
<1>3. \A t \in Thread : Going(t)' => \A p \in op'[t].range : p \in kept' \/ FaultGone(p)'
  BY <1>1
<1>4. QED
  BY <1>2, <1>3 DEF AbsentGone, Going

(* No step drops a page that the parser will go on counting, unnoticed. *)
LEMMA AbsentGoneKept ==
    ASSUME TypeInv, AbsentGone, Next
    PROVE  AbsentGone'
<1>0. HookTypes /\ Kernel /\ pipe \in Seq(Records)
  BY DEF TypeInv, Types
<1>1. ASSUME NEW t \in Thread, NEW R \in Ranges, NEW w \in BOOLEAN, NEW fixed \in BOOLEAN, NEW followed \in BOOLEAN,
             mmap(t, R, w, fixed, followed)
      PROVE  AbsentGone'
  <2>1. /\ R \subseteq Page /\ Entered(t, R, w, fixed) /\ (Has(t, "remove")' <=> followed /\ fixed)
        /\ ~Going(t)'
    BY <1>0, <1>1, mmapIs DEF Going
  <2>2. /\ present' = present \ R /\ UNCHANGED <<place, faultPc, pipe, pageFaults, mmaps, overlooked>>
        /\ kept' = IF fixed /\ ~followed THEN kept \cup R ELSE kept
        /\ ~fixed => R \cap mapped = {}
    BY <1>1 DEF mmap, Forget, faultVars, parserVars
  <2>3. \A p : FaultGone(p) => FaultGone(p)'
    BY <2>2, NothingWritten DEF KnowsStill
  <2>4. \A u \in Thread : Has(u, "remove") => Has(u, "remove")' /\ op'[u] = op[u]
    BY <2>1 DEF Entered, Has
  <2>5. \A u \in Thread : Going(u)' => Going(u) /\ op'[u] = op[u]
    BY <2>1 DEF Entered, Going, NextIs
  <2>6. CASE fixed
    <3>1. \A p \in R : p \in kept' \/ \E u \in Thread : p \in op'[u].range /\ Has(u, "remove")'
      BY <2>1, <2>2, <2>6 DEF Entered
    <3> HIDE DEF Has, Going, FaultGone
    <3>2. QED
      BY <2>2, <2>3, <2>4, <2>5, <3>1, AbsentGoneStill
  <2>7. CASE ~fixed
    <3>1. present' = present /\ kept' = kept
      BY <1>0, <2>2, <2>7 DEF Kernel
    <3> HIDE DEF Has, Going, FaultGone
    <3>2. \A p \in {} \cap Page : p \in kept' \/ FaultGone(p)' \/ \E u \in Thread : p \in op'[u].range /\ Has(u, "remove")'
      OBVIOUS
    <3>3. QED
      BY Zenon, <2>2, <2>3, <2>4, <2>5, <3>1, <3>2, AbsentGoneStill
  <2>8. QED
    BY <2>6, <2>7
<1>2. ASSUME NEW t \in Thread, NEW R, OtherCall(t, R) PROVE AbsentGone'
  <2>1. UNCHANGED <<present, kept, place, faultPc, pipe, pageFaults, mmaps, overlooked>>
    BY <1>2 DEF OtherCall, kernelVars, historyVars, parserVars, faultVars
  <2>2. \A p : FaultGone(p) => FaultGone(p)'
    BY <2>1, NothingWritten DEF KnowsStill
  <2>3. PICK w \in BOOLEAN : Entered(t, R, w, FALSE)
    BY <1>2 DEF OtherCall
  <2>4. \A u \in Thread : Has(u, "remove") => Has(u, "remove")' /\ op'[u] = op[u]
    BY <2>3 DEF Entered, Has
  <2>5. \A u \in Thread : Going(u)' => Going(u) /\ op'[u] = op[u]
    BY <1>2, <2>3 DEF OtherCall, Entered, Going, NextIs
  <2> HIDE DEF Has, Going, FaultGone
  <2>6. \A p \in {} \cap Page : p \in kept' \/ FaultGone(p)' \/ \E u \in Thread : p \in op'[u].range /\ Has(u, "remove")'
    OBVIOUS
  <2>7. QED
    BY Zenon, <2>1, <2>2, <2>4, <2>5, <2>6, AbsentGoneStill
<1>3. ASSUME NEW t \in Thread, Unmap(t) \/ Drop(t) PROVE AbsentGone'
  <2> DEFINE R == op[t].range
  <2>1. PICK step \in {"unmap", "drop"} : Advanced(t, step)
    BY <1>0, <1>3, StepIs
  <2>2. present' = present \ R /\ UNCHANGED <<place, kept, faultPc, pipe, pageFaults, mmaps, overlooked>>
    BY <1>3 DEF Unmap, Drop, Forget, faultVars, parserVars
  <2>3. \A p : FaultGone(p) => FaultGone(p)'
    BY <2>2, NothingWritten DEF KnowsStill
  <2>4. \A u \in Thread : Has(u, "remove") => Has(u, "remove")' /\ op'[u] = op[u]
    BY <1>0, <2>1, StillHas
  <2>5. Going(t) /\ steps'[t] = <<>>
    BY <2>1 DEF Advanced, EndsLeft, NextIs, Going
  <2>6. \A u \in Thread : Going(u)' => Going(u) /\ op'[u] = op[u]
    BY <2>1, <2>5 DEF Advanced, Going, NextIs
  <2>7. faultPc # "ended" => \A p \in R : p \in kept' \/ FaultGone(p)'
    BY <2>2, <2>3, <2>5 DEF AbsentGone, Going
  <2>8. CASE faultPc # "ended"
    <3> HIDE DEF Has, Going, FaultGone, R
    <3>1. QED
      BY <2>2, <2>3, <2>4, <2>6, <2>7, <2>8, AbsentGoneStill
  <2>9. CASE faultPc = "ended"
    BY <2>2, <2>9 DEF AbsentGone
  <2>10. QED
    BY <2>8, <2>9
<1>4. ASSUME NEW t \in Thread, Remove(t) \/ EmitMunmap(t) PROVE AbsentGone'
  <2> DEFINE R == op[t].range
  <2>1. PICK step \in {"remove", "munmap"} : Advanced(t, step)
    BY <1>0, <1>4, StepIs
  <2>2. PICK type \in {"PageRemove", "Munmap"} : Write(type, R)
    BY <1>4 DEF Remove, EmitMunmap
  <2>3. /\ R \in SUBSET Page /\ UNCHANGED <<present, place, faultPc, pageFaults, mmaps, overlooked>> /\ kept' = kept \ R
    BY <1>0, <1>4 DEF Remove, EmitMunmap, HookTypes, kernelVars, faultVars, parserVars
  <2>4. (\A p : p \notin R => (FaultGone(p) => FaultGone(p)')) /\ \A p \in R : FaultGone(p)'
    BY <1>0, <2>2, <2>3, RecordWritten DEF KnowsStill
  <2>5. \A u \in Thread : \A p : p \notin R /\ p \in op[u].range /\ Has(u, "remove") => p \in op'[u].range /\ Has(u, "remove")'
    BY <2>1 DEF Advanced, Has
  <2>6. ASSUME NEW u \in Thread, Going(u)', NEW p \in op'[u].range
        PROVE  \/ p \in kept' \/ FaultGone(p)'
               \/ /\ Going(u) /\ p \in op[u].range
                  /\ (FaultGone(p) => FaultGone(p)') /\ (p \in kept => p \in kept')
    <3>1. CASE u = t
      <4>1. op'[t].range = R
        BY <2>1, <2>6, <3>1 DEF Advanced, Going, NextIs
      <4>2. QED
        BY <2>4, <2>6, <3>1, <4>1
    <3>2. CASE u # t
      <4>1. op'[u] = op[u] /\ p \notin R /\ Going(u)
        BY <1>0, <2>1, <2>6, <3>2 DEF Advanced, HookTypes, Going, NextIs
      <4>2. QED
        BY <2>3, <2>4, <2>6, <4>1
    <3>3. QED
      BY <3>1, <3>2
  <2> HIDE DEF Has, Going, FaultGone, R
  <2>7. QED
    BY <2>3, <2>4, <2>5, <2>6, AbsentGoneStill
<1>5. ASSUME NEW t \in Thread, EmitMmap(t) \/ Track(t) \/ Register(t) \/ Protect(t) \/ List(t) \/ Listed(t)
      PROVE  AbsentGone'
  <2>1. PICK step \in {"mmap", "track", "register", "protect", "list", "listed"} : Advanced(t, step)
    BY <1>0, <1>5, StepIs
  <2>2. UNCHANGED <<present, kept, place, faultPc, pageFaults, mmaps, overlooked>>
    BY <1>5 DEF EmitMmap, Track, Register, Protect, List, Listed, kernelVars, historyVars, parserVars, faultVars
  <2>3. \A p : FaultGone(p) => FaultGone(p)'
    <3>1. CASE EmitMmap(t)
      <4>1. Write("Mmap", op[t].range) /\ op[t].range \in SUBSET Page
        BY <1>0, <3>1 DEF EmitMmap, HookTypes
      <4>2. QED
        BY <1>0, <2>2, <4>1, RecordWritten
    <3>2. CASE ~EmitMmap(t)
      <4>1. pipe' = pipe
        BY <1>5, <3>2 DEF Track, Register, Protect, List, Listed
      <4>2. QED
        BY <2>2, <4>1, NothingWritten DEF KnowsStill
    <3>3. QED
      BY <3>1, <3>2
  <2>4. \A u \in Thread : Has(u, "remove") => Has(u, "remove")' /\ op'[u] = op[u]
    BY <1>0, <2>1, StillHas
  <2>5. \A u \in Thread : Going(u)' => Going(u) /\ op'[u] = op[u]
    BY <2>1 DEF Advanced, KernelNext, Going, NextIs
  <2> HIDE DEF Has, Going, FaultGone
  <2>6. \A p \in {} \cap Page : p \in kept' \/ FaultGone(p)' \/ \E u \in Thread : p \in op'[u].range /\ Has(u, "remove")'
    OBVIOUS
  <2>7. QED
    BY Zenon, <2>2, <2>3, <2>4, <2>5, <2>6, AbsentGoneStill
<1>6. ASSUME NEW p \in Page, FaultReport(p) PROVE AbsentGone'
  <2>1. /\ Write("PageFault", {p}) /\ UNCHANGED <<present, op, steps, pageFaults, mmaps, overlooked>>
        /\ place' = {p} /\ kept' = (IF AboutToDrop(p) THEN kept \cup {p} ELSE kept \ {p}) /\ faultPc = "read"
    BY <1>6 DEF FaultReport, hookVars, parserVars
  <2>2. place = {}
    BY <2>1 DEF TypeInv, Types
  <2>3. \A q : q # p => (FaultGone(q) => FaultGone(q)')
    BY <1>0, <2>1, RecordWritten DEF KnowsStill
  <2>4. \A u \in Thread : (Has(u, "remove")' <=> Has(u, "remove")) /\ (Going(u)' <=> Going(u)) /\ op'[u] = op[u]
    BY <2>1 DEF Has, Going
  <2>5. \A u \in Thread : Going(u) /\ p \in op[u].range => p \in kept'
    BY <2>1 DEF Going, NextIs, AboutToDrop
  <2>6. \A u \in Thread : Going(u)' => \A q \in op'[u].range :
            \/ q \in kept' \/ FaultGone(q)'
            \/ /\ Going(u) /\ q \in op[u].range /\ (FaultGone(q) => FaultGone(q)') /\ (q \in kept => q \in kept')
    <3> HIDE DEF Going, FaultGone
    <3>1. QED
      BY <2>1, <2>3, <2>4, <2>5
  <2>7. \A q : (FaultGone(q) => FaultGone(q)' \/ q \in kept' \cup place') /\ (q \in kept => q \in kept' \/ q \in place')
    BY <2>1, <2>3
  <2>8. \A q \in {} \cap Page : q \in kept' \/ FaultGone(q)' \/ \E u \in Thread : q \in op'[u].range /\ Has(u, "remove")'
    OBVIOUS
  <2> HIDE DEF Has, Going, FaultGone
  <2>9. QED
    BY Zenon, <2>1, <2>2, <2>4, <2>6, <2>7, <2>8, AbsentGoneStill
<1>7. CASE ParseRecord \/ MarkDirty \/ FaultPoll \/ PollGoesWrong
           \/ FaultListed \/ ZeroPage \/ ZeroPageExists \/ ZeroPageFails \/ ReadFails
           \/ \E t \in Thread, p \in Page : Touch(t, p)
  <2>1. \/ faultPc' = "ended"
        \/ /\ UNCHANGED <<op, steps, kept>> /\ present \cup place \subseteq present' \cup place'
           /\ (faultPc' # "ended" => faultPc # "ended")
    BY <1>7 DEF ParseRecord, MarkDirty, FaultPoll, PollReturns, PollGoesWrong, PollError, PollFails,
       FaultListed, ZeroPage, ZeroPageExists, ZeroPageFails, ReadFails, Touch, kernelVars, hookVars,
       historyVars, faultVars, AfterExists, GoOn, GiveUp
  <2>2. \A p : KnowsStill(p)
    <3>1. CASE ParseRecord
      BY <1>0, <3>1, RecordRead
    <3>2. CASE ~ParseRecord
      <4>1. UNCHANGED <<pipe, pageFaults, mmaps, overlooked>>
        BY <1>7, <3>2 DEF MarkDirty, FaultPoll, PollReturns, PollGoesWrong, PollError, PollFails,
           FaultListed, ZeroPage, ZeroPageExists, ZeroPageFails, ReadFails, Touch, parserVars, historyVars
      <4>2. QED
        BY <4>1, NothingWritten
    <3>3. QED
      BY <3>1, <3>2
  <2>3. CASE faultPc' = "ended"
    BY <2>3 DEF AbsentGone
  <2>4. CASE UNCHANGED <<op, steps, kept>> /\ present \cup place \subseteq present' \cup place'
             /\ (faultPc' # "ended" => faultPc # "ended")
    <3>1. \A u \in Thread : (Has(u, "remove")' <=> Has(u, "remove")) /\ (Going(u)' <=> Going(u)) /\ op'[u] = op[u]
      BY <2>4 DEF Has, Going
    <3>2. \A p : FaultGone(p) => FaultGone(p)'
      BY <2>2 DEF KnowsStill
    <3>3. \A q \in {} \cap Page : q \in kept' \/ FaultGone(q)' \/ \E u \in Thread : q \in op'[u].range /\ Has(u, "remove")'
      OBVIOUS
    <3> HIDE DEF Has, Going, FaultGone
    <3>4. QED
      BY <2>4, <3>1, <3>2, <3>3, AbsentGoneStill
  <2>5. QED
    BY <2>1, <2>3, <2>4
<1>8. QED
  BY <1>0, <1>1, <1>2, <1>3, <1>4, <1>5, <1>6, <1>7, OtherCallIs DEF Next, Call, Step, FaultThread

-----------------------------------------------------------------------------
(* The inductive invariant. *)
PagesInv == TypeInv /\ RegisterInv /\ RecordsFollow /\ PresentCounted /\ AbsentGone

(* All of it together is inductive. *)
LEMMA InitPagesInv == Init => PagesInv
<1> SUFFICES ASSUME Init PROVE PagesInv
  OBVIOUS
<1>1. steps = [t \in Thread |-> <<>>] /\ op = [t \in Thread |-> NoOp] /\ pipe = <<>>
  BY DEF Init
<1>2. \A t \in Thread : steps[t] = <<>> /\ op[t].range = {} /\ \A x : ~Has(t, x) /\ ~NextIs(steps[t], x)
  BY <1>1, RangeEmpty DEF NoOp, Has, NextIs
<1>3. HookTypes
  BY <1>1, <1>2 DEF HookTypes, NoOp, Todo
<1>4. TypeInv
  BY <1>2, <1>3 DEF Init, TypeInv, Types, Kernel
<1>5. RegisterInv
  BY <1>2 DEF Init, RegisterInv, MappedIsKnown, WritableIsFollowed
<1>6. \A p, types : Untouched(pipe, p, types)
  BY <1>1 DEF Untouched
<1>7. RecordsFollow
  BY <1>2, <1>6 DEF Init, RecordsFollow, MapGone
<1>8. PresentCounted
  BY DEF Init, PresentCounted
<1>9. AbsentGone
  BY <1>2, <1>6 DEF Init, AbsentGone, FaultGone
<1>10. QED
  BY <1>4, <1>5, <1>7, <1>8, <1>9 DEF PagesInv

(* Every step keeps it. *)
LEMMA PagesInvKept == PagesInv /\ [Next]_vars => PagesInv'
<1>1. CASE PagesInv /\ Next
  BY <1>1, TypesKept, KernelKept, MappedIsKnownKept, WritableIsFollowedKept, RecordsFollowKept, PresentCountedKept,
     AbsentGoneKept DEF PagesInv, TypeInv, RegisterInv
<1>2. CASE PagesInv /\ UNCHANGED vars
  BY <1>2 DEF PagesInv, TypeInv, Types, HookTypes, Kernel, RegisterInv, MappedIsKnown, WritableIsFollowed, Followed,
     RecordsFollow, MapGone, MapThere, PresentCounted, FaultCounted, AboutToDrop, AbsentGone, FaultGone, Untouched,
     Settled, Has, vars, kernelVars, hookVars, faultVars, parserVars, historyVars
<1>3. QED
  BY <1>1, <1>2

(* So it always holds. *)
LEMMA PagesAlways == Spec => []PagesInv
BY InitPagesInv, PagesInvKept, PTL DEF Spec

(* When everything is quiet, what the parser will make of the pipe is what it
   has. *)
LEMMA QuietIs ==
    ASSUME TypeInv, Quiet
    PROVE  /\ \A t \in Thread : \A x : ~Has(t, x) /\ ~NextIs(steps[t], x)
           /\ place = {}
           /\ \A p : /\ MapGone(p) => p \notin mmaps
                     /\ MapThere(p) => p \in mmaps \cup overlooked
                     /\ FaultCounted(p) => p \in pageFaults
                     /\ FaultGone(p) => p \notin pageFaults
                     /\ ~AboutToDrop(p)
<1>1. \A t \in Thread : steps[t] = <<>>
  BY DEF Quiet, Ready
<1>2. \A t \in Thread : \A x : ~Has(t, x) /\ ~NextIs(steps[t], x)
  BY <1>1, RangeEmpty DEF Has, NextIs
<1>3. \A p, sets, clears : ~Settled(pipe, p, sets, clears)
  BY DEF Quiet, Settled
<1>4. place = {}
  BY DEF Quiet, TypeInv, Types
<1>5. \A p : ~AboutToDrop(p)
  BY <1>1 DEF AboutToDrop
<1>6. QED
  BY <1>2, <1>3, <1>4, <1>5 DEF MapGone, MapThere, FaultCounted, FaultGone

(* When all reports have arrived, a resident page of registered memory is
   counted: no order of faults, madvise, munmap, mprotect and mmap in any number
   of threads loses one, but for the pages that the history variable names. *)
THEOREM MissedPagesKnown == Spec => []NoMissedPage
<1>1. PagesInv => NoMissedPage
  BY QuietIs DEF PagesInv, PresentCounted, NoMissedPage
<1>2. QED
  BY <1>1, PagesAlways, PTL

(* When all reports have arrived, and faultFd is open, a page that is
   counted is resident, but for those reported between the report that their
   range is gone and its end. *)
THEOREM FalsePagesKnown == Spec => []NoFalsePage
<1>1. ASSUME PagesInv, Quiet, faultPc # "ended", NEW p \in pageFaults
      PROVE  p \in present \cup kept
  <2>1. p \in Page /\ TypeInv
    BY <1>1 DEF PagesInv, TypeInv, Types
  <2>2. QED
    BY <1>1, <2>1, QuietIs DEF PagesInv, AbsentGone
<1>2. PagesInv => NoFalsePage
  BY <1>1 DEF NoFalsePage
<1>3. QED
  BY <1>2, PagesAlways, PTL

(* What the program can write is registered with the userfaultfd, or one of the
   known reasons why it is not applies. *)
THEOREM WritableAlwaysRegistered == Spec => []WritableIsRegistered
<1>1. PagesInv => WritableIsRegistered
  BY QuietIs DEF PagesInv, RegisterInv, WritableIsFollowed, Followed, WritableIsRegistered
<1>2. QED
  BY <1>1, PagesAlways, PTL

(* When all reports have arrived, the parser has the mappings that the program
   has, but for those its tracker does not add to a range it knows in part. *)
THEOREM MappingsAlwaysAgree == Spec => []MappingsAgree
<1>1. ASSUME PagesInv, Quiet PROVE mmaps \subseteq mapped /\ mapped \subseteq mmaps \cup overlooked
  <2>1. TypeInv /\ mmaps \subseteq Page /\ RecordsFollow
    BY <1>1 DEF PagesInv, TypeInv, Types
  <2>2. QED
    BY <1>1, <2>1, QuietIs DEF RecordsFollow
<1>2. PagesInv => MappingsAgree
  BY <1>1 DEF MappingsAgree
<1>3. QED
  BY <1>2, PagesAlways, PTL
=============================================================================
