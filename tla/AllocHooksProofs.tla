-------------------------- MODULE AllocHooksProofs --------------------------
(***************************************************************************)
(* Theorems about AllocHooks, for any number of threads, blocks, libraries *)
(* and calls: what the parser knows of the modules, of the blocks once     *)
(* every report has arrived, and of their total.                           *)
(***************************************************************************)
EXTENDS AllocHooks, FiniteSums, TLAPS

(* What the proof needs to know of the types, and that a thread writes only
   what it has to report. *)
Types ==
    /\ live \in SUBSET Live
    /\ pending \in [Thread -> Seq(Record)]
    /\ at \in [Thread -> {"check", "clear", "emit"}]
    /\ \A t \in Thread : at[t] # "check" => ~Idle(t)
    /\ pipe \in Seq(Record)

(* A thread that has listed the modules and not yet cleared the flag has
   listed all of them, but for those loaded since. *)
ListingCovers ==
    \A t \in Thread : at[t] = "clear" => loaded \subseteq Listed \cup overlapped

(* The mark of a dlopen stands until its library is loaded, or the thread is
   known to have lost it. *)
MarkStands ==
    /\ dl \in [Thread -> {"out", "marked", "done"}]
    /\ \A t \in Thread : dl[t] = "marked" => modulesDirty \/ t \in erased

IInv == Types /\ ModulesListed /\ ListingCovers /\ MarkStands

-----------------------------------------------------------------------------
(* The records a hook has to report are records. *)
LEMMA RecordTypes ==
    ASSUME NEW b \in Block, NEW p \in Block, NEW n \in Size, NEW silenced
    PROVE  /\ Unless(silenced, <<MallocRecord(b, n)>>) \in Seq(Record)
           /\ Unless(silenced, <<FreeRecord(p)>>) \in Seq(Record)
           /\ Unless(silenced, ReallocRecords(p, b, n)) \in Seq(Record)
           /\ ReallocRecords(p, b, n) \in Seq(Record)
<1>1. MallocRecord(b, n) \in Record /\ FreeRecord(p) \in Record
  BY DEF MallocRecord, FreeRecord, Record
<1>2. /\ <<MallocRecord(b, n)>> \in Seq(Record) /\ <<FreeRecord(p)>> \in Seq(Record)
      /\ <<FreeRecord(p), MallocRecord(b, n)>> \in Seq(Record) /\ <<>> \in Seq(Record)
  BY <1>1
<1>3. QED
  BY <1>2 DEF Unless, ReallocRecords

(* What a record of modules carries is a set of libraries. *)
LEMMA ModulesRecord ==
    ASSUME loaded \in SUBSET Library
    PROVE  [type |-> "Modules", libs |-> loaded] \in Record
BY DEF Record

(* Appending a record keeps what was listed, and adds what a record of
   modules carries. *)
LEMMA ListedAfterAppend ==
    ASSUME pipe \in Seq(Record), NEW r \in Record, pipe' = Append(pipe, r),
           libraries' = libraries
    PROVE  /\ Listed \subseteq Listed'
           /\ r.type = "Modules" => r.libs \subseteq Listed'
           /\ pipe' \in Seq(Record)
<1>1. /\ pipe' \in Seq(Record) /\ Len(pipe') = Len(pipe) + 1 /\ pipe'[Len(pipe) + 1] = r
      /\ \A i \in DOMAIN pipe : i \in DOMAIN pipe' /\ pipe'[i] = pipe[i]
      /\ Len(pipe) + 1 \in DOMAIN pipe'
  OBVIOUS
<1>2. QED
  BY <1>1 DEF Listed

(* Reading a record loses nothing that was listed. *)
LEMMA ListedAfterParse ==
    ASSUME pipe \in Seq(Record), ParseRecord
    PROVE  Listed \subseteq Listed' /\ pipe' \in Seq(Record)
<1>1. pipe # <<>> /\ pipe' = Tail(pipe)
  BY DEF ParseRecord
<1>2. /\ pipe' \in Seq(Record)
      /\ \A i \in DOMAIN pipe : i # 1 => i - 1 \in DOMAIN pipe' /\ pipe'[i - 1] = pipe[i]
      /\ Head(pipe) = pipe[1]
  BY <1>1
<1>3. /\ libraries \subseteq libraries'
      /\ pipe[1].type = "Modules" => pipe[1].libs \subseteq libraries'
  <2>1. \/ libraries' = libraries /\ Head(pipe).type # "Modules"
        \/ libraries' = libraries \cup Head(pipe).libs
    BY DEF ParseRecord, parserVars
  <2>2. QED
    BY <1>2, <2>1
<1>4. ASSUME NEW lib \in Listed
      PROVE  lib \in Listed'
  <2>1. CASE lib \in libraries
    BY <2>1, <1>3 DEF Listed
  <2>2. CASE \E i \in DOMAIN pipe : pipe[i].type = "Modules" /\ lib \in pipe[i].libs
    <3>1. PICK i \in DOMAIN pipe : pipe[i].type = "Modules" /\ lib \in pipe[i].libs
      BY <2>2
    <3>2. CASE i = 1
      BY <3>1, <3>2, <1>3 DEF Listed
    <3>3. CASE i # 1
      BY <3>1, <3>3, <1>2 DEF Listed
    <3>4. QED
      BY <3>2, <3>3
  <2>3. QED
    BY <1>4, <2>1, <2>2 DEF Listed
<1>5. QED
  BY <1>2, <1>4

-----------------------------------------------------------------------------
(* While no thread is past the listing and nothing is listed, the flag is
   set. *)
LEMMA InitIInv == Init => IInv
BY DEF Init, IInv, Types, ModulesListed, ListingCovers, MarkStands, Live, Idle

(* What a hook does to the state that a report reads. *)
Calls(t) ==
    /\ Idle(t)
    /\ \E records \in Seq(Record) : pending' = [pending EXCEPT ![t] = records]
    /\ live' \in SUBSET Live

(* Every hook does that. *)
LEMMA HookCalls ==
    ASSUME live \in SUBSET Live, pending \in [Thread -> Seq(Record)], NEW t \in Thread, Hook(t)
    PROVE  Calls(t)
<1>1. \A m \in live : m \in Live /\ m.block \in Block
  BY DEF Live
<1>2. ASSUME NEW b \in Block, NEW n \in Size
      PROVE  [block |-> b, size |-> n] \in Live
  BY DEF Live
<1>3. ASSUME NEW b \in Block, NEW n \in Size, malloc(t, b, n)
      PROVE  Calls(t)
  BY <1>2, <1>3, RecordTypes DEF malloc, Report, Calls
<1>4. ASSUME NEW m \in live, free(t, m)
      PROVE  Calls(t)
  <2>1. PICK b \in Block, n \in Size : m = [block |-> b, size |-> n]
    BY <1>1 DEF Live
  <2>2. Unless(WasInMallocFree(t), <<FreeRecord(m.block)>>) \in Seq(Record)
    BY <1>1, <2>1, RecordTypes
  <2>3. QED
    BY <1>4, <2>2 DEF free, Report, Calls
<1>5. ASSUME NEW m \in live, NEW b \in Block, NEW n \in Size, Reallocated(m, b, n)
      PROVE  live' \in SUBSET Live
  BY <1>2, <1>5 DEF Reallocated
<1>6. ASSUME NEW m \in live, NEW b \in Block, NEW n \in Size, realloc(t, m, b, n)
      PROVE  Calls(t)
  <2>1. Unless(WasInMallocFree(t), ReallocRecords(m.block, b, n)) \in Seq(Record)
    BY <1>1, RecordTypes
  <2>2. QED
    BY <1>5, <1>6, <2>1 DEF realloc, Report, Calls
<1>7. ASSUME NEW m \in live, NEW b \in Block, NEW n \in Size, reallocarray(t, m, b, n)
      PROVE  Calls(t)
  <2> DEFINE records ==
        NestedInMallocFree(ReallocRecords(m.block, b, n)) \o
            (IF WasInMallocFree(t) THEN <<FreeRecord(m.block)>>
                                   ELSE ReallocRecords(m.block, b, n))
  <2>1. <<FreeRecord(m.block)>> \in Seq(Record)
    BY <1>1 DEF FreeRecord, Record
  <2>2. ReallocRecords(m.block, b, n) \in Seq(Record)
    BY <1>1, RecordTypes
  <2>3. records \in Seq(Record)
    BY <2>1, <2>2 DEF NestedInMallocFree
  <2>4. Idle(t) /\ pending' = [pending EXCEPT ![t] = records] /\ Reallocated(m, b, n)
    BY <1>7 DEF reallocarray, Report
  <2> HIDE DEF records
  <2>5. QED
    BY <1>5, <2>3, <2>4 DEF Calls
<1>8. ASSUME NEW m \in live, reallocToZero(t, m)
      PROVE  Calls(t)
  <2>1. Idle(t) /\ pending' = pending /\ live' \subseteq live
    BY <1>8 DEF reallocToZero, reportVars
  <2>2. pending' = [pending EXCEPT ![t] = pending[t]] /\ pending[t] \in Seq(Record)
    BY <2>1
  <2>3. QED
    BY <2>1, <2>2 DEF Calls
<1>9. ASSUME mmap(t)
      PROVE  Calls(t)
  <2>1. <<[type |-> "Mmap"]>> \in Seq(Record)
    BY DEF Record
  <2>2. QED
    BY <1>9, <2>1 DEF mmap, Report, Calls, heapVars
<1>10. QED
  BY <1>3, <1>4, <1>6, <1>7, <1>8, <1>9 DEF Hook

(* A call of a hook leaves the modules and the pipe alone. *)
LEMMA HookKeepsIInv ==
    ASSUME IInv, NEW t \in Thread, Hook(t)
    PROVE  IInv'
<1> USE DEF IInv
<1>1. UNCHANGED <<at, moduleVars, pipe, libraries>>
  BY DEF Hook, mmap, malloc, free, realloc, reallocarray, reallocToZero, moduleVars, parserVars,
         reportVars
<1>2. ModulesListed' /\ ListingCovers' /\ MarkStands'
  BY <1>1 DEF ModulesListed, ListingCovers, MarkStands, Listed, moduleVars
<1>3. Calls(t)
  BY HookCalls DEF Types
<1>4. Types'
  BY <1>1, <1>3 DEF Calls, Types, Idle
<1>5. QED
  BY <1>2, <1>4

(* Loading a library: either the flag is set, and nobody is about to clear
   it, or the library counts as overlapped. *)
LEMMA LoaderKeepsIInv ==
    ASSUME IInv, NEW t \in Thread, Loader(t)
    PROVE  IInv'
<1> USE DEF IInv
<1>1. UNCHANGED <<live, pending, at, pipe, libraries>>
  BY DEF Loader, dlopenMark, dlLoad, dlUnload, dlReturn, heapVars, reportVars, parserVars
<1>2. Types' /\ Listed' = Listed
  BY <1>1 DEF Types, Idle, Listed
<1>3. CASE dlopenMark(t)
  BY <1>1, <1>2, <1>3 DEF MarkStands, dlopenMark, Marked, ModulesListed, ListingCovers
<1>4. CASE dlReturn(t)
  BY <1>1, <1>2, <1>4 DEF MarkStands, dlReturn, ModulesListed, ListingCovers
<1>5. ASSUME NEW lib \in Library, dlLoad(t, lib)
      PROVE  IInv'
  BY <1>1, <1>2, <1>5 DEF MarkStands, dlLoad, ModulesListed, ListingCovers
<1>6. ASSUME NEW lib \in Library, dlUnload(t, lib)
      PROVE  IInv'
  BY <1>1, <1>2, <1>6 DEF MarkStands, dlUnload, ModulesListed, ListingCovers
<1>7. QED
  BY <1>3, <1>4, <1>5, <1>6 DEF Loader

(* Reporting: a listing covers what is loaded at that moment, and the flag is
   cleared only by a thread whose listing covers what is loaded. *)
LEMMA ReportKeepsIInv ==
    ASSUME IInv, loaded \in SUBSET Library, NEW t \in Thread, ReportStep(t)
    PROVE  IInv'
<1> USE DEF IInv
<1>0. MarkStands'
  BY DEF ReportStep, Refresh, Clear, Emit, moduleVars, MarkStands
<1> DEFINE modules == [type |-> "Modules", libs |-> loaded]
<1>1. CASE Refresh(t) /\ modulesDirty
  <2>1. modules \in Record /\ modules.type = "Modules" /\ modules.libs = loaded
    BY ModulesRecord
  <2>2. pipe' = Append(pipe, modules) /\ UNCHANGED <<libraries, loaded, overlapped>>
    BY <1>1 DEF Refresh, moduleVars, parserVars
  <2>3. loaded' \subseteq Listed' /\ pipe' \in Seq(Record)
    BY <2>1, <2>2, ListedAfterAppend DEF Types
  <2>4. Types'
    BY <1>1, <2>3 DEF Refresh, Types, Idle, heapVars
  <2>5. QED
    BY <1>0, <2>3, <2>4 DEF ModulesListed, ListingCovers
<1>2. CASE Refresh(t) /\ ~modulesDirty
  <2>1. /\ at[t] = "check" /\ ~Idle(t) /\ at' = [at EXCEPT ![t] = "emit"]
        /\ UNCHANGED <<live, pending, modulesDirty, loaded, overlapped, pipe, libraries>>
    BY <1>2 DEF Refresh, heapVars, moduleVars, parserVars
  <2>2. Types' /\ \A u \in Thread : at'[u] = "clear" => at[u] = "clear"
    BY <2>1 DEF Types, Idle
  <2>3. Listed' = Listed
    BY <2>1 DEF Listed
  <2>4. QED
    BY <1>0, <2>1, <2>2, <2>3 DEF ModulesListed, ListingCovers
<1>3. CASE Clear(t)
  BY <1>0, <1>3 DEF Clear, Types, Idle, heapVars, parserVars, ModulesListed, ListingCovers, Listed
<1>4. CASE Emit(t)
  <2>1. Head(pending[t]) \in Record /\ Tail(pending[t]) \in Seq(Record)
    BY <1>4 DEF Emit, Types, Idle
  <2>2. /\ pipe' = Append(pipe, Head(pending[t]))
        /\ pending' = [pending EXCEPT ![t] = Tail(pending[t])]
        /\ at' = [at EXCEPT ![t] = "check"]
        /\ UNCHANGED <<libraries, loaded, overlapped, modulesDirty, live>>
    BY <1>4 DEF Emit, Report, moduleVars, parserVars, heapVars
  <2>3. Listed \subseteq Listed' /\ pipe' \in Seq(Record)
    BY <2>1, <2>2, ListedAfterAppend DEF Types
  <2>4. Types'
    BY <2>1, <2>2, <2>3 DEF Types, Idle
  <2>5. ModulesListed' /\ ListingCovers'
    BY <2>2, <2>3 DEF Types, ModulesListed, ListingCovers
  <2>6. QED
    BY <1>0, <2>4, <2>5
<1>5. QED
  BY <1>1, <1>2, <1>3, <1>4 DEF ReportStep

(* Reading a record keeps what is listed or on its way. *)
LEMMA ParserKeepsIInv ==
    ASSUME IInv, ParseRecord
    PROVE  IInv'
<1> USE DEF IInv
<1>1. UNCHANGED <<live, pending, at, moduleVars>>
  BY DEF ParseRecord, heapVars, reportVars, moduleVars
<1>2. Listed \subseteq Listed' /\ pipe' \in Seq(Record)
  BY ListedAfterParse DEF Types
<1>3. QED
  BY <1>1, <1>2 DEF Types, Idle, ModulesListed, ListingCovers, MarkStands, moduleVars

(* Only libraries are loaded. *)
LEMMA LoadedType ==
    /\ Init => loaded \in SUBSET Library
    /\ loaded \in SUBSET Library /\ [Next]_vars => loaded' \in SUBSET Library
<1>1. Init => loaded \in SUBSET Library
  BY DEF Init
<1>2. ASSUME loaded \in SUBSET Library, [Next]_vars
      PROVE  loaded' \in SUBSET Library
  <2>1. ASSUME NEW t \in Thread, Hook(t)
        PROVE  UNCHANGED loaded
    BY <2>1 DEF Hook, mmap, malloc, free, realloc, reallocarray, reallocToZero, moduleVars
  <2>2. ASSUME NEW t \in Thread, Loader(t)
        PROVE  loaded' \in SUBSET Library
    BY <1>2, <2>2 DEF Loader, dlopenMark, dlLoad, dlUnload, dlReturn
  <2>3. ASSUME NEW t \in Thread, ReportStep(t)
        PROVE  UNCHANGED loaded
    BY <2>3 DEF ReportStep, Refresh, Clear, Emit, moduleVars
  <2>4. ParseRecord => UNCHANGED loaded
    BY DEF ParseRecord, moduleVars
  <2>5. UNCHANGED vars => UNCHANGED loaded
    BY DEF vars, moduleVars
  <2>6. QED
    BY <1>2, <2>1, <2>2, <2>3, <2>4, <2>5 DEF Next
<1>3. QED
  BY <1>1, <1>2

(* A step keeps what is known of the modules. *)
LEMMA ModulesStep ==
    ASSUME IInv, loaded \in SUBSET Library, [Next]_vars
    PROVE  IInv' /\ loaded' \in SUBSET Library
<1>1. loaded' \in SUBSET Library
  BY LoadedType
<1>2. ASSUME NEW t \in Thread, Hook(t) \/ Loader(t) \/ ReportStep(t)
      PROVE  IInv'
  BY <1>2, HookKeepsIInv, LoaderKeepsIInv, ReportKeepsIInv
<1>3. CASE ParseRecord
  BY <1>1, <1>3, ParserKeepsIInv
<1>4. CASE UNCHANGED vars
  BY <1>4 DEF vars, heapVars, reportVars, moduleVars, parserVars, IInv, Types, Idle,
              ModulesListed, ListingCovers, MarkStands, Listed
<1>5. QED
  BY <1>1, <1>2, <1>3, <1>4 DEF Next

(* While the modules are not dirty, the parser knows every loaded library or
   will when it has read the pipe, except those whose dlopen overlapped
   another thread's listing (Preload.cpp reportMalloc, reportFree, dlopen). *)
THEOREM ModulesAlwaysListed == Spec => []ModulesListed
<1> DEFINE Inv == IInv /\ loaded \in SUBSET Library
<1>1. Init => Inv
  BY InitIInv, LoadedType
<1>2. Inv /\ [Next]_vars => Inv'
  BY ModulesStep
<1>3. Inv => ModulesListed
  BY DEF IInv
<1>4. QED
  BY <1>1, <1>2, <1>3, PTL DEF Spec

-----------------------------------------------------------------------------
(* Blocks.  Reports of several threads about one address may be written in
   any order.  What follows says which of them the parser sees last. *)

(* Once the first k records of the pipe are read, the parser has no block
   at b. *)
GoneUpTo(b, k) ==
    \E i \in 0..k :
        /\ \/ i = 0 /\ \A m \in mallocs : m.block # b
           \/ i > 0 /\ pipe[i] = FreeRecord(b)
        /\ \A j \in (i + 1)..k : pipe[j].type = "Malloc" => pipe[j].block # b

(* Once the pipe is read, the parser has no block at b. *)
WillBeGone(b) == GoneUpTo(b, Len(pipe))

(* Once the pipe is read, the parser has m. *)
WillBeRecorded(m) ==
    \E i \in 0..Len(pipe) :
        /\ \/ i = 0 /\ m \in mallocs
           \/ i > 0 /\ pipe[i] = MallocRecord(m.block, m.size) /\ GoneUpTo(m.block, i - 1)
        /\ \A j \in (i + 1)..Len(pipe) : pipe[j].type = "Free" => pipe[j].block # m.block

(* A record of a block is made by its fields. *)
LEMMA RecordIs ==
    ASSUME NEW r \in Record
    PROVE  /\ r.type = "Malloc" => /\ r = MallocRecord(r.block, r.size)
                                   /\ [block |-> r.block, size |-> r.size] \in Live
           /\ r.type = "Free" => r = FreeRecord(r.block) /\ r.block \in Block
           /\ \A b, n : /\ MallocRecord(b, n).type = "Malloc"
                        /\ MallocRecord(b, n).block = b /\ MallocRecord(b, n).size = n
                        /\ FreeRecord(b).type = "Free" /\ FreeRecord(b).block = b
BY DEF Record, MallocRecord, FreeRecord, Live

(* A record that is not of an allocation at b leaves b gone; a free of b makes
   it so. *)
LEMMA GoneAppended ==
    ASSUME pipe \in Seq(Record), NEW r \in Record, pipe' = Append(pipe, r), mallocs' = mallocs,
           NEW b
    PROVE  /\ \A k \in 0..Len(pipe) : GoneUpTo(b, k) => GoneUpTo(b, k)'
           /\ WillBeGone(b) /\ ~(r.type = "Malloc" /\ r.block = b) => WillBeGone(b)'
           /\ r = FreeRecord(b) => WillBeGone(b)'
<1>1. /\ Len(pipe) \in Nat /\ Len(pipe') = Len(pipe) + 1 /\ pipe'[Len(pipe) + 1] = r
      /\ \A i \in 1..Len(pipe) : pipe'[i] = pipe[i]
  OBVIOUS
<1>2. ASSUME NEW k \in 0..Len(pipe), GoneUpTo(b, k)
      PROVE  GoneUpTo(b, k)'
  BY <1>1, <1>2 DEF GoneUpTo
<1>3. ASSUME WillBeGone(b), ~(r.type = "Malloc" /\ r.block = b)
      PROVE  WillBeGone(b)'
  BY <1>1, <1>3 DEF GoneUpTo, WillBeGone
<1>4. ASSUME r = FreeRecord(b)
      PROVE  WillBeGone(b)'
  BY <1>1, <1>4 DEF GoneUpTo, WillBeGone
<1>5. QED
  BY <1>2, <1>3, <1>4

(* A record that is not a free of the block of m leaves m recorded; the record
   of m makes it so when the block is gone. *)
LEMMA RecordedAppended ==
    ASSUME pipe \in Seq(Record), NEW r \in Record, pipe' = Append(pipe, r), mallocs' = mallocs,
           NEW m
    PROVE  /\ WillBeRecorded(m) /\ ~(r.type = "Free" /\ r.block = m.block) => WillBeRecorded(m)'
           /\ WillBeGone(m.block) /\ r = MallocRecord(m.block, m.size) => WillBeRecorded(m)'
<1>1. /\ Len(pipe) \in Nat /\ Len(pipe') = Len(pipe) + 1 /\ pipe'[Len(pipe) + 1] = r
      /\ \A i \in 1..Len(pipe) : pipe'[i] = pipe[i]
  OBVIOUS
<1>2. \A k \in 0..Len(pipe) : GoneUpTo(m.block, k) => GoneUpTo(m.block, k)'
  BY GoneAppended
<1>3. ASSUME WillBeRecorded(m), ~(r.type = "Free" /\ r.block = m.block)
      PROVE  WillBeRecorded(m)'
  <2>1. PICK i \in 0..Len(pipe) :
          /\ \/ i = 0 /\ m \in mallocs
             \/ i > 0 /\ pipe[i] = MallocRecord(m.block, m.size) /\ GoneUpTo(m.block, i - 1)
          /\ \A j \in (i + 1)..Len(pipe) : pipe[j].type = "Free" => pipe[j].block # m.block
    BY <1>3 DEF WillBeRecorded
  <2>2. i \in 0..Len(pipe') /\ (i > 0 => pipe'[i] = pipe[i] /\ i - 1 \in 0..Len(pipe))
    BY <1>1
  <2>3. i > 0 => pipe'[i] = MallocRecord(m.block, m.size) /\ GoneUpTo(m.block, i - 1)'
    BY <1>2, <2>1, <2>2
  <2>4. i = 0 => m \in mallocs'
    BY <2>1
  <2>5. \A j \in (i + 1)..Len(pipe') : pipe'[j].type = "Free" => pipe'[j].block # m.block
    BY <1>1, <1>3, <2>1
  <2>6. QED
    BY <2>2, <2>3, <2>4, <2>5 DEF WillBeRecorded
<1>4. ASSUME WillBeGone(m.block), r = MallocRecord(m.block, m.size)
      PROVE  WillBeRecorded(m)'
  <2>1. PICK n \in Nat : n = Len(pipe)
    BY <1>1
  <2>2. GoneUpTo(m.block, n)'
    <3>1. GoneUpTo(m.block, n)
      BY <1>4, <2>1 DEF WillBeGone
    <3>2. QED
      BY <1>2, <2>1, <3>1
  <2>3. /\ n + 1 \in 0..Len(pipe') /\ n + 1 > 0 /\ (n + 1) - 1 = n
        /\ pipe'[n + 1] = MallocRecord(m.block, m.size)
        /\ \A j \in ((n + 1) + 1)..Len(pipe') : FALSE
    BY <1>1, <1>4, <2>1
  <2>4. GoneUpTo(m.block, (n + 1) - 1)'
    BY <2>2, <2>3
  <2>5. QED
    BY <2>3, <2>4 DEF WillBeRecorded
<1>5. QED
  BY <1>3, <1>4

(* What the parser does with the first record of the pipe. *)
LEMMA ParserDoes ==
    ASSUME pipe \in Seq(Record), ParseRecord
    PROVE  /\ pipe # <<>> /\ pipe[1] \in Record
           /\ Len(pipe) \in Nat \ {0} /\ Len(pipe') = Len(pipe) - 1 /\ pipe' \in Seq(Record)
           /\ \A i \in 1..(Len(pipe) - 1) : pipe'[i] = pipe[i + 1]
           /\ \A m \in mallocs' : m \in mallocs \/ /\ pipe[1].type = "Malloc"
                                                   /\ pipe[1].block = m.block
           /\ \A m \in mallocs : m \in mallocs' \/ /\ pipe[1].type = "Free"
                                                   /\ pipe[1].block = m.block
           /\ pipe[1].type = "Malloc" /\ (\A m \in mallocs : m.block # pipe[1].block) =>
                 [block |-> pipe[1].block, size |-> pipe[1].size] \in mallocs'
           /\ pipe[1].type = "Free" => \A m \in mallocs' : m.block # pipe[1].block
           /\ UNCHANGED <<heapVars, reportVars>>
<1>1. pipe # <<>> /\ pipe' = Tail(pipe) /\ UNCHANGED <<heapVars, reportVars>>
  BY DEF ParseRecord
<1>2. /\ pipe[1] \in Record /\ Head(pipe) = pipe[1]
      /\ Len(pipe) \in Nat \ {0} /\ Len(pipe') = Len(pipe) - 1 /\ pipe' \in Seq(Record)
      /\ \A i \in 1..(Len(pipe) - 1) : pipe'[i] = pipe[i + 1]
  BY <1>1
<1> DEFINE r == pipe[1]
<1>3. \/ r.type = "Malloc" /\ mallocs' = MallocsWith([block |-> r.block, size |-> r.size])
      \/ r.type = "Free" /\ mallocs' = mallocs \ {m \in mallocs : m.block = r.block}
      \/ r.type \notin {"Malloc", "Free"} /\ mallocs' = mallocs
  BY <1>2 DEF ParseRecord, parserVars
<1> HIDE DEF r
<1>4. /\ \A m \in mallocs' : m \in mallocs \/ (r.type = "Malloc" /\ r.block = m.block)
      /\ \A m \in mallocs : m \in mallocs' \/ (r.type = "Free" /\ r.block = m.block)
      /\ r.type = "Malloc" /\ (\A m \in mallocs : m.block # r.block) =>
            [block |-> r.block, size |-> r.size] \in mallocs'
      /\ r.type = "Free" => \A m \in mallocs' : m.block # r.block
  <2>1. CASE r.type = "Malloc"
    BY <1>3, <2>1 DEF MallocsWith
  <2>2. CASE r.type # "Malloc"
    BY <1>3, <2>2
  <2>3. QED
    BY <2>1, <2>2
<1>5. QED
  BY <1>1, <1>2, <1>4 DEF r

(* Reading a record leaves a block as gone as it was. *)
LEMMA GoneParsed ==
    ASSUME pipe \in Seq(Record), ParseRecord, NEW b, NEW k \in 1..Len(pipe), GoneUpTo(b, k)
    PROVE  GoneUpTo(b, k - 1)'
<1>1. PICK i \in 0..k :
        /\ \/ i = 0 /\ \A m \in mallocs : m.block # b
           \/ i > 0 /\ pipe[i] = FreeRecord(b)
        /\ \A j \in (i + 1)..k : pipe[j].type = "Malloc" => pipe[j].block # b
  BY DEF GoneUpTo
<1>2. Len(pipe) \in Nat /\ \A j \in 1..(k - 1) : pipe'[j] = pipe[j + 1]
  BY ParserDoes
<1>3. CASE i > 1
  <2>1. i - 1 \in 0..(k - 1) /\ i - 1 > 0 /\ pipe'[i - 1] = FreeRecord(b)
    BY <1>1, <1>2, <1>3
  <2>2. \A j \in i..(k - 1) : pipe'[j].type = "Malloc" => pipe'[j].block # b
    BY <1>1, <1>2, <1>3
  <2>3. QED
    BY <2>1, <2>2 DEF GoneUpTo
<1>4. CASE i \in {0, 1}
  <2>1. \A m \in mallocs' : m.block # b
    <3>1. pipe[1] \in Record
      BY ParserDoes
    <3>2. CASE i = 0
      BY <1>1, <3>2, ParserDoes
    <3>3. CASE i = 1
      <4>1. pipe[1] = FreeRecord(b)
        BY <1>1, <3>3
      <4>2. pipe[1].type = "Free" /\ pipe[1].block = b
        BY <4>1 DEF FreeRecord
      <4>3. QED
        BY <4>2, ParserDoes
    <3>4. QED
      BY <1>4, <3>2, <3>3
  <2>2. \A j \in 1..(k - 1) : pipe'[j].type = "Malloc" => pipe'[j].block # b
    BY <1>1, <1>2, <1>4
  <2>3. QED
    BY <2>1, <2>2 DEF GoneUpTo
<1>5. QED
  BY <1>3, <1>4

(* Reading a record leaves m recorded. *)
LEMMA RecordedParsed ==
    ASSUME pipe \in Seq(Record), ParseRecord, NEW m \in Live, WillBeRecorded(m)
    PROVE  WillBeRecorded(m)'
<1>1. PICK i \in 0..Len(pipe) :
        /\ \/ i = 0 /\ m \in mallocs
           \/ i > 0 /\ pipe[i] = MallocRecord(m.block, m.size) /\ GoneUpTo(m.block, i - 1)
        /\ \A j \in (i + 1)..Len(pipe) : pipe[j].type = "Free" => pipe[j].block # m.block
  BY DEF WillBeRecorded
<1>2. /\ Len(pipe) \in Nat \ {0} /\ Len(pipe') = Len(pipe) - 1
      /\ \A j \in 1..(Len(pipe) - 1) : pipe'[j] = pipe[j + 1]
  BY ParserDoes
<1>3. CASE i > 1
  <2>1. i - 1 \in 0..Len(pipe') /\ i - 1 > 0 /\ pipe'[i - 1] = MallocRecord(m.block, m.size)
    BY <1>1, <1>2, <1>3
  <2>2. GoneUpTo(m.block, (i - 1) - 1)'
    <3>1. i - 1 \in 1..Len(pipe) /\ GoneUpTo(m.block, i - 1)
      BY <1>1, <1>2, <1>3
    <3>2. QED
      BY <3>1, GoneParsed
  <2>3. \A j \in ((i - 1) + 1)..Len(pipe') : pipe'[j].type = "Free" => pipe'[j].block # m.block
    BY <1>1, <1>2, <1>3
  <2>4. QED
    BY <2>1, <2>2, <2>3 DEF WillBeRecorded
<1>4. CASE i \in {0, 1}
  <2>1. m \in mallocs'
    <3>1. pipe[1] \in Record
      BY ParserDoes
    <3>2. CASE i = 0
      <4>1. ~(pipe[1].type = "Free" /\ pipe[1].block = m.block) /\ m \in mallocs
        BY <1>1, <1>2, <3>2
      <4>2. \A k \in mallocs : k \in mallocs' \/ (pipe[1].type = "Free" /\ pipe[1].block = k.block)
        BY ParserDoes
      <4>3. QED
        BY <4>1, <4>2
    <3>3. CASE i = 1
      <4>1. pipe[1] = MallocRecord(m.block, m.size) /\ GoneUpTo(m.block, 0)
        BY <1>1, <3>3
      <4>2. \A k \in mallocs : k.block # m.block
        BY <4>1 DEF GoneUpTo
      <4>3. /\ pipe[1].type = "Malloc" /\ pipe[1].block = m.block /\ pipe[1].size = m.size
            /\ m = [block |-> m.block, size |-> m.size]
        BY <3>1, <4>1, RecordIs DEF Live
      <4>4. QED
        BY <4>2, <4>3, ParserDoes
    <3>4. QED
      BY <1>4, <3>2, <3>3
  <2>2. \A j \in 1..Len(pipe') : pipe'[j].type = "Free" => pipe'[j].block # m.block
    BY <1>1, <1>2, <1>4
  <2>3. QED
    BY <1>2, <2>1, <2>2 DEF WillBeRecorded
<1>5. QED
  BY <1>3, <1>4

(* A thread reports the block it returns last, and until then nobody else
   frees that block. *)
MallocIsLast ==
    \A t \in Thread : \A i \in DOMAIN pending[t] :
        pending[t][i].type = "Malloc" =>
            /\ i = Len(pending[t])
            /\ pending[t][i].block \in result[t] \ unseen
            /\ [block |-> pending[t][i].block, size |-> pending[t][i].size] \in live

ResultsLive ==
    /\ result \in [Thread -> SUBSET Block]
    /\ \A t \in Thread : \A b \in result[t] : ~FreeBlock(b)
    /\ \A t \in Thread : Idle(t) => result[t] = {}
    /\ \A t, u \in Thread : t # u => result[t] \cap result[u] = {}

(* The allocator gives a block out once; unseen are live blocks. *)
BlocksApart ==
    /\ \A m, k \in live : m.block = k.block => m = k
    /\ \A b \in unseen : ~FreeBlock(b)

(* The free of a live block that is still to be reported is one by the realloc
   that returns the block, unless there was a race. *)
FreesKnown ==
    \A t \in Thread, m \in live :
        ReportingFree(t, m.block) => m.block \in result[t] \cup raced

(* The parser has no block at b, or will have none, or the free is silent. *)
Going(b) == b \in silent \/ (\E t \in Thread : ReportingFree(t, b)) \/ WillBeGone(b)

(* That is so of every block that is free or unseen. *)
AbsentGone == \A b \in Block : FreeBlock(b) \/ b \in unseen => Going(b)

(* Thread t is about to report m, and the parser will then have no block there. *)
Reporting(t, m) ==
    /\ ~Idle(t) /\ pending[t][Len(pending[t])] = MallocRecord(m.block, m.size)
    /\ ReportingFree(t, m.block) \/ WillBeGone(m.block)

(* The record of m is on its way, or read, and no free of it follows. *)
Reported(m) == (\A t \in Thread : ~ReportingFree(t, m.block)) /\ WillBeRecorded(m)

(* One of them holds of every live block, but for the races. *)
LiveFollowed ==
    \A m \in live : m.block \notin raced \cup silent \cup unseen =>
        (\E t \in Thread : Reporting(t, m)) \/ Reported(m)

BlocksInv ==
    MallocIsLast /\ ResultsLive /\ BlocksApart /\ FreesKnown /\ AbsentGone /\ LiveFollowed

(* A free of b is among the records. *)
FreeIn(records, b) ==
    \E i \in DOMAIN records : records[i].type = "Free" /\ records[i].block = b

(* A hook of thread t takes the blocks in old, gives out those in new, and has
   records to report before it returns a block of R. *)
Changes(t, old, new, R, records) ==
    /\ Idle(t)
    /\ live' = (live \ old) \cup new
    /\ pending' = [pending EXCEPT ![t] = records]
    /\ result' = [result EXCEPT ![t] = R]
    /\ records = <<>> => R = {}
    /\ UNCHANGED <<pipe, mallocs>>
    /\ raced \subseteq raced' /\ silent \subseteq silent'

(* It takes blocks the program may use, and gives out a free one, or the one
   it takes. *)
Handles(old, new, R) ==
    /\ \A m \in old : m \in live /\ Usable(m)
    /\ \A k, l \in new : k = l
    /\ \A k \in new :
          /\ k \in Live
          /\ FreeBlock(k.block) \/ \E m \in old : m.block = k.block
          /\ FreeBlock(k.block) => RacedBy(k.block) \subseteq raced'
    /\ \A b \in R : \E k \in new : k.block = b

(* It reports what it takes and what it gives out, or counts it as silent or
   unseen. *)
Tells(old, new, R, records) ==
    /\ \A i \in DOMAIN records : records[i].type = "Malloc" =>
          /\ i = Len(records)
          /\ \E k \in new : /\ k.block = records[i].block /\ k.size = records[i].size
                            /\ k.block \in R \ unseen'
    /\ \A p : FreeIn(records, p) => /\ \E m \in old : m.block = p
                                    /\ \A k \in new : k.block = p => p \in R
    /\ \A m \in old : m.block \in silent' \cup unseen \/ FreeIn(records, m.block)
    /\ \A k \in new :
          \/ k.block \in unseen' \cup silent'
          \/ /\ records # <<>> /\ records[Len(records)] = MallocRecord(k.block, k.size)
             /\ FreeBlock(k.block) \/ FreeIn(records, k.block)

(* A block becomes unseen when it is given out, and is so until it is taken. *)
Hides(old, new, records) ==
    /\ \A b \in unseen' :
          \/ b \in unseen /\ \A m \in old : m.block # b
          \/ /\ \E k \in new : k.block = b
             /\ b \in unseen \/ FreeBlock(b) \/ FreeIn(records, b)
    /\ \A b \in unseen : b \in unseen' \/ \E m \in old : m.block = b

HookDoes(t, old, new, R, records) ==
    /\ Changes(t, old, new, R, records)
    /\ Handles(old, new, R)
    /\ Tells(old, new, R, records)
    /\ Hides(old, new, records)

(* The lists of records a hook can have to report. *)
LEMMA NoFrees ==
    ASSUME NEW s, s = <<>> \/ s = <<[type |-> "Mmap"]>> \/ \E b, n : s = <<MallocRecord(b, n)>>
    PROVE  \A x : ~FreeIn(s, x)
BY DEF FreeIn, MallocRecord

(* Lists with a free. *)
LEMMA OneFree ==
    ASSUME NEW s, NEW p,
           s = <<FreeRecord(p)>> \/ \E b, n : s = <<FreeRecord(p), MallocRecord(b, n)>>
    PROVE  \A x : FreeIn(s, x) <=> x = p
BY DEF FreeIn, FreeRecord, MallocRecord

(* Lists without an allocation. *)
LEMMA NoMallocs ==
    ASSUME NEW s, s = <<>> \/ s = <<[type |-> "Mmap"]>> \/ \E p : s = <<FreeRecord(p)>>
    PROVE  \A i \in DOMAIN s : s[i].type # "Malloc"
BY DEF FreeRecord

(* Lists that end in an allocation. *)
LEMMA OneMalloc ==
    ASSUME NEW s, NEW b, NEW n,
           s = <<MallocRecord(b, n)>> \/ \E p : s = <<FreeRecord(p), MallocRecord(b, n)>>
    PROVE  /\ s # <<>> /\ s[Len(s)] = MallocRecord(b, n)
           /\ \A i \in DOMAIN s : s[i].type = "Malloc" =>
                 i = Len(s) /\ s[i].block = b /\ s[i].size = n
<1>1. CASE s = <<MallocRecord(b, n)>>
  BY <1>1 DEF MallocRecord
<1>2. ASSUME NEW p, s = <<FreeRecord(p), MallocRecord(b, n)>>
      PROVE  /\ Len(s) = 2 /\ s[1].type = "Free" /\ s[2] = MallocRecord(b, n)
             /\ DOMAIN s = {1, 2} /\ s # <<>>
  BY <1>2 DEF FreeRecord
<1>3. MallocRecord(b, n).block = b /\ MallocRecord(b, n).size = n
  BY DEF MallocRecord
<1>4. QED
  BY <1>1, <1>2, <1>3

(* An allocation. *)
LEMMA MallocDoes ==
    ASSUME NEW t \in Thread, NEW b \in Block, NEW n \in Size, malloc(t, b, n),
           \A x \in unseen : ~FreeBlock(x)
    PROVE  \E new, R, records : HookDoes(t, {}, new, R, records)
<1>1. PICK k \in Live : k = [block |-> b, size |-> n] /\ k.block = b /\ k.size = n
  <2> DEFINE k == [block |-> b, size |-> n]
  <2>1. k \in Live /\ k.block = b /\ k.size = n
    BY DEF Live
  <2>2. QED
    BY <2>1
<1>2. PICK R, s :
        IF WasInMallocFree(t) THEN s = <<>> /\ R = {} ELSE s = <<MallocRecord(b, n)>> /\ R = {b}
  OBVIOUS
<1>3. s = <<MallocRecord(b, n)>> => s # <<>>
  BY OneMalloc
<1>4. /\ Changes(t, {}, {k}, R, s)
      /\ FreeBlock(b) /\ raced' = raced \cup RacedBy(b)
      /\ unseen' = IF WasInMallocFree(t) THEN unseen \cup {b} ELSE unseen
  BY <1>1, <1>2, <1>3 DEF malloc, Report, Unless, parserVars, Changes
<1>5. Handles({}, {k}, R)
  BY <1>1, <1>2, <1>4 DEF Handles
<1>6. Tells({}, {k}, R, s)
  <2>1. \A x : ~FreeIn(s, x)
    BY <1>2, NoFrees
  <2>2. CASE WasInMallocFree(t)
    BY <1>1, <1>2, <1>4, <2>1, <2>2, NoMallocs DEF Tells
  <2>3. CASE ~WasInMallocFree(t)
    <3>1. /\ s # <<>> /\ s[Len(s)] = MallocRecord(k.block, k.size) /\ FreeBlock(k.block)
          /\ \A i \in DOMAIN s : s[i].type = "Malloc" =>
                i = Len(s) /\ s[i].block = k.block /\ s[i].size = k.size
      BY <1>1, <1>2, <1>4, <2>3, OneMalloc
    <3>2. k.block \in R \ unseen'
      BY <1>1, <1>2, <1>4, <2>3
    <3>3. QED
      BY ONLY <2>1, <3>1, <3>2 DEF Tells
  <2>4. QED
    BY <2>2, <2>3
<1>7. Hides({}, {k}, s)
  BY <1>1, <1>4 DEF Hides
<1>8. QED
  BY <1>4, <1>5, <1>6, <1>7 DEF HookDoes

(* A free. *)
LEMMA FreeDoes ==
    ASSUME NEW t \in Thread, NEW m \in live, free(t, m)
    PROVE  \E R, records : HookDoes(t, {m}, {}, R, records)
<1>1. PICK s : s = IF WasInMallocFree(t) THEN <<>> ELSE <<FreeRecord(m.block)>>
  OBVIOUS
<1>2. /\ Changes(t, {m}, {}, {}, s) /\ Usable(m) /\ unseen' = unseen \ {m.block}
      /\ WasInMallocFree(t) => Unreported(m.block)
  BY <1>1 DEF free, Report, Unless, parserVars, Changes, Unreported
<1>3. Handles({m}, {}, {})
  BY <1>2 DEF Handles
<1>4. Tells({m}, {}, {}, s)
  <2>1. \A i \in DOMAIN s : s[i].type # "Malloc"
    BY <1>1, NoMallocs
  <2>2. CASE WasInMallocFree(t)
    BY <1>1, <1>2, <2>1, <2>2, NoFrees DEF Tells, Unreported
  <2>3. CASE ~WasInMallocFree(t)
    <3>1. \A x : FreeIn(s, x) <=> x = m.block
      BY <1>1, <2>3, OneFree
    <3>2. QED
      BY <2>1, <3>1 DEF Tells
  <2>4. QED
    BY <2>2, <2>3
<1>5. Hides({m}, {}, s)
  BY <1>2 DEF Hides
<1>6. QED
  BY <1>2, <1>3, <1>4, <1>5 DEF HookDoes

(* A realloc to zero bytes has nothing to report. *)
LEMMA ReallocToZeroDoes ==
    ASSUME NEW t \in Thread, NEW m \in live, reallocToZero(t, m), ResultsLive,
           pending \in [Thread -> Seq(Record)]
    PROVE  HookDoes(t, {m}, {}, {}, <<>>)
<1>1. /\ Idle(t) /\ Usable(m) /\ live' = live \ {m} /\ unseen' = unseen \ {m.block}
      /\ Unreported(m.block) /\ UNCHANGED <<pending, result, pipe, mallocs, raced>>
  BY DEF reallocToZero, reportVars, parserVars
<1>2. pending' = [pending EXCEPT ![t] = <<>>] /\ result' = [result EXCEPT ![t] = {}]
  BY <1>1 DEF Idle, ResultsLive
<1>3. Changes(t, {m}, {}, {}, <<>>)
  BY <1>1, <1>2 DEF Changes, Unreported
<1>4. Handles({m}, {}, {})
  BY <1>1 DEF Handles
<1>5. \A i \in DOMAIN <<>> : FALSE
  OBVIOUS
<1>6. Tells({m}, {}, {}, <<>>)
  BY <1>1, <1>5, NoFrees DEF Tells, Unreported
<1>7. Hides({m}, {}, <<>>)
  BY <1>1 DEF Hides
<1>8. QED
  BY <1>3, <1>4, <1>6, <1>7 DEF HookDoes

GivesOut(m, k, b, n) ==
    /\ k.block = b /\ k.size = n
    /\ live' = (live \ {m}) \cup {k} /\ raced \subseteq raced'
    /\ Handles({m}, {k}, {b}) /\ Handles({m}, {k}, {})

(* The block that a realloc gives out. *)
LEMMA ReallocatedHandles ==
    ASSUME NEW m \in live, NEW b \in Block, NEW n \in Size, Reallocated(m, b, n), Usable(m)
    PROVE  \E k \in Live : GivesOut(m, k, b, n)
<1> DEFINE k == [block |-> b, size |-> n]
<1>1. k \in Live /\ k.block = b /\ k.size = n
  BY DEF Live
<1>2. /\ live' = (live \ {m}) \cup {k} /\ raced \subseteq raced'
      /\ FreeBlock(b) \/ b = m.block
      /\ b # m.block => RacedBy(b) \subseteq raced'
  BY DEF Reallocated
<1>3. FreeBlock(b) => b # m.block
  BY DEF FreeBlock
<1> HIDE DEF k
<1>4. Handles({m}, {k}, {b}) /\ Handles({m}, {k}, {})
  BY <1>1, <1>2, <1>3 DEF Handles
<1>5. QED
  BY <1>1, <1>2, <1>4 DEF GivesOut

(* A realloc that reports both. *)
LEMMA BothReported ==
    ASSUME NEW t \in Thread, NEW m \in live, NEW k \in Live, Handles({m}, {k}, {k.block}),
           unseen' = unseen \ {m.block}, \A x \in unseen : ~FreeBlock(x),
           NEW s, s = <<FreeRecord(m.block), MallocRecord(k.block, k.size)>>,
           Changes(t, {m}, {k}, {k.block}, s)
    PROVE  HookDoes(t, {m}, {k}, {k.block}, s)
<1>1. \A x : FreeIn(s, x) <=> x = m.block
  BY OneFree
<1>2. /\ s # <<>> /\ s[Len(s)] = MallocRecord(k.block, k.size)
      /\ \A i \in DOMAIN s : s[i].type = "Malloc" =>
            i = Len(s) /\ s[i].block = k.block /\ s[i].size = k.size
  BY OneMalloc
<1>3. (FreeBlock(k.block) \/ k.block = m.block) /\ k.block \notin unseen'
  BY DEF Handles
<1>4. Tells({m}, {k}, {k.block}, s)
  BY ONLY <1>1, <1>2, <1>3 DEF Tells
<1>5. Hides({m}, {k}, s)
  BY DEF Hides
<1>6. QED
  BY <1>4, <1>5 DEF HookDoes

(* A realloc reports both blocks, or neither from inside another hook. *)
LEMMA ReallocDoes ==
    ASSUME NEW t \in Thread, NEW m \in live, NEW b \in Block, NEW n \in Size,
           realloc(t, m, b, n), \A x \in unseen : ~FreeBlock(x)
    PROVE  \E new, R, records : HookDoes(t, {m}, new, R, records)
<1>1. Reallocated(m, b, n) /\ Usable(m) /\ Idle(t) /\ UNCHANGED <<pipe, mallocs>>
  BY DEF realloc, parserVars
<1> PICK k \in Live : GivesOut(m, k, b, n)
  BY <1>1, ReallocatedHandles
<1>2. /\ k.block = b /\ k.size = n
      /\ live' = (live \ {m}) \cup {k} /\ raced \subseteq raced'
      /\ Handles({m}, {k}, {b}) /\ Handles({m}, {k}, {})
  BY DEF GivesOut
<1>3. CASE WasInMallocFree(t)
  <2>1. /\ pending' = [pending EXCEPT ![t] = <<>>] /\ result' = [result EXCEPT ![t] = {}]
        /\ Unreported(m.block)
        /\ unseen' = IF b = m.block THEN unseen ELSE (unseen \ {m.block}) \cup {b}
    BY <1>3 DEF realloc, Report, Unless
  <2>2. Changes(t, {m}, {k}, {}, <<>>)
    BY <1>1, <1>2, <2>1 DEF Changes, Unreported
  <2>3. \A i \in DOMAIN <<>> : FALSE
    OBVIOUS
  <2>4. m.block \in silent' \cup unseen /\ k.block \in silent' \cup unseen'
    BY <1>2, <2>1 DEF Unreported
  <2>5. Tells({m}, {k}, {}, <<>>)
    BY <2>3, <2>4, NoFrees DEF Tells
  <2>6. Hides({m}, {k}, <<>>)
    BY <1>2, <2>1 DEF Hides, Handles
  <2>7. QED
    BY <1>2, <2>2, <2>5, <2>6 DEF HookDoes
<1>4. CASE ~WasInMallocFree(t)
  <2>1. PICK s : s = <<FreeRecord(m.block), MallocRecord(b, n)>>
    OBVIOUS
  <2>2. /\ pending' = [pending EXCEPT ![t] = s] /\ result' = [result EXCEPT ![t] = {b}]
        /\ unseen' = unseen \ {m.block} /\ silent' = silent
    BY <1>4, <2>1, OneMalloc DEF realloc, Report, Unless, ReallocRecords
  <2>3. s # <<>>
    BY <2>1, OneMalloc
  <2>4. Changes(t, {m}, {k}, {b}, s)
    BY <1>1, <1>2, <2>2, <2>3 DEF Changes
  <2>5. QED
    BY <1>2, <2>1, <2>2, <2>4, BothReported
<1>5. QED
  BY <1>3, <1>4

(* A reallocarray from inside another hook reports only the block it takes. *)
LEMMA ReallocarrayDoes ==
    ASSUME NEW t \in Thread, NEW m \in live, NEW b \in Block, NEW n \in Size,
           reallocarray(t, m, b, n), \A x \in unseen : ~FreeBlock(x)
    PROVE  \E new, R, records : HookDoes(t, {m}, new, R, records)
<1>1. Reallocated(m, b, n) /\ Usable(m) /\ Idle(t) /\ UNCHANGED <<pipe, mallocs, silent>>
  BY DEF reallocarray, parserVars
<1> PICK k \in Live : GivesOut(m, k, b, n)
  BY <1>1, ReallocatedHandles
<1>2. /\ k.block = b /\ k.size = n
      /\ live' = (live \ {m}) \cup {k} /\ raced \subseteq raced'
      /\ Handles({m}, {k}, {b}) /\ Handles({m}, {k}, {})
  BY DEF GivesOut
<1>3. CASE WasInMallocFree(t)
  <2>1. PICK s : s = <<FreeRecord(m.block)>>
    OBVIOUS
  <2>2. /\ Report(t, s, {b}) /\ unseen' = (unseen \ {m.block}) \cup {b}
    BY <1>3, <2>1 DEF reallocarray, NestedInMallocFree
  <2>3. s # <<>>
    BY <2>1
  <2>4. Changes(t, {m}, {k}, {b}, s)
    BY <1>1, <1>2, <2>2, <2>3 DEF Changes, Report
  <2>5. (\A x : FreeIn(s, x) <=> x = m.block) /\ \A i \in DOMAIN s : s[i].type # "Malloc"
    BY <2>1, OneFree, NoMallocs
  <2>6. Tells({m}, {k}, {b}, s)
    BY <1>2, <2>2, <2>5 DEF Tells
  <2>7. Hides({m}, {k}, s)
    BY <1>2, <2>2, <2>5 DEF Hides, Handles
  <2>8. QED
    BY <1>2, <2>4, <2>6, <2>7 DEF HookDoes
<1>4. CASE ~WasInMallocFree(t)
  <2>1. PICK s : s = <<FreeRecord(m.block), MallocRecord(b, n)>>
    OBVIOUS
  <2>2. /\ Report(t, s, {b}) /\ unseen' = (unseen \ {m.block})
    BY <1>4, <2>1 DEF reallocarray, NestedInMallocFree, ReallocRecords
  <2>3. s # <<>>
    BY <2>1, OneMalloc
  <2>4. Changes(t, {m}, {k}, {b}, s)
    BY <1>1, <1>2, <2>2, <2>3 DEF Changes, Report
  <2>5. QED
    BY <1>2, <2>1, <2>2, <2>4, BothReported
<1>5. QED
  BY <1>3, <1>4

(* An mmap is about no block. *)
LEMMA MmapDoes ==
    ASSUME NEW t \in Thread, mmap(t)
    PROVE  \E records : HookDoes(t, {}, {}, {}, records)
<1>1. PICK s : s = <<[type |-> "Mmap"]>>
  OBVIOUS
<1>2. Changes(t, {}, {}, {}, s) /\ unseen' = unseen
  BY <1>1 DEF mmap, Report, heapVars, parserVars, Changes
<1>3. Tells({}, {}, {}, s)
  BY <1>1, NoFrees, NoMallocs DEF Tells
<1>4. QED
  BY <1>2, <1>3 DEF HookDoes, Handles, Hides

(* So every hook takes, gives out and reports as HookDoes says. *)
LEMMA HookEffect ==
    ASSUME BlocksInv, pending \in [Thread -> Seq(Record)], NEW t \in Thread, Hook(t)
    PROVE  \E old, new, R, records : HookDoes(t, old, new, R, records)
<1>1. \A x \in unseen : ~FreeBlock(x)
  BY DEF BlocksInv, BlocksApart
<1>2. ResultsLive
  BY DEF BlocksInv
<1>3. CASE mmap(t)
  BY <1>3, MmapDoes
<1>4. ASSUME NEW b \in Block, NEW n \in Size, malloc(t, b, n)
      PROVE  \E old, new, R, records : HookDoes(t, old, new, R, records)
  BY <1>1, <1>4, MallocDoes
<1>5. ASSUME NEW m \in live, free(t, m)
      PROVE  \E old, new, R, records : HookDoes(t, old, new, R, records)
  BY <1>5, FreeDoes
<1>6. ASSUME NEW m \in live, reallocToZero(t, m)
      PROVE  \E old, new, R, records : HookDoes(t, old, new, R, records)
  BY <1>2, <1>6, ReallocToZeroDoes
<1>7. ASSUME NEW m \in live, NEW b \in Block, NEW n \in Size, realloc(t, m, b, n)
      PROVE  \E old, new, R, records : HookDoes(t, old, new, R, records)
  BY <1>1, <1>7, ReallocDoes
<1>8. ASSUME NEW m \in live, NEW b \in Block, NEW n \in Size, reallocarray(t, m, b, n)
      PROVE  \E old, new, R, records : HookDoes(t, old, new, R, records)
  BY <1>1, <1>8, ReallocarrayDoes
<1>9. QED
  BY <1>3, <1>4, <1>5, <1>6, <1>7, <1>8 DEF Hook

(* A hook keeps the invariant of the blocks: what it takes and gives out is in
   the hands of no other thread. *)
LEMMA HookKeepsBlocks ==
    ASSUME Types, BlocksInv, NEW t \in Thread, NEW old, NEW new, NEW R, NEW records,
           HookDoes(t, old, new, R, records)
    PROVE  BlocksInv'
<1> USE DEF BlocksInv, HookDoes
<1>1. /\ pending'[t] = records /\ result'[t] = R /\ pending[t] = <<>>
      /\ \A u \in Thread : u # t => pending'[u] = pending[u] /\ result'[u] = result[u]
      /\ records = <<>> => R = {}
      /\ pending' = [pending EXCEPT ![t] = records] /\ result' = [result EXCEPT ![t] = R]
  BY DEF Changes, Types, ResultsLive, Idle
<1>2. /\ \A m : m \in live' <=> m \in new \/ (m \in live /\ m \notin old)
      /\ \A m \in old : m \in live /\ Usable(m)
      /\ \A k \in new : k \in Live
      /\ raced \subseteq raced' /\ silent \subseteq silent'
  BY DEF Changes, Handles
<1>3. \A b : /\ ~ReportingFree(t, b)
             /\ ReportingFree(t, b)' <=> FreeIn(records, b)
             /\ \A u \in Thread : u # t => (ReportingFree(u, b)' <=> ReportingFree(u, b))
  BY <1>1 DEF ReportingFree, FreeIn
<1>4. \A b : WillBeGone(b)' <=> WillBeGone(b)
  BY DEF Changes, WillBeGone, GoneUpTo
<1>5. \A m \in live : WillBeRecorded(m)' <=> WillBeRecorded(m)
  BY DEF Changes, WillBeRecorded, GoneUpTo
<1>6. \A m \in old, u \in Thread : m.block \notin result[u]
  BY <1>2 DEF Usable
<1>7. \A m \in live, k \in old : m.block = k.block => m \in old
  BY <1>2 DEF BlocksApart
<1>8. \A k \in new : FreeBlock(k.block) \/ \E m \in old : m.block = k.block
  BY DEF Handles
<1>9. \A p : FreeIn(records, p) => \E m \in old : m.block = p
  BY DEF Tells
<1>10. ResultsLive'
  <2>1. \A b \in R : b \in Block /\ \E k \in new : k.block = b
    BY DEF Handles, Live
  <2>2. result' \in [Thread -> SUBSET Block]
    BY <1>1, <2>1 DEF ResultsLive
  <2>3. ASSUME NEW u \in Thread, NEW b \in result'[u]
        PROVE  ~FreeBlock(b)'
    <3>1. CASE u = t
      BY <1>1, <1>2, <2>1, <2>3, <3>1 DEF FreeBlock
    <3>2. CASE u # t
      <4>1. PICK m \in live : m.block = b
        BY <1>1, <2>3, <3>2 DEF ResultsLive, FreeBlock
      <4>2. m \notin old
        BY <1>1, <1>6, <2>3, <3>2, <4>1
      <4>3. QED
        BY <1>2, <4>1, <4>2 DEF FreeBlock
    <3>3. QED
      BY <3>1, <3>2
  <2>4. \A u \in Thread : Idle(u)' => result'[u] = {}
    BY <1>1 DEF Idle, ResultsLive
  <2>5. ASSUME NEW u \in Thread, u # t, NEW b \in R
        PROVE  b \notin result[u]
    <3>1. FreeBlock(b) \/ \E m \in old : m.block = b
      BY <1>8, <2>1, <2>5
    <3>2. QED
      BY <1>6, <2>5, <3>1 DEF ResultsLive
  <2>6. \A u, v \in Thread : u # v => result'[u] \cap result'[v] = {}
    BY <1>1, <2>5 DEF ResultsLive
  <2>7. QED
    BY <2>2, <2>3, <2>4, <2>6 DEF ResultsLive
<1>11. MallocIsLast'
  <2> SUFFICES ASSUME NEW u \in Thread, NEW i \in DOMAIN pending'[u],
                      pending'[u][i].type = "Malloc"
               PROVE  /\ i = Len(pending'[u])
                      /\ pending'[u][i].block \in result'[u] \ unseen'
                      /\ [block |-> pending'[u][i].block, size |-> pending'[u][i].size] \in live'
    BY DEF MallocIsLast
  <2>1. CASE u = t
    <3>1. PICK k \in new : /\ k.block = records[i].block /\ k.size = records[i].size
                           /\ k.block \in R \ unseen' /\ i = Len(records)
      BY <1>1, <2>1 DEF Tells
    <3>2. k = [block |-> k.block, size |-> k.size] /\ k \in live'
      BY <1>2 DEF Live
    <3>3. QED
      BY <1>1, <2>1, <3>1, <3>2
  <2>2. CASE u # t
    <3> DEFINE b == pending[u][i].block
               m == [block |-> b, size |-> pending[u][i].size]
    <3>1. /\ i = Len(pending[u]) /\ b \in result[u] /\ b \notin unseen /\ m \in live /\ m.block = b
      BY <1>1, <2>2 DEF MallocIsLast
    <3>2. /\ pending'[u][i].block = b /\ result'[u] = result[u]
          /\ [block |-> pending'[u][i].block, size |-> pending'[u][i].size] = m
      BY <1>1, <2>2
    <3> HIDE DEF b, m
    <3>3. m \in live' /\ ~FreeBlock(b) /\ ~FreeIn(records, b)
      BY <1>2, <1>6, <1>9, <3>1 DEF FreeBlock
    <3>4. b \notin unseen'
      BY <3>1, <3>3 DEF Hides
    <3>5. QED
      BY <1>1, <2>2, <3>1, <3>2, <3>3, <3>4
  <2>3. QED
    BY <2>1, <2>2
<1>12. BlocksApart'
  <2>1. ASSUME NEW m \in live', NEW k \in live', m.block = k.block
        PROVE  m = k
    <3>1. ASSUME NEW x \in new, NEW y \in live, y \notin old, x.block = y.block
          PROVE  FALSE
      BY <1>7, <1>8, <3>1 DEF FreeBlock
    <3>2. \A x, y \in new : x = y
      BY DEF Handles
    <3>3. QED
      BY <1>2, <2>1, <3>1, <3>2 DEF BlocksApart
  <2>2. ASSUME NEW b \in unseen'
        PROVE  ~FreeBlock(b)'
    <3>1. CASE \E k \in new : k.block = b
      BY <1>2, <3>1 DEF FreeBlock
    <3>2. CASE b \in unseen /\ \A m \in old : m.block # b
      <4>1. PICK m \in live : m.block = b
        BY <3>2 DEF BlocksApart, FreeBlock
      <4>2. QED
        BY <1>2, <3>2, <4>1 DEF FreeBlock
    <3>3. QED
      BY <2>2, <3>1, <3>2 DEF Hides
  <2>3. QED
    BY <2>1, <2>2 DEF BlocksApart
<1>13. FreesKnown'
  <2> SUFFICES ASSUME NEW u \in Thread, NEW m \in live', ReportingFree(u, m.block)'
               PROVE  m.block \in result'[u] \/ m.block \in raced'
    BY DEF FreesKnown
  <2>1. CASE u = t
    <3>1. FreeIn(records, m.block)
      BY <1>3, <2>1
    <3>2. m \in new
      BY <1>2, <1>7, <1>9, <3>1
    <3>3. m.block \in R
      BY <3>1, <3>2 DEF Tells
    <3>4. QED
      BY <1>1, <2>1, <3>3
  <2>2. CASE u # t
    <3>1. ReportingFree(u, m.block) /\ result'[u] = result[u]
      BY <1>1, <1>3, <2>2
    <3>2. CASE m \in live
      BY <1>2, <3>1, <3>2 DEF FreesKnown
    <3>3. CASE m \in new /\ FreeBlock(m.block)
      <4>1. RacedBy(m.block) \subseteq raced'
        BY <3>3 DEF Handles
      <4>2. QED
        BY <3>1, <4>1 DEF RacedBy
    <3>4. CASE \E k \in old : k.block = m.block
      BY <1>2, <1>6, <3>1, <3>4 DEF FreesKnown
    <3>5. QED
      BY <1>2, <1>8, <3>2, <3>3, <3>4
  <2>3. QED
    BY <2>1, <2>2
<1>14. ASSUME NEW b, Going(b)
       PROVE  Going(b)'
  BY <1>2, <1>3, <1>4, <1>14 DEF Going
<1>15. ASSUME NEW b, FreeIn(records, b)
       PROVE  Going(b)'
  BY <1>3, <1>15 DEF Going
<1>16. AbsentGone'
  <2> SUFFICES ASSUME NEW b \in Block, FreeBlock(b)' \/ b \in unseen'
               PROVE  Going(b)'
    BY DEF AbsentGone
  <2>1. CASE FreeBlock(b) \/ b \in unseen
    BY <1>14, <2>1 DEF AbsentGone
  <2>2. CASE b \in unseen' /\ FreeIn(records, b)
    BY <1>15, <2>2
  <2>3. CASE FreeBlock(b)' /\ ~FreeBlock(b) /\ b \notin unseen
    <3>1. PICK m \in live : m.block = b
      BY <2>3 DEF FreeBlock
    <3>2. m \in old
      BY <1>2, <2>3, <3>1 DEF FreeBlock
    <3>3. b \in silent' \/ FreeIn(records, b)
      BY <2>3, <3>1, <3>2 DEF Tells
    <3>4. QED
      BY <1>15, <3>3 DEF Going
  <2>4. QED
    BY <2>1, <2>2, <2>3 DEF Hides
<1>17. LiveFollowed'
  <2> SUFFICES ASSUME NEW m \in live', m.block \notin raced', m.block \notin silent',
                      m.block \notin unseen'
               PROVE  (\E u \in Thread : Reporting(u, m)') \/ Reported(m)'
    BY DEF LiveFollowed
  <2>1. CASE m \in live /\ m \notin old
    <3>1. m.block \notin raced \cup silent /\ ~FreeIn(records, m.block)
      BY <1>2, <1>7, <1>9, <2>1
    <3>2. m.block \notin unseen
      BY <1>7, <2>1 DEF Hides
    <3>3. CASE \E u \in Thread : Reporting(u, m)
      <4>1. PICK u \in Thread : Reporting(u, m)
        BY <3>3
      <4>2. u # t /\ pending'[u] = pending[u]
        BY <1>1, <4>1 DEF Reporting, Idle
      <4>3. Reporting(u, m)'
        BY <1>3, <1>4, <4>1, <4>2 DEF Reporting, Idle
      <4>4. QED
        BY <4>3
    <3>4. CASE Reported(m)
      BY <1>3, <1>5, <2>1, <3>1, <3>4 DEF Reported
    <3>5. QED
      BY <2>1, <3>1, <3>2, <3>3, <3>4 DEF LiveFollowed
  <2>2. CASE m \in new
    <3>1. /\ records # <<>> /\ records[Len(records)] = MallocRecord(m.block, m.size)
          /\ FreeBlock(m.block) \/ FreeIn(records, m.block)
      BY <2>2 DEF Tells
    <3>2. CASE FreeBlock(m.block)
      <4>1. m.block \in Block /\ RacedBy(m.block) \subseteq raced'
        BY <1>2, <2>2, <3>2 DEF Handles, Live
      <4>2. \A u \in Thread : ~ReportingFree(u, m.block)
        BY <4>1 DEF RacedBy
      <4>3. WillBeGone(m.block)'
        BY <1>2, <1>4, <3>2, <4>1, <4>2 DEF AbsentGone, Going
      <4>4. QED
        BY <1>1, <3>1, <4>3 DEF Reporting, Idle
    <3>3. CASE FreeIn(records, m.block)
      BY <1>1, <1>3, <3>1, <3>3 DEF Reporting, Idle
    <3>4. QED
      BY <3>1, <3>2, <3>3
  <2>3. QED
    BY <1>2, <2>1, <2>2
<1>18. QED
  BY <1>10, <1>11, <1>12, <1>13, <1>16, <1>17

(* What the blocks' invariant is about, apart from the pipe. *)
calling == <<live, pending, result, mallocs, raced, silent, unseen>>

(* A listing of the modules is about no block. *)
LEMMA AppendKeepsBlocks ==
    ASSUME Types, BlocksInv, UNCHANGED calling, NEW r \in Record, r.type \notin {"Malloc", "Free"},
           pipe' = Append(pipe, r)
    PROVE  BlocksInv'
<1> USE DEF BlocksInv, calling
<1>1. \A b : \A t \in Thread : ReportingFree(t, b)' <=> ReportingFree(t, b)
  BY DEF ReportingFree
<1>2. \A b : WillBeGone(b) => WillBeGone(b)'
  BY GoneAppended DEF Types
<1>3. \A m : WillBeRecorded(m) => WillBeRecorded(m)'
  BY RecordedAppended DEF Types
<1>4. MallocIsLast' /\ ResultsLive' /\ BlocksApart'
  BY DEF MallocIsLast, ResultsLive, BlocksApart, FreeBlock, Idle
<1>5. FreesKnown'
  BY <1>1 DEF FreesKnown
<1>6. AbsentGone'
  BY <1>1, <1>2 DEF AbsentGone, Going, FreeBlock
<1>7. LiveFollowed'
  <2>1. \A m : \A t \in Thread : Reporting(t, m) => Reporting(t, m)'
    BY <1>1, <1>2 DEF Reporting, Idle
  <2>2. \A m : Reported(m) => Reported(m)'
    BY <1>1, <1>3 DEF Reported
  <2>3. QED
    BY <2>1, <2>2 DEF LiveFollowed
<1>8. QED
  BY <1>4, <1>5, <1>6, <1>7

(* Reading a record brings nothing out of order. *)
LEMMA ParserKeepsBlocks ==
    ASSUME Types, BlocksInv, ParseRecord
    PROVE  BlocksInv'
<1> USE DEF BlocksInv
<1>1. UNCHANGED <<live, pending, result, raced, silent, unseen>>
  BY DEF ParseRecord, heapVars, reportVars
<1>2. \A b : \A t \in Thread : ReportingFree(t, b)' <=> ReportingFree(t, b)
  BY <1>1 DEF ReportingFree
<1>3. ASSUME NEW b, WillBeGone(b)
      PROVE  WillBeGone(b)'
  <2>1. Len(pipe) \in Nat \ {0} /\ Len(pipe') = Len(pipe) - 1
    BY ParserDoes DEF Types
  <2>2. PICK k \in Nat : k = Len(pipe)
    BY <2>1
  <2>3. k \in 1..Len(pipe) /\ k - 1 = Len(pipe') /\ GoneUpTo(b, k)
    BY <1>3, <2>1, <2>2 DEF WillBeGone
  <2>4. GoneUpTo(b, k - 1)'
    BY <2>3, GoneParsed DEF Types
  <2>5. QED
    BY <2>3, <2>4 DEF WillBeGone
<1>4. \A m \in live : WillBeRecorded(m) => WillBeRecorded(m)'
  BY RecordedParsed DEF Types
<1>5. MallocIsLast' /\ ResultsLive' /\ BlocksApart'
  BY <1>1 DEF MallocIsLast, ResultsLive, BlocksApart, FreeBlock, Idle
<1>6. FreesKnown'
  BY <1>1, <1>2 DEF FreesKnown
<1>7. AbsentGone'
  BY <1>1, <1>2, <1>3 DEF AbsentGone, Going, FreeBlock
<1>8. LiveFollowed'
  <2>1. \A m : \A t \in Thread : Reporting(t, m) => Reporting(t, m)'
    BY <1>1, <1>2, <1>3 DEF Reporting, Idle
  <2>2. \A m \in live : Reported(m) => Reported(m)'
    BY <1>2, <1>4 DEF Reported
  <2>3. QED
    BY <1>1, <2>1, <2>2 DEF LiveFollowed
<1>9. QED
  BY <1>5, <1>6, <1>7, <1>8

(* A list of records of length zero is empty. *)
LEMMA EmptyRecords ==
    ASSUME NEW s \in Seq(Record)
    PROVE  s = <<>> <=> Len(s) = 0
OBVIOUS

(* A record less to report. *)
LEMMA TailOfRecords ==
    ASSUME NEW p \in Seq(Record), p # <<>>, NEW q, q = Tail(p), NEW r, r = Head(p)
    PROVE  /\ r \in Record /\ r = p[1]
           /\ Len(p) \in Nat \ {0} /\ Len(q) = Len(p) - 1 /\ (q = <<>> <=> Len(p) = 1)
           /\ \A i \in DOMAIN q : i + 1 \in DOMAIN p /\ q[i] = p[i + 1]
           /\ \A i \in DOMAIN p : i = 1 \/ (i - 1 \in DOMAIN q /\ q[i - 1] = p[i])
           /\ DOMAIN p = 1..Len(p) /\ DOMAIN q = 1..Len(q)
           /\ q # <<>> => q[Len(q)] = p[Len(p)]
<1>1. /\ r \in Record /\ r = p[1] /\ q \in Seq(Record)
      /\ Len(p) \in Nat \ {0} /\ Len(q) = Len(p) - 1
      /\ DOMAIN p = 1..Len(p) /\ DOMAIN q = 1..Len(q)
  OBVIOUS
<1>2. \A i \in 1..Len(q) : q[i] = p[i + 1]
  OBVIOUS
<1>3. q = <<>> <=> Len(p) = 1
  <2>1. q = <<>> <=> Len(q) = 0
    BY <1>1, EmptyRecords
  <2>2. QED
    BY <1>1, <2>1
<1>4. QED
  BY <1>1, <1>2, <1>3

(* Writing a record: what the thread had to report is now in the pipe, last. *)
LEMMA EmitKeepsBlocks ==
    ASSUME Types, BlocksInv, NEW t \in Thread, Emit(t)
    PROVE  BlocksInv'
<1> USE DEF BlocksInv
<1> DEFINE p == pending[t]
           r == Head(p)
           q == Tail(p)
<1>1. p \in Seq(Record) /\ p # <<>>
  BY DEF Emit, Types, Idle
<1>2. /\ r \in Record /\ r = p[1]
      /\ Len(p) \in Nat \ {0} /\ Len(q) = Len(p) - 1 /\ (q = <<>> <=> Len(p) = 1)
      /\ \A i \in DOMAIN q : i + 1 \in DOMAIN p /\ q[i] = p[i + 1]
      /\ \A i \in DOMAIN p : i = 1 \/ (i - 1 \in DOMAIN q /\ q[i - 1] = p[i])
      /\ DOMAIN p = 1..Len(p) /\ DOMAIN q = 1..Len(q)
      /\ q # <<>> => q[Len(q)] = p[Len(p)]
  BY <1>1, TailOfRecords
<1>3. /\ pipe' = Append(pipe, r)
      /\ pending' = [pending EXCEPT ![t] = q]
      /\ result' = [result EXCEPT ![t] = IF q = <<>> THEN {} ELSE result[t]]
      /\ UNCHANGED <<live, mallocs, raced, silent, unseen>>
  BY DEF Emit, Report, heapVars, parserVars
<1> HIDE DEF p, r, q
<1>4. /\ pending[t] = p /\ pending'[t] = q
      /\ result'[t] = IF q = <<>> THEN {} ELSE result[t]
      /\ \A u \in Thread : u # t => pending'[u] = pending[u] /\ result'[u] = result[u]
      /\ \A u \in Thread : result'[u] \subseteq result[u]
  BY <1>3 DEF Types, ResultsLive, p
<1>5. /\ \A b : \A u \in Thread : ReportingFree(u, b)' => ReportingFree(u, b)
      /\ \A b : \A u \in Thread :
            ReportingFree(u, b) => \/ ReportingFree(u, b)'
                                   \/ u = t /\ r.type = "Free" /\ r.block = b
  <2>1. ASSUME NEW u \in Thread, NEW b, u # t
        PROVE  ReportingFree(u, b)' <=> ReportingFree(u, b)
    BY <1>4, <2>1 DEF ReportingFree
  <2>2. ASSUME NEW b, ReportingFree(t, b)'
        PROVE  ReportingFree(t, b)
    BY <1>2, <1>4, <2>2 DEF ReportingFree
  <2>3. ASSUME NEW b, ReportingFree(t, b), ~(r.type = "Free" /\ r.block = b)
        PROVE  ReportingFree(t, b)'
    <3>1. PICK i \in DOMAIN p : p[i].type = "Free" /\ p[i].block = b
      BY <1>4, <2>3 DEF ReportingFree
    <3>2. i - 1 \in DOMAIN q /\ q[i - 1] = p[i]
      BY <1>2, <2>3, <3>1
    <3>3. QED
      BY <1>4, <3>1, <3>2 DEF ReportingFree
  <2>4. QED
    BY <2>1, <2>2, <2>3
<1>6. r.type = "Free" => r = FreeRecord(r.block) /\ ReportingFree(t, r.block)
  <2>1. r.type = "Free" => r = FreeRecord(r.block)
    BY <1>2, RecordIs
  <2>2. 1 \in DOMAIN pending[t] /\ pending[t][1] = r
    BY <1>2, <1>4
  <2>3. QED
    BY <2>1, <2>2 DEF ReportingFree
<1>7. \A b : WillBeGone(b) /\ ~(r.type = "Malloc" /\ r.block = b) => WillBeGone(b)'
  BY <1>2, <1>3, GoneAppended DEF Types
<1>8. ASSUME r.type = "Malloc"
      PROVE  /\ Len(p) = 1 /\ r.block \in result[t] \ unseen
             /\ [block |-> r.block, size |-> r.size] \in live /\ ~FreeBlock(r.block)
  <2>1. 1 \in DOMAIN pending[t] /\ pending[t][1] = r
    BY <1>2, <1>4
  <2>2. /\ 1 = Len(pending[t]) /\ r.block \in result[t] \ unseen
        /\ [block |-> r.block, size |-> r.size] \in live
    BY <1>8, <2>1 DEF MallocIsLast
  <2>3. QED
    BY <1>4, <2>2 DEF FreeBlock
<1>9. MallocIsLast'
  <2> SUFFICES ASSUME NEW u \in Thread, NEW i \in DOMAIN pending'[u],
                      pending'[u][i].type = "Malloc"
               PROVE  /\ i = Len(pending'[u])
                      /\ pending'[u][i].block \in result'[u] \ unseen'
                      /\ [block |-> pending'[u][i].block, size |-> pending'[u][i].size] \in live'
    BY DEF MallocIsLast
  <2>1. CASE u = t
    <3>1. q # <<>>
      BY <1>2, <1>4, <2>1
    <3>2. /\ i + 1 \in DOMAIN p /\ q[i] = p[i + 1] /\ result'[t] = result[t]
      BY <1>2, <1>4, <2>1, <3>1
    <3>3. /\ i + 1 = Len(p) /\ p[i + 1].block \in result[t] \ unseen
          /\ [block |-> p[i + 1].block, size |-> p[i + 1].size] \in live
      BY <1>4, <2>1, <3>2 DEF MallocIsLast
    <3>4. i = Len(q)
      BY <1>2, <1>4, <2>1, <3>3
    <3>5. QED
      BY <1>3, <1>4, <2>1, <3>2, <3>3, <3>4
  <2>2. CASE u # t
    BY <1>3, <1>4, <2>2 DEF MallocIsLast
  <2>3. QED
    BY <2>1, <2>2
<1>10. ResultsLive' /\ BlocksApart'
  <2>1. \A u \in Thread : Idle(u)' => result'[u] = {}
    BY <1>4 DEF ResultsLive, Idle
  <2>2. result' \in [Thread -> SUBSET Block]
    BY <1>3 DEF ResultsLive
  <2>3. QED
    BY <1>3, <1>4, <2>1, <2>2 DEF ResultsLive, BlocksApart, FreeBlock
<1>11. FreesKnown'
  <2> SUFFICES ASSUME NEW u \in Thread, NEW m \in live, ReportingFree(u, m.block)'
               PROVE  m.block \in result'[u] \cup raced
    BY <1>3 DEF FreesKnown
  <2>1. m.block \in result[u] \cup raced
    BY <1>5 DEF FreesKnown
  <2>2. u = t => q # <<>>
    BY <1>2, <1>4 DEF ReportingFree
  <2>3. QED
    BY <1>4, <2>1, <2>2
<1>12. AbsentGone'
  <2> SUFFICES ASSUME NEW b \in Block, FreeBlock(b) \/ b \in unseen
               PROVE  Going(b)'
    BY <1>3 DEF AbsentGone, FreeBlock
  <2>1. Going(b)
    BY DEF AbsentGone
  <2>2. CASE b \in silent
    BY <1>3, <2>2 DEF Going
  <2>3. CASE WillBeGone(b)
    BY <1>7, <1>8, <2>3 DEF Going
  <2>4. CASE \E u \in Thread : ReportingFree(u, b)
    <3>1. CASE r.type = "Free" /\ r.block = b
      <4>1. WillBeGone(b)'
        BY <1>2, <1>3, <1>6, <3>1, GoneAppended DEF Types
      <4>2. QED
        BY <4>1 DEF Going
    <3>2. CASE ~(r.type = "Free" /\ r.block = b)
      BY <1>5, <2>4, <3>2 DEF Going
    <3>3. QED
      BY <3>1, <3>2
  <2>5. QED
    BY <2>1, <2>2, <2>3, <2>4 DEF Going
<1>13. LiveFollowed'
  <2> SUFFICES ASSUME NEW m \in live, m.block \notin raced \cup silent \cup unseen
               PROVE  (\E u \in Thread : Reporting(u, m)') \/ Reported(m)'
    BY <1>3 DEF LiveFollowed
  <2>1. ASSUME NEW u \in Thread, Reporting(u, m)
        PROVE  /\ m.block \in result[u]
               /\ \A v \in Thread : v # u => m.block \notin result[v] /\ ~ReportingFree(v, m.block)
    <3>1. /\ pending[u] \in Seq(Record) /\ pending[u] # <<>>
          /\ pending[u][Len(pending[u])] = MallocRecord(m.block, m.size)
      BY <2>1 DEF Reporting, Types, Idle
    <3>2. Len(pending[u]) \in DOMAIN pending[u]
      BY <3>1
    <3>3. /\ pending[u][Len(pending[u])].type = "Malloc"
          /\ pending[u][Len(pending[u])].block = m.block
      BY <3>1 DEF MallocRecord
    <3>4. m.block \in result[u]
      BY <3>2, <3>3 DEF MallocIsLast
    <3>5. QED
      BY <3>4 DEF ResultsLive, FreesKnown
  <2>2. ASSUME NEW u \in Thread, u # t, Reporting(u, m)
        PROVE  Reporting(u, m)'
    <3>1. ~(r.type = "Malloc" /\ r.block = m.block)
      BY <1>8, <2>1, <2>2
    <3>2. ReportingFree(u, m.block) => ReportingFree(u, m.block)'
      BY <1>5, <2>2
    <3>3. QED
      BY <1>4, <1>7, <2>2, <3>1, <3>2 DEF Reporting, Idle
  <2>3. ASSUME Reporting(t, m), Len(p) # 1
        PROVE  Reporting(t, m)'
    <3>1. q # <<>> /\ q[Len(q)] = MallocRecord(m.block, m.size)
      BY <1>2, <1>4, <2>3 DEF Reporting
    <3>2. r.type # "Malloc"
      BY <1>8, <2>3
    <3>3. CASE r.type = "Free" /\ r.block = m.block
      <4>1. WillBeGone(m.block)'
        BY <1>2, <1>3, <1>6, <3>3, GoneAppended DEF Types
      <4>2. QED
        BY <1>4, <3>1, <4>1 DEF Reporting, Idle
    <3>4. CASE ~(r.type = "Free" /\ r.block = m.block)
      <4>1. ReportingFree(t, m.block)' \/ WillBeGone(m.block)'
        BY <1>5, <1>7, <2>3, <3>2, <3>4 DEF Reporting
      <4>2. QED
        BY <1>4, <3>1, <4>1 DEF Reporting, Idle
    <3>5. QED
      BY <3>3, <3>4
  <2>4. ASSUME Reporting(t, m), Len(p) = 1
        PROVE  Reported(m)'
    <3>1. r = MallocRecord(m.block, m.size)
      BY <1>2, <1>4, <2>4 DEF Reporting
    <3>2. r.type # "Free"
      BY <3>1 DEF MallocRecord
    <3>3. ~ReportingFree(t, m.block)
      <4>1. \A i \in DOMAIN p : i = 1
        BY <1>2, <2>4
      <4>2. QED
        BY <1>2, <1>4, <3>2, <4>1 DEF ReportingFree
    <3>4. WillBeGone(m.block)
      BY <2>4, <3>3 DEF Reporting
    <3>5. WillBeRecorded(m)'
      BY <1>2, <1>3, <3>1, <3>4, RecordedAppended DEF Types
    <3>6. \A u \in Thread : ~ReportingFree(u, m.block)'
      BY <1>5, <2>1, <2>4, <3>3
    <3>7. QED
      BY <1>3, <3>5, <3>6 DEF Reported
  <2>5. ASSUME Reported(m)
        PROVE  Reported(m)'
    <3>1. ~(r.type = "Free" /\ r.block = m.block)
      BY <1>6, <2>5 DEF Reported
    <3>2. WillBeRecorded(m)'
      BY <1>2, <1>3, <2>5, <3>1, RecordedAppended DEF Types, Reported
    <3>3. QED
      BY <1>5, <2>5, <3>2 DEF Reported
  <2>6. QED
    BY <2>2, <2>3, <2>4, <2>5 DEF LiveFollowed
<1>14. QED
  BY <1>9, <1>10, <1>11, <1>12, <1>13

(* At first no block was reported, and those there are unseen. *)
LEMMA InitBlocks == Init => BlocksInv
<1> SUFFICES ASSUME Init
             PROVE  BlocksInv
  OBVIOUS
<1>1. /\ pending = [t \in Thread |-> <<>>] /\ result = [t \in Thread |-> {}]
      /\ pipe = <<>> /\ mallocs = {} /\ unseen = {m.block : m \in live}
  BY DEF Init
<1>2. PICK early \in SUBSET Block, n \in Size :
        live = {[block |-> b, size |-> n] : b \in early}
  <2>1. live \in {{[block |-> b, size |-> n] : b \in early} : early \in SUBSET Block, n \in Size}
    BY PTL DEF Init
  <2>2. QED
    BY <2>1
<1>3. \A t \in Thread : DOMAIN pending[t] = {}
  BY <1>1
<1>4. \A b : WillBeGone(b)
  BY <1>1 DEF WillBeGone, GoneUpTo
<1>5. MallocIsLast /\ ResultsLive
  BY <1>1, <1>3 DEF MallocIsLast, ResultsLive
<1>6. BlocksApart
  BY <1>1, <1>2 DEF BlocksApart, FreeBlock
<1>7. FreesKnown
  BY <1>3 DEF FreesKnown, ReportingFree
<1>8. AbsentGone
  BY <1>4 DEF AbsentGone, Going
<1>9. LiveFollowed
  BY <1>1 DEF LiveFollowed
<1>10. QED
  BY <1>5, <1>6, <1>7, <1>8, <1>9 DEF BlocksInv

(* The parser keeps blocks that were reported. *)
LEMMA MallocsType ==
    ASSUME Types, mallocs \in SUBSET Live, [Next]_vars
    PROVE  mallocs' \in SUBSET Live
<1>1. CASE ParseRecord
  <2>1. /\ pipe[1] \in Record
        /\ \/ pipe[1].type = "Malloc" /\ mallocs' = MallocsWith([block |-> pipe[1].block,
                                                                 size |-> pipe[1].size])
           \/ mallocs' \subseteq mallocs
    <3>1. pipe # <<>> /\ Head(pipe) = pipe[1]
      BY <1>1 DEF ParseRecord, Types
    <3>2. QED
      BY <1>1, <3>1, ParserDoes DEF ParseRecord, parserVars, Types
  <2>2. QED
    BY <2>1, RecordIs DEF MallocsWith
<1>2. ASSUME NEW t \in Thread, Hook(t) \/ Loader(t) \/ ReportStep(t)
      PROVE  UNCHANGED mallocs
  BY <1>2 DEF Hook, mmap, malloc, free, realloc, reallocarray, reallocToZero, Loader, dlopenMark,
              dlLoad, dlUnload, dlReturn, ReportStep, Refresh, Clear, Emit, parserVars
<1>3. UNCHANGED vars => UNCHANGED mallocs
  BY DEF vars, parserVars
<1>4. QED
  BY <1>1, <1>2, <1>3 DEF Next

(* Every step keeps the invariant of the blocks. *)
LEMMA BlocksStep ==
    ASSUME Types, loaded \in SUBSET Library, BlocksInv, [Next]_vars
    PROVE  BlocksInv'
<1> DEFINE same == UNCHANGED calling /\ UNCHANGED pipe
<1>1. ASSUME same
      PROVE  BlocksInv'
  <2> USE <1>1 DEF calling
  <2>1. \A b : WillBeGone(b) <=> WillBeGone(b)'
    BY DEF WillBeGone, GoneUpTo
  <2>2. \A m : WillBeRecorded(m) <=> WillBeRecorded(m)'
    BY DEF WillBeRecorded, GoneUpTo
  <2>3. \A b : \A t \in Thread : ReportingFree(t, b) <=> ReportingFree(t, b)'
    BY DEF ReportingFree
  <2>4. MallocIsLast' /\ ResultsLive' /\ BlocksApart'
    BY DEF BlocksInv, MallocIsLast, ResultsLive, BlocksApart, FreeBlock, Idle
  <2>5. FreesKnown' /\ AbsentGone'
    BY <2>1, <2>3 DEF BlocksInv, FreesKnown, AbsentGone, Going, FreeBlock
  <2>6. LiveFollowed'
    BY <2>1, <2>2, <2>3 DEF BlocksInv, LiveFollowed, Reporting, Reported, Idle
  <2>7. QED
    BY <2>4, <2>5, <2>6 DEF BlocksInv
<1>2. ASSUME NEW t \in Thread, Hook(t)
      PROVE  BlocksInv'
  <2>1. \E old, new, R, records : HookDoes(t, old, new, R, records)
    BY <1>2, HookEffect DEF Types
  <2>2. QED
    BY <2>1, HookKeepsBlocks
<1>3. ASSUME NEW t \in Thread, Loader(t)
      PROVE  same
  BY <1>3 DEF Loader, dlopenMark, dlLoad, dlUnload, dlReturn, heapVars, reportVars, parserVars,
              calling
<1>4. ASSUME NEW t \in Thread, ReportStep(t)
      PROVE  BlocksInv'
  <2>1. CASE Refresh(t)
    <3>1. UNCHANGED calling
      BY <2>1 DEF Refresh, heapVars, parserVars, calling
    <3>2. CASE modulesDirty
      <4> DEFINE r == [type |-> "Modules", libs |-> loaded]
      <4>1. r \in Record /\ r.type \notin {"Malloc", "Free"}
        BY ModulesRecord
      <4>2. pipe' = Append(pipe, r)
        BY <2>1, <3>2 DEF Refresh
      <4> HIDE DEF r
      <4>3. QED
        BY <3>1, <4>1, <4>2, AppendKeepsBlocks
    <3>3. CASE ~modulesDirty
      <4>1. same
        BY <2>1, <3>1, <3>3 DEF Refresh
      <4>2. QED
        BY <1>1, <4>1
    <3>4. QED
      BY <3>2, <3>3
  <2>2. CASE Clear(t)
    <3>1. same
      BY <2>2 DEF Clear, heapVars, parserVars, calling
    <3>2. QED
      BY <1>1, <3>1
  <2>3. CASE Emit(t)
    BY <2>3, EmitKeepsBlocks
  <2>4. QED
    BY <1>4, <2>1, <2>2, <2>3 DEF ReportStep
<1>5. ASSUME UNCHANGED vars
      PROVE  same
  BY <1>5 DEF vars, heapVars, reportVars, parserVars, calling
<1> HIDE DEF same
<1>6. QED
  BY <1>1, <1>2, <1>3, <1>4, <1>5, ParserKeepsBlocks DEF Next

(* With nothing on its way, what will be gone is gone and what will be recorded
   is. *)
LEMMA QuietFacts ==
    ASSUME Types, BlocksInv, mallocs \in SUBSET Live
    PROVE  NoFalseLeak /\ LiveBlocksRecorded
<1> SUFFICES ASSUME Quiet
             PROVE  /\ \A m \in mallocs : m.block \in silent \/ ~FreeBlock(m.block)
                    /\ \A m \in live : m \in mallocs \/ m.block \in raced \cup silent \cup unseen
  BY DEF NoFalseLeak, LiveBlocksRecorded
<1>1. pipe = <<>> /\ \A t \in Thread : Idle(t) /\ \A b : ~ReportingFree(t, b)
  BY DEF Quiet, Idle, ReportingFree
<1>2. \A b : WillBeGone(b) => \A m \in mallocs : m.block # b
  BY <1>1 DEF WillBeGone, GoneUpTo
<1>3. \A m : WillBeRecorded(m) => m \in mallocs
  BY <1>1 DEF WillBeRecorded
<1>4. \A m \in mallocs : m.block \in Block
  BY DEF Live
<1>5. QED
  BY <1>1, <1>2, <1>3, <1>4 DEF BlocksInv, AbsentGone, Going, LiveFollowed, Reporting, Reported

(* Every step keeps what is known of the modules and of the blocks. *)
AllInv == IInv /\ loaded \in SUBSET Library /\ BlocksInv /\ mallocs \in SUBSET Live

LEMMA AllInvariant == Spec => []AllInv
<1>1. Init => AllInv
  <2>1. Init => mallocs \in SUBSET Live
    BY DEF Init
  <2>2. QED
    BY <2>1, InitIInv, LoadedType, InitBlocks DEF AllInv
<1>2. AllInv /\ [Next]_vars => AllInv'
  <2> SUFFICES ASSUME AllInv, [Next]_vars
               PROVE  AllInv'
    OBVIOUS
  <2>1. Types /\ IInv /\ loaded \in SUBSET Library /\ BlocksInv /\ mallocs \in SUBSET Live
    BY DEF AllInv, IInv
  <2>2. IInv' /\ loaded' \in SUBSET Library
    BY <2>1, ModulesStep
  <2>3. BlocksInv' /\ mallocs' \in SUBSET Live
    BY <2>1, BlocksStep, MallocsType
  <2>4. QED
    BY <2>2, <2>3 DEF AllInv
<1>3. QED
  BY <1>1, <1>2, PTL DEF Spec

(* When every report has arrived, the parser has no block that the program
   has freed, whatever the interleaving of the reports; the exceptions are
   the frees no hook reports (Preload.cpp realloc, dlopen, dlclose). *)
THEOREM NeverFalseLeak == Spec => []NoFalseLeak
<1>1. AllInv => NoFalseLeak
  BY QuietFacts DEF AllInv, IInv
<1>2. QED
  BY <1>1, AllInvariant, PTL

(* When every report has arrived, the parser has every live block with its
   size, unless its address was given out again before its last free was
   reported, or a change of it was not reported (Preload.cpp reportMalloc,
   reportFree; Parser.cpp parsePacket). *)
THEOREM LiveBlocksAlwaysRecorded == Spec => []LiveBlocksRecorded
<1>1. AllInv => LiveBlocksRecorded
  BY QuietFacts DEF AllInv, IInv
<1>2. QED
  BY <1>1, AllInvariant, PTL

-----------------------------------------------------------------------------
(* The total.  It goes wrong when an allocation is recorded whose block the
   parser still has. *)

(* A record of an allocation finds its block gone: in the pipe, once the
   records before it are read, and in a thread, once the thread has reported
   the free that goes before it - unless there was a race or a silent free. *)
PipeFresh ==
    \A i \in 1 .. Len(pipe) : pipe[i].type = "Malloc" =>
        pipe[i].block \in raced \cup silent \/ GoneUpTo(pipe[i].block, i - 1)

FreshIn(t, b) == b \in raced \cup silent \/ ReportingFree(t, b) \/ WillBeGone(b)

PendingFresh ==
    \A t \in Thread : \A i \in DOMAIN pending[t] :
        pending[t][i].type = "Malloc" => FreshIn(t, pending[t][i].block)

Fresh == PipeFresh /\ PendingFresh

(* A hook reports the allocation of a block that is free, or frees it first. *)
LEMMA HookKeepsFresh ==
    ASSUME Types, BlocksInv, Fresh, NEW t \in Thread, NEW old, NEW new, NEW R, NEW records,
           HookDoes(t, old, new, R, records)
    PROVE  Fresh'
<1>1. /\ pending'[t] = records /\ pending[t] = <<>>
      /\ \A u \in Thread : u # t => pending'[u] = pending[u]
      /\ raced \subseteq raced' /\ silent \subseteq silent' /\ UNCHANGED <<pipe, mallocs>>
  BY DEF HookDoes, Changes, Types, Idle
<1>2. \A b, k : GoneUpTo(b, k)' <=> GoneUpTo(b, k)
  BY <1>1 DEF GoneUpTo
<1>3. PipeFresh'
  BY <1>1, <1>2 DEF Fresh, PipeFresh
<1>4. \A b : WillBeGone(b)' <=> WillBeGone(b)
  BY <1>1, <1>2 DEF WillBeGone
<1>5. ASSUME NEW u \in Thread, NEW i \in DOMAIN pending'[u], NEW b,
             pending'[u][i].type = "Malloc", pending'[u][i].block = b
      PROVE  FreshIn(u, b)'
  <2>1. CASE u = t
    <3>1. PICK k \in new : /\ k.block = b /\ k.block \in R \ unseen'
      BY <1>1, <1>5, <2>1 DEF HookDoes, Tells
    <3>2. \/ k.block \in silent' \/ FreeBlock(k.block) \/ FreeIn(records, k.block)
      BY <3>1 DEF HookDoes, Tells
    <3>3. CASE FreeBlock(k.block)
      <4>1. k.block \in Block /\ RacedBy(k.block) \subseteq raced'
        BY <3>3 DEF HookDoes, Handles, Live
      <4>2. Going(k.block)
        BY <3>3, <4>1 DEF BlocksInv, AbsentGone
      <4>3. (\E v \in Thread : ReportingFree(v, k.block)) => k.block \in raced'
        BY <4>1 DEF RacedBy
      <4>4. k.block \in raced' \cup silent' \/ WillBeGone(k.block)'
        BY <1>1, <1>4, <4>2, <4>3 DEF Going
      <4>5. QED
        BY <1>1, <2>1, <3>1, <4>4 DEF FreshIn
    <3>4. CASE FreeIn(records, k.block)
      BY <1>1, <2>1, <3>1, <3>4 DEF FreeIn, FreshIn, ReportingFree
    <3>5. QED
      BY <1>1, <2>1, <3>1, <3>2, <3>3, <3>4 DEF FreshIn
  <2>2. CASE u # t
    <3>1. FreshIn(u, b)
      BY <1>1, <1>5, <2>2 DEF Fresh, PendingFresh
    <3>2. QED
      BY <1>1, <1>4, <2>2, <3>1 DEF FreshIn, ReportingFree
  <2>3. QED
    BY <2>1, <2>2
<1>6. PendingFresh'
  BY <1>5 DEF PendingFresh
<1>7. QED
  BY <1>3, <1>6 DEF Fresh

(* A record appended to the pipe leaves those before it as they are. *)
LEMMA AppendKeepsPipe ==
    ASSUME Types, PipeFresh, NEW r \in Record, pipe' = Append(pipe, r),
           UNCHANGED <<mallocs, raced, silent>>,
           r.type = "Malloc" => r.block \in raced \cup silent \/ WillBeGone(r.block)
    PROVE  PipeFresh'
<1>1. /\ Len(pipe) \in Nat /\ Len(pipe') = Len(pipe) + 1 /\ pipe'[Len(pipe) + 1] = r
      /\ \A i \in 1..Len(pipe) : pipe'[i] = pipe[i]
  BY DEF Types
<1>2. \A b : \A k \in 0..Len(pipe) : GoneUpTo(b, k) => GoneUpTo(b, k)'
  BY GoneAppended DEF Types
<1>3. ASSUME NEW i \in 1 .. Len(pipe'), NEW b, pipe'[i].type = "Malloc", pipe'[i].block = b
      PROVE  b \in raced \cup silent \/ GoneUpTo(b, i - 1)'
  <2>1. CASE i \in 1 .. Len(pipe)
    <3>1. i - 1 \in 0 .. Len(pipe) /\ pipe'[i] = pipe[i]
      BY <1>1, <2>1
    <3>2. b \in raced \cup silent \/ GoneUpTo(b, i - 1)
      BY <1>3, <2>1, <3>1 DEF PipeFresh
    <3>3. QED
      BY <1>2, <3>1, <3>2
  <2>2. CASE i = Len(pipe) + 1
    <3>1. pipe'[i] = r /\ i - 1 = Len(pipe) /\ i - 1 \in 0 .. Len(pipe)
      BY <1>1, <2>2
    <3>2. b \in raced \cup silent \/ GoneUpTo(b, i - 1)
      BY <1>3, <3>1 DEF WillBeGone
    <3>3. QED
      BY <1>2, <3>1, <3>2
  <2>3. QED
    BY <1>1, <1>3, <2>1, <2>2
<1>4. QED
  BY <1>3 DEF PipeFresh

(* A listing of the modules is about no block. *)
LEMMA AppendKeepsFresh ==
    ASSUME Types, Fresh, UNCHANGED calling, NEW r \in Record, r.type \notin {"Malloc", "Free"},
           pipe' = Append(pipe, r)
    PROVE  Fresh'
<1>1. UNCHANGED <<mallocs, raced, silent, pending>>
  BY DEF calling
<1>2. PipeFresh'
  BY <1>1, AppendKeepsPipe DEF Fresh
<1>3. \A b : WillBeGone(b) => WillBeGone(b)'
  BY <1>1, GoneAppended DEF Types
<1>4. \A b : \A t \in Thread : FreshIn(t, b) => FreshIn(t, b)'
  BY <1>1, <1>3 DEF FreshIn, ReportingFree
<1>5. PendingFresh'
  BY <1>1, <1>4 DEF Fresh, PendingFresh
<1>6. QED
  BY <1>2, <1>5 DEF Fresh

(* The record that a thread writes is the free that goes before an allocation,
   or an allocation whose block is gone. *)
LEMMA EmitKeepsFresh ==
    ASSUME Types, BlocksInv, Fresh, NEW t \in Thread, Emit(t)
    PROVE  Fresh'
<1> DEFINE p == pending[t]
           r == Head(p)
           q == Tail(p)
<1>1. p \in Seq(Record) /\ p # <<>>
  BY DEF Emit, Types, Idle
<1>2. /\ r \in Record /\ r = p[1]
      /\ Len(p) \in Nat \ {0} /\ Len(q) = Len(p) - 1
      /\ \A i \in DOMAIN q : i + 1 \in DOMAIN p /\ q[i] = p[i + 1]
      /\ \A i \in DOMAIN p : i = 1 \/ (i - 1 \in DOMAIN q /\ q[i - 1] = p[i])
      /\ DOMAIN p = 1..Len(p) /\ DOMAIN q = 1..Len(q)
  BY <1>1, TailOfRecords
<1>3. /\ pipe' = Append(pipe, r) /\ pending' = [pending EXCEPT ![t] = q]
      /\ UNCHANGED <<mallocs, raced, silent>>
  BY DEF Emit, Report, heapVars, parserVars
<1> HIDE DEF p, r, q
<1>4. /\ pending[t] = p /\ pending'[t] = q
      /\ \A u \in Thread : u # t => pending'[u] = pending[u]
  BY <1>3 DEF Types, p
<1>5. ASSUME r.type = "Malloc"
      PROVE  /\ Len(p) = 1 /\ r.block \in result[t]
             /\ r.block \in raced \cup silent \/ WillBeGone(r.block)
  <2>1. 1 \in DOMAIN pending[t] /\ pending[t][1] = r
    BY <1>2, <1>4
  <2>2. 1 = Len(pending[t]) /\ r.block \in result[t] /\ FreshIn(t, r.block)
    BY <1>5, <2>1 DEF BlocksInv, MallocIsLast, Fresh, PendingFresh
  <2>3. \A i \in DOMAIN pending[t] : pending[t][i].type # "Free"
    <3>1. \A i \in DOMAIN p : i = 1
      <4>1. DOMAIN p = 1 .. 1
        BY <1>2, <1>4, <2>2, Zenon
      <4>2. QED
        BY ONLY <4>1
    <3>2. p[1].type # "Free"
      BY <1>2, <1>5
    <3>3. QED
      BY <1>4, <3>1, <3>2
  <2>4. QED
    BY <1>4, <2>2, <2>3 DEF FreshIn, ReportingFree
<1>6. PipeFresh'
  BY <1>2, <1>3, <1>5, AppendKeepsPipe DEF Fresh
<1>7. /\ \A b : WillBeGone(b) /\ ~(r.type = "Malloc" /\ r.block = b) => WillBeGone(b)'
      /\ \A b : r = FreeRecord(b) => WillBeGone(b)'
  BY <1>2, <1>3, GoneAppended DEF Types
<1>8. ASSUME NEW u \in Thread, NEW i \in DOMAIN pending'[u], NEW b,
             pending'[u][i].type = "Malloc", pending'[u][i].block = b
      PROVE  FreshIn(u, b)'
  <2>1. CASE u = t
    <3>1. i + 1 \in DOMAIN p /\ p[i + 1].type = "Malloc" /\ p[i + 1].block = b /\ i \in 1 .. Len(q)
      BY <1>2, <1>4, <1>8, <2>1
    <3>2. FreshIn(t, b)
      BY <1>4, <3>1 DEF Fresh, PendingFresh
    <3>3. r.type # "Malloc"
      BY <1>2, <1>5, <3>1
    <3>4. CASE b \in raced \cup silent
      BY <1>3, <3>4 DEF FreshIn
    <3>5. CASE WillBeGone(b)
      BY <1>7, <3>3, <3>5 DEF FreshIn
    <3>6. CASE ReportingFree(t, b)
      <4>1. PICK j \in DOMAIN p : p[j].type = "Free" /\ p[j].block = b
        BY <1>4, <3>6 DEF ReportingFree
      <4>2. CASE j = 1
        <5>1. r = FreeRecord(b)
          BY <1>2, <4>1, <4>2, RecordIs
        <5>2. QED
          BY <1>7, <5>1 DEF FreshIn
      <4>3. CASE j # 1
        <5>1. j - 1 \in DOMAIN q /\ q[j - 1] = p[j]
          BY <1>2, <4>1, <4>3
        <5>2. ReportingFree(t, b)'
          BY <1>4, <4>1, <5>1 DEF ReportingFree
        <5>3. QED
          BY <2>1, <5>2 DEF FreshIn
      <4>4. QED
        BY <4>2, <4>3
    <3>7. QED
      BY <2>1, <3>2, <3>4, <3>5, <3>6 DEF FreshIn
  <2>2. CASE u # t
    <3>1. pending[u][i].type = "Malloc" /\ pending[u][i].block = b /\ i \in DOMAIN pending[u]
      BY <1>4, <1>8, <2>2
    <3>2. FreshIn(u, b) /\ b \in result[u]
      BY <3>1 DEF BlocksInv, MallocIsLast, Fresh, PendingFresh
    <3>3. ~(r.type = "Malloc" /\ r.block = b)
      BY <1>5, <2>2, <3>2 DEF BlocksInv, ResultsLive
    <3>4. ReportingFree(u, b) => ReportingFree(u, b)'
      BY <1>4, <2>2 DEF ReportingFree
    <3>5. QED
      BY <1>3, <1>7, <3>2, <3>3, <3>4 DEF FreshIn
  <2>3. QED
    BY <2>1, <2>2
<1>9. PendingFresh'
  BY <1>8 DEF PendingFresh
<1>10. QED
  BY <1>6, <1>9 DEF Fresh

(* Reading a record leaves the others as they are. *)
LEMMA ParserKeepsFresh ==
    ASSUME Types, Fresh, ParseRecord
    PROVE  Fresh'
<1>1. UNCHANGED <<pending, raced, silent>>
  BY DEF ParseRecord, heapVars, reportVars
<1>2. /\ Len(pipe) \in Nat \ {0} /\ Len(pipe') = Len(pipe) - 1
      /\ \A i \in 1..(Len(pipe) - 1) : pipe'[i] = pipe[i + 1]
  BY ParserDoes DEF Types
<1>3. \A b : \A k \in 1..Len(pipe) : GoneUpTo(b, k) => GoneUpTo(b, k - 1)'
  BY GoneParsed DEF Types
<1>4. ASSUME NEW b, WillBeGone(b)
      PROVE  WillBeGone(b)'
  <2>1. PICK k \in Nat : k = Len(pipe)
    BY <1>2
  <2>2. k \in 1..Len(pipe) /\ k - 1 = Len(pipe') /\ GoneUpTo(b, k)
    BY <1>2, <1>4, <2>1 DEF WillBeGone
  <2>3. GoneUpTo(b, k - 1)'
    BY <1>3, <2>2
  <2>4. QED
    BY <2>2, <2>3 DEF WillBeGone
<1>5. ASSUME NEW i \in 1 .. Len(pipe'), NEW b, pipe'[i].type = "Malloc", pipe'[i].block = b
      PROVE  b \in raced \cup silent \/ GoneUpTo(b, i - 1)'
  <2>1. /\ i + 1 \in 1 .. Len(pipe) /\ (i + 1) - 1 = i /\ i \in 1 .. Len(pipe)
        /\ pipe'[i] = pipe[i + 1]
    BY <1>2
  <2>2. b \in raced \cup silent \/ GoneUpTo(b, i)
    BY <1>5, <2>1 DEF Fresh, PipeFresh
  <2>3. QED
    BY <1>3, <2>1, <2>2
<1>6. PipeFresh'
  BY <1>1, <1>5 DEF PipeFresh
<1>7. PendingFresh'
  BY <1>1, <1>4 DEF Fresh, PendingFresh, FreshIn, ReportingFree
<1>8. QED
  BY <1>6, <1>7 DEF Fresh

(* So every step keeps the allocations fresh. *)
LEMMA FreshStep ==
    ASSUME Types, loaded \in SUBSET Library, BlocksInv, Fresh, [Next]_vars
    PROVE  Fresh'
<1> DEFINE same == UNCHANGED calling /\ UNCHANGED pipe
<1>1. ASSUME same
      PROVE  Fresh'
  BY <1>1 DEF calling, Fresh, PipeFresh, PendingFresh, FreshIn, ReportingFree, WillBeGone, GoneUpTo
<1>2. ASSUME NEW t \in Thread, Hook(t)
      PROVE  Fresh'
  <2>1. \E old, new, R, records : HookDoes(t, old, new, R, records)
    BY <1>2, HookEffect DEF Types
  <2>2. QED
    BY <2>1, HookKeepsFresh
<1>3. ASSUME NEW t \in Thread, Loader(t)
      PROVE  same
  BY <1>3 DEF Loader, dlopenMark, dlLoad, dlUnload, dlReturn, heapVars, reportVars, parserVars,
              calling
<1>4. ASSUME NEW t \in Thread, ReportStep(t)
      PROVE  Fresh'
  <2>1. CASE Refresh(t)
    <3>1. UNCHANGED calling
      BY <2>1 DEF Refresh, heapVars, parserVars, calling
    <3>2. CASE modulesDirty
      <4> DEFINE r == [type |-> "Modules", libs |-> loaded]
      <4>1. r \in Record /\ r.type \notin {"Malloc", "Free"}
        BY ModulesRecord
      <4>2. pipe' = Append(pipe, r)
        BY <2>1, <3>2 DEF Refresh
      <4> HIDE DEF r
      <4>3. QED
        BY <3>1, <4>1, <4>2, AppendKeepsFresh
    <3>3. CASE ~modulesDirty
      <4>1. same
        BY <2>1, <3>1, <3>3 DEF Refresh
      <4>2. QED
        BY <1>1, <4>1
    <3>4. QED
      BY <3>2, <3>3
  <2>2. CASE Clear(t)
    <3>1. same
      BY <2>2 DEF Clear, heapVars, parserVars, calling
    <3>2. QED
      BY <1>1, <3>1
  <2>3. CASE Emit(t)
    BY <2>3, EmitKeepsFresh
  <2>4. QED
    BY <1>4, <2>1, <2>2, <2>3 DEF ReportStep
<1>5. ASSUME UNCHANGED vars
      PROVE  same
  BY <1>5 DEF vars, heapVars, reportVars, parserVars, calling
<1> HIDE DEF same
<1>6. QED
  BY <1>1, <1>2, <1>3, <1>4, <1>5, ParserKeepsFresh DEF Next

\* What a recorded block adds to the total.
SizeOf == [m \in Live |-> m.size]

(* SumSizes is a sum of sizes. *)
LEMMA SumSizesIs ==
    ASSUME NEW s \in SUBSET Live, IsFiniteSet(s)
    PROVE  SumSizes(s) = SumOf(SizeOf, s)
<1> DEFINE P(g) == g = [t \in SUBSET s |->
                          IF t = {} THEN 0
                          ELSE (CHOOSE e \in t : TRUE).size + g[t \ {CHOOSE e \in t : TRUE}]]
<1>1. SumSizes(s) = (CHOOSE g : P(g))[s]
  BY DEF SumSizes, MapThenSumSet, MapThenFoldSet
<1>2. ASSUME NEW g
      PROVE  Sums(SizeOf, s, g) <=> P(g)
  <2> DEFINE x == [t \in SUBSET s |-> IF t = {} THEN 0 ELSE SizeOf[Pick(t)] + g[t \ {Pick(t)}]]
             y == [t \in SUBSET s |->
                          IF t = {} THEN 0
                          ELSE (CHOOSE e \in t : TRUE).size + g[t \ {CHOOSE e \in t : TRUE}]]
  <2>1. (Sums(SizeOf, s, g) <=> g = x) /\ (P(g) <=> g = y)
    BY DEF Sums
  <2>2. \A t \in SUBSET s : t # {} => SizeOf[Pick(t)] = (CHOOSE e \in t : TRUE).size
    <3>1. \A t \in SUBSET s : t # {} => Pick(t) \in Live
      BY DEF Pick
    <3>2. QED
      BY <3>1 DEF SizeOf, Pick
  <2>3. x = y
    BY <2>2 DEF Pick
  <2> HIDE DEF x, y
  <2>4. QED
    BY <2>1, <2>3
<1>3. PICK g : Sums(SizeOf, s, g) /\ SumOf(SizeOf, s) = g[s]
  BY SumOfSums
<1>4. P(CHOOSE h : P(h))
  <2>1. P(g)
    BY <1>2, <1>3
  <2> HIDE DEF P
  <2>2. QED
    BY <2>1
<1> DEFINE h == CHOOSE h : P(h)
<1>5. Sums(SizeOf, s, h)
  BY <1>2, <1>4
<1> HIDE DEF h
<1>6. h[s] = g[s]
  BY <1>3, <1>5, SumsAgree
<1>7. QED
  BY <1>1, <1>3, <1>6 DEF h

(* How the sum of the recorded sizes changes. *)
LEMMA SizesAdded ==
    ASSUME NEW s \in SUBSET Live, IsFiniteSet(s), NEW m \in Live, m \notin s
    PROVE  /\ IsFiniteSet(s \cup {m})
           /\ SumSizes(s \cup {m}) = m.size + SumSizes(s)
<1>1. IsFiniteSet(s \cup {m}) /\ s \cup {m} \in SUBSET Live
  BY FS_AddElement
<1>2. \A x \in s \cup {m} : SizeOf[x] \in Nat
  BY HooksAssumption DEF HooksAssumption, SizeOf, Live
<1>3. SumOf(SizeOf, s \cup {m}) = SizeOf[m] + SumOf(SizeOf, s)
  BY <1>2, SumOfWith
<1>4. SizeOf[m] = m.size
  BY DEF SizeOf
<1>5. QED
  BY <1>1, <1>3, <1>4, SumSizesIs

(* Blocks taken out take their sizes out of the sum. *)
LEMMA SizesRemoved ==
    ASSUME NEW s \in SUBSET Live, IsFiniteSet(s), NEW r \in SUBSET s
    PROVE  /\ IsFiniteSet(s \ r) /\ SumSizes(r) \in Nat /\ SumSizes(s \ r) \in Nat
           /\ SumSizes(s) = SumSizes(r) + SumSizes(s \ r)
<1>1. /\ IsFiniteSet(s \ r) /\ IsFiniteSet(r) /\ s \ r \in SUBSET Live /\ r \in SUBSET Live
  BY FS_Subset
<1>2. \A x \in s : SizeOf[x] \in Nat
  BY HooksAssumption DEF HooksAssumption, SizeOf, Live
<1>3. SumOf(SizeOf, s) = SumOf(SizeOf, r) + SumOf(SizeOf, s \ r)
  BY <1>2, SumOfParts
<1>4. SumOf(SizeOf, r) \in Nat /\ SumOf(SizeOf, s \ r) \in Nat
  BY <1>1, <1>2, SumOfNatural
<1>5. QED
  BY <1>1, <1>3, <1>4, SumSizesIs

(* The total is kept with the recorded blocks. *)
TotalInv == IsFiniteSet(mallocs) /\ mallocSize \in Int /\ TotalCoversRecorded

(* The total follows what the parser records and takes out. *)
LEMMA ParserKeepsTotal ==
    ASSUME Types, mallocs \in SUBSET Live, Fresh, TotalInv, ParseRecord
    PROVE  TotalInv'
<1> DEFINE r == pipe[1]
           m == [block |-> r.block, size |-> r.size]
           freed == {x \in mallocs : x.block = r.block}
<1>1. /\ IsFiniteSet(mallocs) /\ mallocSize \in Int /\ SumSizes(mallocs) \in Nat
      /\ mallocSize >= SumSizes(mallocs)
      /\ raced \cup silent = {} => mallocSize = SumSizes(mallocs)
  <2>1. mallocs \ mallocs = {} /\ mallocs \in SUBSET mallocs
    OBVIOUS
  <2>2. QED
    BY <2>1, SizesRemoved DEF TotalInv, TotalCoversRecorded
<1>2. /\ r \in Record /\ Head(pipe) = r /\ Len(pipe) \in Nat \ {0}
      /\ UNCHANGED <<raced, silent>>
  BY DEF ParseRecord, Types, heapVars
<1>3. \/ r.type = "Malloc" /\ mallocs' = MallocsWith(m) /\ mallocSize' = mallocSize + r.size
      \/ /\ r.type = "Free" /\ mallocs' = mallocs \ freed
         /\ mallocSize' = mallocSize - SumSizes(freed)
      \/ UNCHANGED <<mallocs, mallocSize>>
  BY <1>2 DEF ParseRecord, parserVars, Added
<1>4. /\ r.type = "Malloc" => m \in Live /\ r.size \in Nat /\ m.size = r.size /\ m.block = r.block
      /\ r.type = "Malloc" /\ raced \cup silent = {} => \A x \in mallocs : x.block # r.block
  <2>1. r.type = "Malloc" => m \in Live
    BY <1>2, RecordIs
  <2>2. \A x \in Live : x.size \in Nat
    BY HooksAssumption DEF HooksAssumption, Live
  <2>3. m.size = r.size /\ m.block = r.block
    OBVIOUS
  <2>4. ASSUME r.type = "Malloc", raced \cup silent = {}
        PROVE  \A x \in mallocs : x.block # r.block
    <3>1. 1 \in 1 .. Len(pipe) /\ 1 - 1 = 0
      BY <1>2
    <3>2. GoneUpTo(r.block, 0)
      BY <2>4, <3>1 DEF Fresh, PipeFresh
    <3>3. QED
      BY <3>2 DEF GoneUpTo
  <2> HIDE DEF r, m
  <2>5. r.type = "Malloc" => r.size \in Nat
    BY <2>1, <2>2, <2>3
  <2>6. QED
    BY <2>1, <2>3, <2>4, <2>5
<1>5. freed \in SUBSET mallocs
  OBVIOUS
<1> HIDE DEF r, m, freed
<1>6. CASE r.type = "Malloc" /\ mallocs' = MallocsWith(m) /\ mallocSize' = mallocSize + r.size
  <2>1. CASE \E x \in mallocs : x.block = m.block
    <3>1. mallocs' = mallocs /\ raced \cup silent # {}
      BY <1>4, <1>6, <2>1 DEF MallocsWith
    <3>2. mallocSize' \in Int /\ mallocSize' >= SumSizes(mallocs)
      BY <1>1, <1>4, <1>6
    <3>3. QED
      BY <1>1, <1>2, <3>1, <3>2 DEF TotalInv, TotalCoversRecorded
  <2>2. CASE ~\E x \in mallocs : x.block = m.block
    <3>1. mallocs' = mallocs \cup {m} /\ m \notin mallocs
      BY <1>6, <2>2 DEF MallocsWith
    <3>2. IsFiniteSet(mallocs') /\ SumSizes(mallocs') = m.size + SumSizes(mallocs)
      BY <1>1, <1>4, <1>6, <3>1, SizesAdded
    <3>3. /\ mallocSize' \in Int /\ mallocSize' >= SumSizes(mallocs')
          /\ raced \cup silent = {} => mallocSize' = SumSizes(mallocs')
      BY <1>1, <1>4, <1>6, <3>2
    <3>4. QED
      BY <1>2, <3>2, <3>3 DEF TotalInv, TotalCoversRecorded
  <2>3. QED
    BY <2>1, <2>2
<1>7. CASE mallocs' = mallocs \ freed /\ mallocSize' = mallocSize - SumSizes(freed)
  <2>1. /\ IsFiniteSet(mallocs') /\ SumSizes(freed) \in Nat /\ SumSizes(mallocs') \in Nat
        /\ SumSizes(mallocs) = SumSizes(freed) + SumSizes(mallocs')
    BY <1>1, <1>5, <1>7, SizesRemoved
  <2>2. /\ mallocSize' \in Int /\ mallocSize' >= SumSizes(mallocs')
        /\ raced \cup silent = {} => mallocSize' = SumSizes(mallocs')
    BY <1>1, <1>7, <2>1
  <2>3. QED
    BY <1>2, <2>1, <2>2 DEF TotalInv, TotalCoversRecorded
<1>8. CASE UNCHANGED <<mallocs, mallocSize>>
  BY <1>2, <1>8 DEF TotalInv, TotalCoversRecorded
<1>9. QED
  BY <1>3, <1>6, <1>7, <1>8

(* Every step keeps the total. *)
LEMMA TotalStep ==
    ASSUME AllInv, Fresh, TotalInv, [Next]_vars
    PROVE  TotalInv'
<1>1. Types /\ BlocksInv /\ mallocs \in SUBSET Live
  BY DEF AllInv, IInv
<1>2. ASSUME UNCHANGED <<mallocs, mallocSize>>, raced \subseteq raced', silent \subseteq silent'
      PROVE  TotalInv'
  BY <1>2 DEF TotalInv, TotalCoversRecorded
<1>3. ASSUME NEW t \in Thread, Hook(t)
      PROVE  TotalInv'
  <2>1. PICK old, new, R, records : HookDoes(t, old, new, R, records)
    BY <1>1, <1>3, HookEffect DEF Types
  <2>2. raced \subseteq raced' /\ silent \subseteq silent'
    BY <2>1 DEF HookDoes, Changes
  <2>3. UNCHANGED <<mallocs, mallocSize>>
    BY <1>3 DEF Hook, mmap, malloc, free, realloc, reallocarray, reallocToZero, parserVars
  <2>4. QED
    BY <1>2, <2>2, <2>3
<1>4. ASSUME NEW t \in Thread, Loader(t) \/ ReportStep(t)
      PROVE  TotalInv'
  BY <1>2, <1>4 DEF Loader, dlopenMark, dlLoad, dlUnload, dlReturn, ReportStep, Refresh, Clear,
                    Emit, heapVars, parserVars
<1>5. CASE UNCHANGED vars
  BY <1>2, <1>5 DEF vars, heapVars, parserVars
<1>6. QED
  BY <1>1, <1>3, <1>4, <1>5, ParserKeepsTotal DEF Next

(* The total covers the recorded blocks in every state, and is exact until a
   race or a silent free (Parser.cpp parsePacket: mallocSize grows with every
   Malloc record and shrinks by what a Free record takes out). *)
THEOREM TotalAlwaysCovers == Spec => []TotalCoversRecorded
<1> DEFINE Inv == AllInv /\ Fresh /\ TotalInv
<1>1. Init => Fresh /\ TotalInv
  <2> SUFFICES ASSUME Init
               PROVE  Fresh /\ TotalInv
    OBVIOUS
  <2>1. /\ pending = [t \in Thread |-> <<>>] /\ pipe = <<>> /\ mallocs = {} /\ mallocSize = 0
    BY DEF Init
  <2>2. Fresh
    BY <2>1 DEF Fresh, PipeFresh, PendingFresh
  <2>3. IsFiniteSet(mallocs) /\ mallocs \in SUBSET Live
    BY <2>1, FS_EmptySet
  <2>4. SumSizes(mallocs) = 0
    BY <2>1, <2>3, SumSizesIs, SumOfNone
  <2>5. QED
    BY <2>1, <2>2, <2>3, <2>4 DEF TotalInv, TotalCoversRecorded
<1>2. AllInv /\ Fresh /\ TotalInv /\ [Next]_vars => Fresh' /\ TotalInv'
  <2> SUFFICES ASSUME AllInv, Fresh, TotalInv, [Next]_vars
               PROVE  Fresh' /\ TotalInv'
    OBVIOUS
  <2>1. Types /\ loaded \in SUBSET Library /\ BlocksInv
    BY DEF AllInv, IInv
  <2>2. QED
    BY <2>1, FreshStep, TotalStep
<1>3. Spec => []AllInv
  BY AllInvariant
<1>4. TotalInv => TotalCoversRecorded
  BY DEF TotalInv
<1>5. QED
  BY <1>1, <1>2, <1>3, <1>4, PTL DEF Spec
=============================================================================
