---------------------------- MODULE StackOutput ----------------------------
(***************************************************************************)
(* From instruction pointers to the symbols the visualizer shows: the      *)
(* library records, stacks and snapshots as the parser gets them from one  *)
(* application, the modules it looks addresses up in (ModuleTable), the    *)
(* resolver's answers, the output file, and what its reader makes of it    *)
(* (Reader).                                                               *)
(*                                                                         *)
(* A listing of the loaded libraries is a row of records that holds the    *)
(* loader's lock; records of other threads come in between.  When a        *)
(* listing is sent is in AllocHooks, how the threads of the parser share   *)
(* the work in ParserPipeline: here a listing or a snapshot may begin at   *)
(* any time, and the resolver answers in order, later or never.            *)
(***************************************************************************)
EXTENDS ModuleTable

Visualizer == INSTANCE Reader

CONSTANTS
    Library,            \* names of libraries
    Base,               \* addresses they can be loaded at
    HeadersOf,          \* HeadersOf[name]: the loaded segments, relative to the base
    Symbols,            \* Symbols[name][offset]: the frames at an offset, none or more
    NoString,           \* the empty string
    Stack,              \* stacks that are captured
    Elsewhere,          \* addresses of code that is in no library
    MaxMoves, MaxListings, MaxCaptures, MaxSnapshots    \* bounds of the model

ASSUME OutputAssumption ==
    /\ Base \subseteq Nat
    /\ MaxMoves \in Nat /\ MaxListings \in Nat /\ MaxCaptures \in Nat /\ MaxSnapshots \in Nat

VARIABLES
    loaded,             \* loaded[name]: the base of each library that is loaded
    listing,            \* records the listing in progress has still to send
    libraries, modules, moduleCache,    \* of Application
    sModules,           \* Module::sModules, by name
    mHashIndexer,       \* the stacks by index
    pendingStacks,      \* indices of those not in the file yet
    mAddressCache,      \* the addresses that were looked up
    unanswered,         \* addresses the resolver was asked, not in the file yet
    mStringIndexer,     \* the strings by index, counted from one
    file,               \* the records of the output file
    finished,           \* parseThread has ended
    moves, listings, captures, snapshots,               \* counters for the bounds
    asks,               \* history: all addresses asked, with the module
    holders,            \* history: libraries that had an address when it was captured
    left,               \* history: addresses of libraries that were unloaded
    cut                 \* history: indices of the libraries whose module was made
                        \* before the last header came

programVars == <<loaded, listing, left>>
tableVars   == <<modules, moduleCache, sModules, mAddressCache, unanswered, asks, cut>>
stackVars   == <<mHashIndexer, pendingStacks, holders>>
counters    == <<moves, listings, captures, snapshots>>
vars == <<programVars, libraries, tableVars, stackVars, mStringIndexer, file, finished, counters>>

Init ==
    /\ loaded = <<>> /\ listing = <<>>
    /\ libraries = <<>> /\ modules = <<>> /\ moduleCache = <<>> /\ sModules = <<>>
    /\ mHashIndexer = <<>> /\ pendingStacks = {}
    /\ mAddressCache = {} /\ unanswered = <<>> /\ mStringIndexer = <<>>
    /\ file = <<>> /\ finished = FALSE
    /\ moves = 0 /\ listings = 0 /\ captures = 0 /\ snapshots = 0
    /\ asks = {} /\ holders = {} /\ left = {} /\ cut = {}

-----------------------------------------------------------------------------
(* The traced program *)

\* The addresses of a library, with the ends of its segments or without.
Covered(name, base, inclusive) ==
    UNION {base + h.addr .. base + h.addr + h.len - (IF inclusive THEN 0 ELSE 1) : h \in ToSet(HeadersOf[name])}

InLibrary(name, ip) == name \in DOMAIN loaded /\ ip \in Covered(name, loaded[name], FALSE)

Apart(name, base) ==
    /\ Covered(name, base, FALSE) \cap Elsewhere = {}
    /\ \A other \in DOMAIN loaded :
        Covered(name, base, FALSE) \cap Covered(other, loaded[other], FALSE) = {}

\* The loader's lock keeps loads and unloads out of a listing.
Load(name, base) ==
    /\ listing = <<>> /\ moves < MaxMoves
    /\ name \notin DOMAIN loaded /\ Apart(name, base)
    /\ loaded' = (name :> base) @@ loaded
    /\ moves' = moves + 1
    /\ UNCHANGED <<listing, left, libraries, tableVars, stackVars, mStringIndexer, file, finished,
                   listings, captures, snapshots>>

Unload(name) ==
    /\ listing = <<>> /\ moves < MaxMoves
    /\ name \in DOMAIN loaded
    /\ loaded' = [n \in DOMAIN loaded \ {name} |-> loaded[n]]
    /\ left' = left \cup Covered(name, loaded[name], TRUE)
    /\ moves' = moves + 1
    /\ UNCHANGED <<listing, libraries, tableVars, stackVars, mStringIndexer, file, finished,
                   listings, captures, snapshots>>

\* dl_iterate_phdr and its callback
RecordsOf(name) ==
    <<[type |-> "Library", name |-> name, addr |-> loaded[name]]>>
      \o [i \in DOMAIN HeadersOf[name] |-> [type |-> "LibraryHeader", header |-> HeadersOf[name][i]]]

BeginListing ==
    /\ listing = <<>> /\ listings < MaxListings
    /\ \E order \in SetToSeqs(DOMAIN loaded) :
         listing' = FlattenSeq([i \in DOMAIN order |-> RecordsOf(order[i])])
    /\ listings' = listings + 1
    /\ UNCHANGED <<loaded, left, libraries, tableVars, stackVars, mStringIndexer, file, finished,
                   moves, captures, snapshots>>

-----------------------------------------------------------------------------
(* parsePacket: the records about libraries and those with a stack *)

\* LibraryHeader adds to the last library.
LastWith(header) == [libraries EXCEPT ![Len(libraries)].headers = Append(@, header)]

ParseListed ==
    /\ listing # <<>> /\ listing' = Tail(listing)
    /\ LET r == Head(listing) IN
         libraries' = IF r.type = "Library"
                        THEN Append(libraries, [name |-> r.name, addr |-> r.addr, headers |-> <<>>])
                        ELSE LastWith(r.header)
    /\ UNCHANGED <<loaded, left, tableVars, stackVars, mStringIndexer, file, finished, counters>>

\* readHashable: a stack that is new gets the next index.
ParseStack(stack) ==
    /\ captures < MaxCaptures /\ captures' = captures + 1
    /\ \A ip \in ToSet(stack) : ip \in Elsewhere \/ \E name \in DOMAIN loaded : InLibrary(name, ip)
    /\ IF stack \in ToSet(mHashIndexer)
         THEN UNCHANGED <<mHashIndexer, pendingStacks>>
         ELSE /\ mHashIndexer' = Append(mHashIndexer, stack)
              /\ pendingStacks' = pendingStacks \cup {Len(mHashIndexer) + 1}
    /\ holders' = holders \cup
           {h \in [ip : ToSet(stack), name : DOMAIN loaded] : InLibrary(h.name, h.ip)}
    /\ UNCHANGED <<programVars, libraries, tableVars, mStringIndexer, file, finished,
                   moves, listings, snapshots>>

-----------------------------------------------------------------------------
(* emitStack *)

\* Indexer::index
Indexed(strings, s) == IF s = NoString \/ s \in ToSet(strings) THEN strings ELSE Append(strings, s)

\* What index returns; zero stands for -1.
IndexOf(strings, s) == IF s = NoString THEN 0 ELSE SelectInSeq(strings, LAMBDA t : t = s)

LookUp(acc, ip) ==
    IF ip \in acc.looked THEN acc
    ELSE [acc EXCEPT !.looked = @ \cup {ip},
                     !.asked  = @ \o SetToSeq({[ip |-> ip, name |-> n] : n \in Found(acc.cache, ip)})]

CacheKept(acc, made) == IF acc.cache = <<>> THEN CacheOf(made.modules, made.table) ELSE acc.cache

CacheAfter(acc, made) ==
    IF Len(libraries) > Len(acc.modules) \/ acc.cache = <<>>
      THEN CacheOf(made.modules, made.table)
      ELSE acc.cache

\* The names of new modules go through the indexer of the strings.
EmitStack(acc, idx) ==
    LET fresh == SubSeq(libraries, Len(acc.modules) + 1, Len(libraries))
        made  == WithModules(acc.modules, acc.table, libraries)
        Name(strings, lib) == IF lib.name \in Skipped THEN strings ELSE Indexed(strings, lib.name)
        next  == [acc EXCEPT !.modules = made.modules, !.table = made.table,
                             !.cache   = CacheAfter(acc, made),
                             !.strings = FoldLeft(Name, @, fresh),
                             !.out     = Append(@, [type |-> "Stack", idx |-> idx, ips |-> mHashIndexer[idx]])]
    IN  FoldLeft(LookUp, next, mHashIndexer[idx])

\* emitSnapshot: the stacks of what is allocated, mapped and faulted in are
\* any of those known; those not in the file yet follow, in any order.
EmitSnapshot(named) ==
    /\ \E order \in SetToSeqs(named \cap pendingStacks) :
         LET before == [modules |-> modules, table |-> sModules, cache |-> moduleCache,
                        strings |-> mStringIndexer, looked |-> mAddressCache, asked |-> <<>>,
                        out |-> <<[type |-> "Snapshot", stacks |-> named]>>]
             after  == FoldLeft(EmitStack, before, order)
         IN  /\ modules' = after.modules /\ sModules' = after.table /\ moduleCache' = after.cache
             /\ mStringIndexer' = after.strings /\ mAddressCache' = after.looked
             /\ unanswered' = unanswered \o after.asked
             /\ asks' = asks \cup ToSet(after.asked)
             /\ file' = file \o after.out
             /\ cut' = cut \cup
                    {i \in DOMAIN libraries : /\ Len(after.modules) # Len(modules)
                                              /\ i > Len(modules)
                                              /\ libraries[i].headers # HeadersOf[libraries[i].name]}
    /\ pendingStacks' = pendingStacks \ named
    /\ UNCHANGED <<programVars, libraries, mHashIndexer, holders>>

\* The command, or a record after which shouldSend agrees.
ParseSnapshot ==
    /\ snapshots < MaxSnapshots /\ snapshots' = snapshots + 1
    /\ \E named \in SUBSET DOMAIN mHashIndexer : EmitSnapshot(named)
    /\ UNCHANGED <<finished, moves, listings, captures>>

-----------------------------------------------------------------------------
(* emitAddress *)

\* What the resolver finds with the module, which counts offsets from the
\* address it was made with.
Resolved(q) == Symbols[q.name][q.ip - sModules[q.name].addr]

StringsAfter(acc, s) ==
    IF Len(Indexed(acc.strings, s)) > Len(acc.strings)
      THEN <<[type |-> "StackString", idx |-> IndexOf(Indexed(acc.strings, s), s), str |-> s]>>
      ELSE <<>>

\* convertFrame: a string that is new is written before the record that uses it.
WithString(acc, s) == [acc EXCEPT !.strings = Indexed(@, s), !.out = @ \o StringsAfter(acc, s)]

FileUnwritten(acc, frame) ==
    LET named == WithString(acc, frame.function)
        next  == [named EXCEPT !.strings = Indexed(@, frame.file)]
    IN  [next EXCEPT !.frames = Append(@, [function |-> IndexOf(next.strings, frame.function),
                                           file     |-> IndexOf(next.strings, frame.file)])]

ConvertFrame(acc, frame) ==
    LET next == WithString(WithString(acc, frame.function), frame.file)
    IN  [next EXCEPT !.frames = Append(@, [function |-> IndexOf(next.strings, frame.function),
                                           file     |-> IndexOf(next.strings, frame.file)])]

NoFrame == [function |-> 0, file |-> 0]

\* The frame itself is left out if its function is not known; those inlined
\* into it are not.
EmitAddress ==
    /\ unanswered # <<>> /\ unanswered' = Tail(unanswered)
    /\ LET q      == Head(unanswered)
           found  == Resolved(q)
           before == [strings |-> mStringIndexer, out |-> <<>>, frames |-> <<>>]
           named  == found # <<>> /\ Head(found).function # NoString
           first  == IF named THEN ConvertFrame(before, Head(found))
                     ELSE [before EXCEPT !.frames = <<NoFrame>>]
           after  == FoldLeft(ConvertFrame, first, IF found = <<>> THEN <<>> ELSE Tail(found))
       IN  /\ mStringIndexer' = after.strings
           /\ file' = file \o after.out \o <<[type |-> "StackAddr", ip |-> q.ip, frames |-> after.frames]>>
    /\ UNCHANGED <<programVars, libraries, modules, moduleCache, sModules, mAddressCache, asks, cut,
                   stackVars, finished, counters>>

\* The resolver has been joined, and what it answered is written; the final
\* snapshot asks it in vain.
Finish ==
    /\ unanswered = <<>> /\ finished' = TRUE
    /\ \/ \E named \in SUBSET DOMAIN mHashIndexer : EmitSnapshot(named)
       \/ UNCHANGED <<programVars, libraries, tableVars, stackVars, mStringIndexer, file>>
    /\ UNCHANGED counters

Next ==
    /\ ~finished
    /\ \/ \E name \in Library, base \in Base : Load(name, base)
       \/ \E name \in Library : Unload(name)
       \/ BeginListing
       \/ ParseListed
       \/ \E stack \in Stack : ParseStack(stack)
       \/ ParseSnapshot
       \/ EmitAddress
       \/ Finish

Spec == Init /\ [][Next]_vars

-----------------------------------------------------------------------------
(* Properties *)

Read == Visualizer!parse(file)

Records(type) == {r \in ToSet(file) : r.type = type}

(* Whatever the order of stacks and answers in the file, the reader has of
   each stack that a snapshot names exactly its addresses, once, and at each
   the frames of the address's record if the file has that record. *)
FramesFilled ==
    \A s \in Records("Snapshot") : \A idx \in s.stacks :
        /\ idx \in DOMAIN Read.stacks
        /\ [i \in DOMAIN Read.stacks[idx] |-> Read.stacks[idx][i].ip] = mHashIndexer[idx]
        /\ \A i \in DOMAIN Read.stacks[idx] :
             LET f       == Read.stacks[idx][i]
                 records == {r \in Records("StackAddr") : r.ip = f.ip}
             IN  IF records = {} THEN f.frame = Visualizer!Unknown
                 ELSE \E r \in records : f.frame = r.frames

ModuleNames == {libraries[i].name : i \in DOMAIN libraries} \ Skipped

StringRead(idx, s) ==
    IF s = NoString THEN idx = 0
    ELSE \/ idx \in DOMAIN Read.stackStrings /\ Read.stackStrings[idx] = s
         \/ idx \notin DOMAIN Read.stackStrings /\ s \in ModuleNames

(* The reader gets the strings of each frame that the resolver found, by the
   indices of the address's record, although modules and answers share one
   indexer.  A string that is also the name of a module can be missing: the
   index was taken when the module was made, and no record says so. *)
StringsKnown ==
    \A r \in Records("StackAddr") :
        \E q \in asks :
            LET found == Resolved(q) IN
            /\ q.ip = r.ip
            /\ Len(r.frames) = IF found = <<>> THEN 1 ELSE Len(found)
            /\ \A i \in DOMAIN found :
                 \/ StringRead(r.frames[i].function, found[i].function)
                       /\ StringRead(r.frames[i].file, found[i].file)
                 \/ i = 1 /\ found[1].function = NoString /\ r.frames[1] = NoFrame

(* The library that the resolver is asked about had the address when a stack
   with it was captured.  Else it is the address just after a segment, which
   the look-up counts as inside, or a library that had the address was
   unloaded: modules stay for ever, where they were loaded first. *)
SymbolsRight ==
    \A q \in asks :
        \/ q \in holders
        \/ q.ip \in left
        \/ \E r \in ToSet(sModules[q.name].ranges) : r.end = q.ip

FirstBase(name) == libraries[SelectInSeq(libraries, LAMBDA lib : lib.name = name)].addr

\* The segment that has ip of the i-th library the parser was told of.
SegmentsWith(i, ip) ==
    LET lib == libraries[i] IN
    {h \in ToSet(lib.headers) : lib.addr + h.addr <= ip /\ ip < lib.addr + h.addr + h.len}

(* An address that is looked up after the records of its library came is
   resolved with that library - if the library is where it was first, its
   module was not made amid its headers, and nothing that was unloaded had
   been within the segment. *)
ListedIsResolved ==
    [][\A ip \in mAddressCache' \ mAddressCache : \A i \in DOMAIN libraries :
          LET lib == libraries[i] IN
          /\ lib.name \notin Skipped /\ i \notin cut' /\ lib.addr = FirstBase(lib.name)
          /\ \E h \in SegmentsWith(i, ip) : left \cap lib.addr + h.addr .. lib.addr + h.addr + h.len - 1 = {}
          => [ip |-> ip, name |-> lib.name] \in asks']_vars
=============================================================================
