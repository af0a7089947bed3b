# A TLA+ specification of mtrack

mtrack records the memory use of a Linux program. A preload library runs in the
traced process, hooks its allocation and mapping functions and catches its page
faults; it forks a parser process and sends it one record per event through a
pipe. The parser keeps the live blocks, mappings and pages, and writes
snapshots, stacks and symbols to a file that a visualizer reads.

This directory holds specifications of its parts in TLA+, instances for the
model checker TLC, and proofs that the TLA+ proof system checks.

## The system

| Component | State | Operations | Talks to |
| --- | --- | --- | --- |
| Allocation hooks (`preload/Preload.cpp`) | per thread `hooked`, `inMallocFree`; `data`, `modulesDirty` | `malloc`, `free`, `calloc`, `realloc`, `reallocarray`, `posix_memalign`, `aligned_alloc`, `dlopen`, `dlclose`, `mtrack_*` | the C library's allocator; the pipe |
| Mapping hooks and fault thread (`preload/Preload.cpp`) | `mmapTracker` under a spinlock, `faultFd` | `mmap`, `munmap`, `mprotect`, `mremap`, `madvise`; `hookThread` | the kernel (userfaultfd), Stack, the pipe |
| Stack capture (`preload/Stack.cpp`, `Waiter.h`, `Spinlock.h`) | twenty `SigData` slots | capture of another thread's stack by `SIGUSR1` | the faulting thread |
| Start-up and shutdown (`preload/Preload.cpp`) | `hookOnce`, `callbacks`, `data`, the parser's pid | `Hooks::hook`, `hookCleanup` | every hook; the parser process |
| Mapping tracker (`common/MmapTracker.h`) | a vector of intervals | `mmap`, `munmap`, `mprotect`, `madvise`, `mremap` | mapping hooks; parser |
| Packet reader (`parser/main.cpp`) | event count | `parse` | the pipe; `Parser::feed` |
| Parser (`parser/Parser.cpp`, `Parser.h`) | packet queue, applications, `mHashIndexer`, `mAddressCache`, `mResolvedAddresses` | `feed`, `cleanup`, `parseThread`, `parsePacket`, `emitSnapshot`, `emitStack`, `emitAddress` | main, resolver, file |
| Resolver (`parser/ResolverThread.cpp`) | `mPending`, `mStop` | `lock`, `stop`, `run` | parse thread |
| Scheduling (`shouldSend` in `Parser.h`) | last time, sizes, peaks and thresholds | `shouldSend` | `parsePacket` |
| Output (`parser/FileEmitter.cpp`, `base64.c`) | a buffer, the deflate stream, a base64 carry | `emit`, `flush`, `cleanup` | the file |
| Module table (`parser/Module.cpp`, `Parser.cpp`) | libraries, modules and their ranges, a map of ranges, the strings | `Module::create`, `addHeader`, look-up in `emitStack` | parse thread, resolver |
| Output reader (`visualizer/src/model/Model.ts`) | stacks, frames by address, strings | `parse` | the file |
| WebAssembly preload (`wasm/`) | `hooked`, `inMallocFree`, the numbers of urls | `mtrack_report_malloc`, `_free`, `_realloc` | the host, which passes the records on |

What is hard to test in it:

* **Three threads in the parser.** main, the parse thread and the resolver share
  a packet queue, a queue of addresses each way, two condition variables and
  three mutexes. Shutdown, the threshold and every batch boundary can fall
  anywhere, and the parse thread joins the resolver while it owns `mMutex`.
* **Many threads in the traced process.** A hook reports after the real call,
  with nothing to keep the reports in the order of the calls.
* **Hooks inside hooks**, from the C library, from library constructors and
  from mtrack itself.
* **A stack is written once, an address is resolved once**, although they are
  shared by many entries of many snapshots and the answers come late.
* **Interval arithmetic** with splitting at both ends in the tracker.
* **Page faults.** Each takes a record, a signal, a handler in the faulting
  thread and an `ioctl`, while other threads discard or replace the page.
* **`fork`, `exec`, `exit`, death**: three processes share two pipes.
* **Timestamps out of order**: records of several threads reach the parser in another
  order than that of their times, whose differences are unsigned.
* **Listings of libraries** are rows of records with others in between, a library may
  move, and addresses are looked up once.
* **Buffers** that are flushed in the middle of a piece and re-grouped by three.

Each hazard is listed in `PROJECT.json` with its line and the properties that
would catch it going wrong.

What makes each component correct:

* reader and parser: each packet is parsed exactly once and in order; the file
  is closed after the last; nobody waits for ever;
* resolver: each address that lies in a module is resolved and written exactly
  once, before the parse thread writes its last snapshot;
* snapshots: the stacks an entry names are in the file when the snapshot ends,
  each once;
* tracker: address by address, an operation changes exactly its range, and what
  it returns is exact;
* allocation hooks: what the parser records is live, what is live is recorded,
  and the total agrees - as far as the code achieves it, with the exceptions
  stated exactly;
* modules: a library is listed before the stacks that run through it;
* mapping hooks and fault thread: a page is recorded iff it is resident, the
  parser's mappings are the program's; the faulting thread is always woken;
* stack capture: the stack recorded is the one of this fault, and the fault
  thread does not wait for ever for it;
* life cycle: no hook uses what is not there yet or no longer; the traced process
  ends, and the parser with it, having read everything;
* scheduling: the sizes in the file are never old, snapshots never dense;
* an application's lists: the page faults are a set, and a snapshot's sizes are those
  of what it lists;
* look-up and reader: an address is resolved with the library that had it, and the
  visualizer shows at each frame what the resolver said;
* WebAssembly: the parser has the program's blocks, and only those;
* output: every byte is in the file once and in order.

## Modules

| Module | Models |
| --- | --- |
| `OrderedSink` | abstract: packets are processed once each, in order, and then the sink is closed |
| `ParserPipeline` | main, parse thread and resolver |
| `ParserPipelineProofs` | theorems about it |
| `MCParserPipeline` | its instance for TLC |
| `PageMap` | abstract: the tracker address by address |
| `MmapTracker` | the interval vector |
| `MmapTrackerProofs` | theorems about it |
| `MCMmapTracker` | its instance |
| `AllocHooks` | hooks of the traced process, pipe, and the parser's list of blocks |
| `AllocHooksProofs` | theorems about it |
| `MCAllocHooks` | its instance |
| `PageFaults` | mapping hooks, kernel, fault thread, pipe, and the parser's pages and mappings |
| `PageFaultsProofs` | theorems about it |
| `MCPageFaults` | its instances |
| `StackCapture` | fault thread, slots, signals and handlers |
| `StackCaptureProofs` | theorems about it |
| `MCStackCapture` | its instance |
| `Lifecycle` | traced process from first hook to end, parser process, forked processes |
| `LifecycleProofs` | theorems about it |
| `MCLifecycle` | its instances |
| `FileOutput` | `FileEmitter` |
| `MCFileOutput` | its instance |
| `Schedule` | `shouldSend` and the schedule it keeps, as operators |
| `AppMemory` | an application's blocks and page faults, two schedules, what is written when |
| `AppMemoryProofs` | theorems about it |
| `MCAppMemory` | its instance |
| `ModuleTable` | modules made of libraries, the map of their ranges, look-up, as operators |
| `Reader` | the visualizer's `Model.parse`, as a function of the file |
| `StackOutput` | loader, library and stack records, look-up, answers, file; uses `ModuleTable` and `Reader` |
| `MCStackOutput` | its instance |
| `WasmPreload` | the WebAssembly callbacks and the parser's blocks; uses `ModuleTable` |
| `MCWasmPreload` | its instance |
| `FiniteSums` | lemmas about sums over finite sets, which three of the proofs use |

Names are the source's where TLA+ allows. `PROJECT.json` maps every definition
to the lines it stands for. A definition with a name such as `QueueNotReset`
right before the one it resembles (`QueueAfterTake`) is not part of the
specification: it is that definition with a plausible bug, and `PROJECT.json`
pairs it with the property that finds it.

### ParserPipeline

`mainPc`, `parsePc` and `resolverPc` say where the threads are. The mutexes of
the resolver and of `mResolvedAddresses` protect sections that do not block; such
a section is one action. `mMutex` is different: the parse thread owns it while
it waits for the resolver to end (`ParseStop`, `ParseJoinedResolver`) and while
it writes the threshold snapshot (`ReachThreshold` to `Unlock`), so it has an
owner and `Feed` and `Cleanup` wait for it. A thread in a condition wait is
`"asleep"`; the notify calls of the code wake it, and `SpuriousWakeup` may.

`Feed` is one turn of main's loop. Its three ends are `EndOfInput` (end of file,
or an event limit) and a `feed` that returned false. `ParseTake` copies the
queue; the batch is then parsed packet by packet, so that feeds, stops and the
resolver interleave with it. The records kept are those that differ in what they
make the threads do: `Malloc` (entries with a stack, growth, snapshot and
threshold; `PageFault` behaves alike), `Free`, and the three commands.
`emitSnapshot` is `EmitSnapshot` and then one `EmitStack` per new stack with its
frames (`LookUpFrame`) and the hand-over to the resolver (`HandOver`); the stacks
are taken in any order, as the hash sets of the code give them.

Data left out: bytes of packets and names, time (`shouldSend` answers freely while
snapshots are enabled; what it does answer is in `AppMemory`), sizes (a block counts
one byte towards the threshold), and all but one application.

### MmapTracker

One variable, the vector. `Find`, `Intersects` and `LastHit` give the run of items an
operation works on; the C++ loops over that run with an insert per split, the model
rebuilds the vector at once: what sticks out before, the items of the run rewritten,
what sticks out after. An item whose flags do not change is not split, as in the code.
Ranges may be empty where the callers let them through: the hook of `mprotect` hands
any length to the tracker before the kernel sees it, and the kernel accepts 0. Inside
of an item with another `prot` such a call leaves an empty item between the two halves
(`Before`, `Clip` and `After` of an empty range), which outlives them. An empty `mmap`
fails in the kernel and is not tracked.

`PageMap` is the specification a caller has in
mind, and it shows what the caller may not expect: mapping over a range of
which any part is tracked updates that part only; and protecting an empty range may leave
a *seam*, a page of width 0 between two addresses of one mapping (`ProtectNothing`). A seam holds
no address, but a range around it counts as tracked in part: a later `mmap` there adds nothing, and
`mprotect` returns the seam's flags.

### AllocHooks

A call of a hook is the real call (`malloc`, `free`, `realloc`, ... of the model),
which takes effect at once and leaves in `pending[t]` the records still to be
written, and one `Refresh`, possibly `Clear`, and `Emit` per record. `WasInMallocFree`
is true between the start and the end of a `dlopen` or `dlclose`: the calls of
constructors and destructors are the nested hooks, and do not report. The
`reallocarray` of the C library calls `realloc`, whose hook finds the flag set too.
`pipe` holds up to `PipeSize` packets and blocks its writers. `ParseRecord` is the
parser's handling; that it sees the records in pipe order is what `OrderedSink`
says. Initially, blocks and libraries from before the hooks may exist.

Five history variables make the exceptions exact: `raced` (an address given out
again before its free was reported), `silent` (a recorded block freed or resized
by a call that does not report), `unseen` (live blocks never reported), `erased`
(threads in `dlopen` whose mark a listing of another thread has erased) and
`overlapped` (libraries whose mark was erased before they were loaded, or will be).

### PageFaults

The kernel's part is the sets `mapped`, `rw`, `registered` and `present`, the threads
that wait (`waiting`), and the faults not yet handed out (`events`). A call of `mmap`,
`munmap`, `mprotect` or `madvise` puts what it has to do into `steps[t]` - the
tracker, the registration, a record, the kernel's part - in the order of the code, and
each step is an action, so that everything may come in between. `mmap` begins with the
real call. The tracker is the set of its pages, as `PageMap` allows. `Touch` is an
access by the program, or by a callback of `dl_iterate_phdr`. `hookThread` is
`FaultPoll`, `FaultListed`, `FaultReport`, and one of `ZeroPage`, `ZeroPageExists` and
`ZeroPageFails`: the last closes `faultFd`, which ends all registrations. `PollError`
is the `POLLERR` or `POLLHUP` of the code, after which, or when `read` itself fails,
`ReadFails` closes `faultFd` too. `PollFails` is the `case -1` of the `poll`: the
fault thread blocks no signals, so that a handler of the program may run on it and
interrupt the call; `hookThread` then returns (`faultPc = "returned"`) and leaves
`faultFd` open, with nobody to read it. `ParseRecord` is the parser's side.

The program modelled may touch what another thread discards or replaces, but does not
unmap what others use, nor change one range in two threads at a time; no forked
process holds `faultFd`; its calls of mapping functions succeed and have a length, and
the registration fails only for ranges with memory of another kind or when `faultFd`
is closed. The history variables again name the exceptions: `unfollowed`, `refused`,
`gaps` and `overlooked` (pages that a hook, the kernel or one of the trackers left
out), `lost` (resident, record deleted or never made), `kept` (recorded, no longer
resident) and `pulled` (a mapping went away under a fault). `broken` says that
`faultFd` has reported an error.

### StackCapture

`pc` is where the fault thread is between reading a fault and answering it:
`Claim` takes a slot, `Tkill` sends the signal, `Wait` is `Waiter::wait`, then `Copy`
and `Release`. In the faulting thread the handler is `Enter` (the look-up),
`Unwind` and `Notify`. A stack is the number of the fault it was taken at. A fault in
a system call is not interrupted by the signal; one in user mode is, and is
taken again when the handler returns. The program may block the signal, install a
handler, jump out of another handler (`Stray`), exit a thread and send
`SIGUSR1` itself (`Outsider`), and unwinding may fault (`UnwindFaults`).

### Lifecycle

`at[t]` is where a thread is: in `call_once`, in a hook before and after its test of
`data`, at the write, blocked in a fault, in `hookCleanup`, or in the exit handlers
after it. `HookData`, `HookFork` and `HookThread` are the three parts of
`Hooks::hook`. `writers` are the processes with the write end of the pipe, whose end
of file the parser waits for. `Fork` copies it to a child, which may report as the
traced process does, exec, exit - then `hookCleanup` runs there too - or end without.
The fault thread ends by a byte in `pfThreadPipe` (`FaultQuit`) or an interrupted
`poll` (`PollFails`; why else it may end is in `PageFaults`). The process may die at
any time (`Die`), be killed by the parser at its threshold (`ParserEnd`), or crash on
`data` (`Use`). Of the parser only the reading is here; its end of input by an event
limit is in `ParserPipeline`.

### FileOutput

Bytes are numbered, so that order, loss and repetition show. `writeBytes` appends
or flushes; a flush with deflate is a loop of `Deflate` steps, one buffer of output each,
until there is none (`DeflateEmpty`) or base64 leaves the loop because nothing is
left to encode (`LeaveAfter`). What deflate yields is any number of bytes, in the
chunks that its contract gives: full ones and then one that is not.

### AppMemory

One action per record of `parsePacket` that changes blocks, page faults or a schedule, with
what the function does at its end (`Growth`): both schedules are asked, each at most
once, and the threshold is tested. `Considering` is the schedule after `shouldSend`, `Sends` its
answer; the branches are named conditions (`TimerDue`, `PeakBegins`, `PeakDue`, `DownDue`) that
exclude each other as the code's `if` and `else` do. Quotients of doubles become products of
integers, with the thresholds in percent; `combined - combinedBytes()` is unsigned
(`SizeModulus`), and so are differences of times (`TimeModulus`), so that a fall is a jump and a
time before `time` is a long time after it. Records are not in the order of their times:
one may be up to `MaxLag` older than the record before it. `pageFaults` is the vector,
searched by `LowerBound` and edited in place; the set it stands for is the history variable
`faulted`. Other history variables keep what the properties compare: the sizes at the last
growth and those last written, the times of three scheduled snapshots, whether a record was
older than a schedule's time (`late`), whether a block was recorded twice (`twice`).

### StackOutput, ModuleTable, Reader

The loader loads and unloads libraries at several bases, and `BeginListing` sends the
records of one listing, which come one by one (`ParseListed`) with stacks and
snapshots in between. A snapshot names any of the stacks captured; those not in the
file follow (`EmitStack`): first the modules of libraries that are new, then, if there
are any, a new map of ranges, then each address that was never looked up.
`ModuleTable` has those three parts: `Module::create` by name, `addHeader`, the
insertion into `moduleCache`, and the `upper_bound` of the look-up with its end that
counts as inside. The resolver answers in order and later (`EmitAddress`), or not at
all for the final snapshot (`Finish`). `convertFrame` writes a string when it is new
to the indexer, and the names of modules go through the same indexer. `Reader` is what
`Model.parse` makes of the records of the file, and the properties compare its stacks
with those captured. What the debug information has for an offset is the constant
`Symbols`.

### WasmPreload

A call of the program is `malloc`, `free` or `realloc` (the allocator has done its
work, `MallocFree` is constructed), `hook` the first time, `Report`, and `Return` (the
destructors). Calls that the library's own allocations make come in between
(`InnerMalloc`, `InnerFree`); they find `inMallocFree` set. A frame is a url and an
offset; the number of the url is put above the offset, and the url becomes a library
with one header, from which the parser makes a module with `ModuleTable`.

## What the runs check

| Run | Instance | Shows |
| --- | --- | --- |
| `pipeline` | up to 3 packets, 2 stacks that share an address, 3 addresses of which one is in no module, threshold 2 | the safety properties, the refinement of `OrderedSink`; every packet is parsed and `cleanup()` returns |
| `tracker` | addresses 0..3, two kinds of mapping, up to 3 items, ranges of length 0 included | in order and disjoint, exact results, refinement of `PageMap` |
| `alloc` | 2 threads, 2 blocks, sizes 1 and 2, 1 library, pipe of 1, 3 allocations, `MCBound` | leaks, recorded blocks, totals, modules are listed |
| `faults` | 2 threads, 2 pages, all ranges, pipe of 1, 3 calls | pages and mappings recorded against those there are |
| `faults_live` | the same with 2 calls, on all of memory or on one page | a thread that waits for a page goes on |
| `stack` | 2 threads, 2 slots, 2 faults, 1 foreign `SIGUSR1` | stacks are those of the fault; slots come back; waits end |
| `lifecycle` | 2 threads, 1 forked process, pipe of 1 | `data` is complete, the fault thread has it, exit returns |
| `parser_quits` | the same | a violation: see below |
| `file_output` | buffer of 5 bytes, pieces of 1, 3 and 5, 14 bytes, up to 11 from deflate per flush | bytes are in the file once, in order and in groups of three |
| `app_memory` | 6 records, times 0..5, lag 1, 1 block of 8 bytes, 2 pages of 4, threshold 13 | sizes are current, snapshots spaced, sizes belong to entries, the list is a set |
| `stack_output` | 3 libraries of which one is skipped, 2 bases, 3 moves, 2 listings, 2 captures of 3 stacks, 1 snapshot on command and the final one | which module an address gets, what the reader has at the end |
| `wasm` | 2 blocks, 2 sizes, 5 urls, stacks of up to 2 frames, 3 calls | blocks and total; modules of urls |

Why the bounds are enough. Three packets allow a batch in the queue, a batch being
parsed and a packet fed after the threshold; two stacks with a common address allow
the second stack to find the address waiting in the cache, being resolved, and
written. A stack that one snapshot leaves pending and a later one names needs a fourth
packet; for that the theorem `SnapshotStacksWritten` stands. An interval operation
distinguishes the items at either end of its range and those inside: three items on
four pages give every position of both ends against an item at each end and one
inside, a gap, and an empty item between two halves; the theorems hold for any number.
In `alloc`, the shortest races need a first life of a block, a second one in another
thread, and a third call; the pipe's size only delays. `MCBound` keeps allocations,
threads in `dlopen` and loaded libraries from being all at their bound at once: three
together. Threads, blocks and libraries are only compared, which is why they may be
permuted. In `faults`, two pages give ranges that contain each other and ranges apart;
three calls are needed to map, fault, and have a second thread discard or replace what
the first waits for. In `stack` the second fault, of either thread, can find what the
first left in a slot. In `lifecycle` the threads are the one that exits and another
one; nothing counts the forked processes but the pipe's writers. Five bytes are the
smallest buffer that behaves like the real one: with four, a carried byte and a full
chunk leave no group to encode, which the loop takes for its end. Eleven bytes from
deflate are two full chunks and a part. In `app_memory` the thresholds are a few units
long, so that six records see each of the three ways to send, a doubling, its limit,
and a record that is late; one block that may be recorded twice and two pages make
sizes that rise by little, rise by much and fall. Three sends after falls in a row
would take more records: that they cannot come close is proved. In `stack_output` one
library has two segments, with a gap into which, and after which, another one can be
loaded; three moves unload and reload a library with another in its place; two
listings give a snapshot amid the headers and one after them. In `wasm` the third url
is the first whose numbers fall into the range of another, the fifth the first in a
different one.

What is learnt from them, beyond that the properties hold:

* Of the addresses that the resolver is asked for, only those of the *final* snapshot
  can stay without an answer: until the parse thread leaves its loop every one has
  been written (`ResolvedBeforeFinal`), but the resolver has ended when that snapshot
  asks for more.
* A block that is shown as leaked is live, however reports race, except after a
  `realloc` to zero bytes or calls from inside `dlopen` and `dlclose` (`NoFalseLeak`).
* The converse fails under races: a live block can be missing, and the total
  stays too high from then on. `LiveBlocksRecorded` and `TotalCoversRecorded`
  name the addresses this can happen to; without that condition TLC finds the race.
* A library can stay unlisted until the next `dlopen`, if its `dlopen` overlapped
  another thread's listing (`ModulesListed`).
* A resident page can be missing when an `madvise` or fixed `mmap` of another
  thread reports while its fault is being answered (`NoMissedPage`); pages of
  a mapping that is replaced by one that is not followed stay recorded (`NoFalsePage`);
  what `mmap` maps partly over a known range is not followed (`WritableIsRegistered`).
* The recording of page faults ends for the whole process when a mapping is
  replaced or unmapped while a fault on it is under way (`GivesUpOnlyIfPulled`; the only
  other reason to close `faultFd` is an error of its own).
* It also ends, without any of that, when a handler of the program interrupts the
  `poll` of the fault thread: a thread that faults from then on waits for ever
  (`FaultsAreAnswered` has to except it).
* An `mprotect` of length 0 can leave something in the tracker that is at no address
  and still counts as tracked: `mmap` around it does not track the new mapping
  (`ImplementsPageMap`), and `mprotect` returns its flags (`ReturnsExact`).
* A thread that faults in the callback of `dl_iterate_phdr` while the modules are dirty
  deadlocks with the fault thread (`FaultsAreAnswered`).
* So does a capture of a thread that faults in a system call, that blocks or handles
  `SIGUSR1` itself, or that faults in the handler (`CaptureEnds`): its five cases are
  `Unanswerable`. A `SIGUSR1` from elsewhere can put the wrong stack into a
  record or crash the handler (`StackOfThisFault`, `HandlerFindsSlot`).
* After exit has begun only the exiting thread is safe from finding `data` null
  between its test and its use, and it too only in hooks that test (`DataComplete`).
* The exit of a forked process ends the parent's fault thread, because both
  write to one `pfThreadPipe`; threads that fault from then on wait for ever, since
  `faultFd` stays open (the condition in line 376 of `Preload.cpp` is inverted), and exit
  with them if they hold a lock it needs (`LockStuck` in `CleanupReturns`).
* `parser_quits` is the one run that is to fail. A comment in `Hooks::hook` says that
  the parent tells the parser when to quit. It does so by closing the pipe; a forked
  process that lives on keeps the pipe open, the parser does not quit, and exit waits
  for it.
* The memory curve is current only as long as records come in the order of their
  times: one that is older than the last `Memory` record sends at once, sets the time
  back, and from then on the bound does not hold (`MemoryIsCurrent`). Two snapshots
  can come together when the sizes fall after a peak, three cannot
  (`SnapshotsSpaced`).
* The snapshots at the threshold and at the end show the sizes of the last scheduled
  one at a later time (`SnapshotsAddUp`).
* Which addresses can stay without symbols, or get wrong ones: those looked up before
  the library's records or amid its headers; those of a library that was moved or
  whose place another one had; the one just past a segment (`ListedIsResolved`,
  `SymbolsRight`).
* A function or file named like a module has an index that the reader does not know
  (`StringsKnown`).
* In a WebAssembly program only frames in the url that was met first are looked up in
  their own module; those in the second are in none, and later ones in that of another
  (`ResolvedInOwnUrl`).
* The last buffer of an uncompressed output is never written (`ClosedComplete`).

Fairness is assumed of the parse thread, of the resolver and of main once it has
stopped reading: each is a thread the operating system schedules, and weak fairness is
enough because no step of one is disabled again and again by others (`mMutex` is held
for finitely many steps, and main no longer takes it after `Cleanup`). Reading is not
fair: the traced process need not write. In `PageFaults` the fault thread, the parser
and the steps of a call that has begun are fair, and the kernel hands out every fault
in its turn (strong fairness of `FaultReport`, as other faults come in between); its
failures at `poll` are not, nobody having to send it signals, but closing `faultFd`
after an error is; in `StackCapture` the fault thread and handlers whose signal can be
delivered; in `Lifecycle` threads that are in a hook or in `hookCleanup` and the
parser, with strong fairness for what others can disable again: a write to a full
pipe, the answer to a fault, and the byte in `pfThreadPipe`, which `poll` sees
although faults keep coming. Nobody has to call, touch memory, exit, or end a forked
process. Safety does not depend on any of it.

## What is proved

For every value of the constants that the `ASSUME`s allow:

* `ParserPipelineProofs`: type correctness, every safety invariant of the run
  `pipeline`, that neither thread sleeps while there is work (`NoLostWakeup`), and
  that `ParserPipeline` implements `OrderedSink`. The argument rests on two
  strengthenings. `Phases` relates the threads' places to the flags, the owner of the
  mutex and the buffers: it says for example that after `mStop` nothing is left to
  parse, which is what makes the join safe to reach and the address buffers empty at
  the end. `Trails` says where each stack and each address is: waiting, about to be
  written, or written. The order of packets and of addresses is a statement about a
  concatenation of buffers; a step moves the head of one buffer to the end of the one
  before it, which a handful of lemmas about sequences show to leave the concatenation
  as it is. `WrittenOnce` follows from `Trails` and the order of addresses, because
  what is written is a prefix of what was asked for.
* `MmapTrackerProofs`: `Sorted`, `ReturnsExact`, and that `MmapTracker` implements
  `PageMap`, for any address space. Every operator of the model is characterised by
  what it does to `Tracks(s, a, m)`, "the vector `s` knows address `a` as mapped with
  `m`", and by whether it keeps the vector `Ordered`, which is `Sorted` with the
  types. `find` and `LastHit` delimit the run of items that intersect the range
  (`RunOfRange`); `Rewrite` is five parts in a row and `CutOut` three; each is ordered
  and tracks what it should. From these facts alone, without another look at the
  vector, each operation is a step of the page map. `ReturnsExact` counts: the lengths
  that `Covered` folds over the run add up to the number of bytes the items cover,
  because no two overlap, and each byte is one tracked page. That `mprotect` returns
  the flags of the lowest page also needs that no mapping has the flags 0 that stand
  for "none" (`Flagged`). Empty items are part of all this: `Ordered` asks that of any
  two items the first ends where the second begins or before, and begins before the
  second ends, so that no two are empty at one place; an item is tracked as pages of
  its width, and what an empty range does is a case of its own (`HitFlagsOfNothing`,
  `ProtectNothing`).
* `AllocHooksProofs`: `NoFalseLeak`, `LiveBlocksRecorded`, `TotalCoversRecorded` and
  `ModulesListed`. The first two are about states in which every report has arrived;
  `BlocksInv` says what that means before. Of a block that is free: its free is
  silent, or a thread has still to report it, or the parser will have no block at the
  address once it has read the pipe (`Going`). Of one that is live: its record is on
  its way with no free behind it, or its address raced. With it go the facts that make
  the records of one address come in the order of its lives: a thread reports the
  block it returns last and nobody frees it before (`MallocIsLast`), and the allocator
  gives a block out once (`BlocksApart`). `TotalCoversRecorded` needs `Fresh` besides:
  a record of an allocation finds its block gone when the parser gets to it, or there
  was a race. Sums are taken apart by the lemmas of `FiniteSums`. `ModulesListed` is
  not inductive: a step that clears the flag needs that the clearing thread's listing
  still covers what is loaded. The strengthenings are `ListingCovers` - while a thread
  is about to clear the flag, whatever it has not listed was loaded since and counts
  as overlapped - and `MarkStands`: the mark of a `dlopen` stands until the library is
  loaded, or the thread has lost it.
* `PageFaultsProofs`: all five safety invariants of the run `faults`. For
  `GivesUpOnlyIfPulled` the strengthening says that a fault that is under way is on a
  registered page, until a mapping was pulled away under it, so that without an error
  of `faultFd` its page can only be missing for that reason. The other four are about
  states in which every report has arrived. `PagesInv` says, page by page, what the
  parser will have once it has read the pipe: the last record about the page that
  counts decides (`Settled`), and if there is none what the parser has now.
  `RecordsFollow` relates that to the mappings, `PresentCounted` and `AbsentGone` to
  the resident pages, each with the calls and faults that are under way; `RegisterInv`
  relates what is mapped, writable and registered. A record at the end of the pipe, or
  taken from its head, changes what the parser will have about its range alone
  (`RecordWritten`, `RecordRead`).
* `StackCaptureProofs`: type correctness; `SlotsGivenBack`, which is inductive;
  `HandlerFindsSlot`, by `OwnSignals`: as long as all signals are mtrack's, a signal
  is pending or handled only while the fault thread waits with a slot for that thread,
  and the flag is set only when neither is the case any more; and `StackOfThisFault`.
  For the last one, `Signalled` says where the one signal of a capture is, unless the
  thread got a second one: pending, in a handler that has found the slot, or answered;
  and `StackGenuine` that from the moment a handler has unwound until the copy, the
  slot has the stack of the fault that is being handled, or of one the thread has
  left.
* `LifecycleProofs`: `DataComplete` and `FaultThreadHasData`, by one invariant with a
  part for the time until `Hooks::hook` has ended (nobody is in a hook, nothing is
  forked), one for the time since exit began (`data` is null once the join is over;
  the exiting thread never passes a test after it), and one for a crash.
* `AppMemoryProofs`: every property of the run `app_memory`. For `MemoryIsCurrent`,
  `CurrentInv` relates the schedule to the last `Memory` record: `time` is the time of
  that record, and `timeThreshold`, which only doubles, is at most `maxTimeThreshold`
  and at most that time and the first threshold together. For `SnapshotsSpaced`,
  `SpacedInv` says that the last two snapshots are far apart or the last one was sent
  after a fall, when `downTime` is its time: the next one is then a threshold after
  it, or `downTimeThreshold` after it. Both rest on `ConsideringKeeps`, which says
  what one call of `shouldSend` does to a schedule whose time is not after the
  record's: the 32-bit difference is then the true one. `SnapshotsAddUp` does not need
  that order: whenever `shouldSend` sends it has taken the sizes over
  (`SendsItsSizes`), and the total is the sum of the blocks until one is recorded
  twice (`Totals`). `ListIsPageSet` is inductive once the order is stated of any two
  entries (`Increasing`); a removal keeps what is before and after its run, an
  insertion divides the list, and a remapping puts the removed pages back one by one,
  whatever their order (`PutsIs`).

The constants' assumptions (`PipelineAssumption`, `HooksAssumption`,
`TrackerAssumption`, `FaultsAssumption`, `CaptureAssumption`, `LifecycleAssumption`,
`MemoryAssumption`, `WasmAssumption` and two named `OutputAssumption`) say that bounds
are natural numbers, that names for nobody are not threads, that frames are sequences
of addresses, that times fit their width, and that the first thresholds are not above
the largest one, as those of the code are.

What a fold or another recursive function computes is proved by its smallest
counterexample: a set of natural numbers that is not empty has a least one
(`LeastNumber`, from the well-foundedness of the order), and the step below it is the
contradiction. `FiniteSums` does this once for the sums of `MapThenSumSet`; `Covered`
and the remapping have their own.

Only model-checked: the liveness properties `EveryPacketParsed`, `CleanupReturns`,
`FaultsAreAnswered` and `CaptureEnds`, since the proof system does not handle fairness
and `ENABLED`, and the properties of the three components beside the main chain:
`BytesInOrder` and `ClosedComplete` of `FileOutput`; `FramesFilled`, `StringsKnown`,
`SymbolsRight` and `ListedIsResolved` of `StackOutput`; `WasmBlocksRecorded` and
`ResolvedInOwnUrl` of `WasmPreload`. They have no proof yet. Those of `StackOutput`
are about what a reader makes of the whole file by a recursion over its records, which
would each need an induction of the kind above.

## Not modelled, and the plan

The components that hold the system's own logic have their module now. What is left of them is
in the notes of `PROJECT.json`; in the order in which it would be taken up:

1. theorems: order and grouping of `FileOutput`; `WasmBlocksRecorded`; `StringsKnown`;
2. `Spinlock` against an abstract lock, which `PageFaults` assumes;
3. several applications at once: the parser keeps one time for all of them, although each has
   its own start, so that their records are out of order in the sense of `AppMemory`, and one
   index of stacks, but pending stacks per application.

Known and not covered by any module: a `read` that fails is taken for a huge packet in
packet mode (`main.cpp:104`); the parser may send `SIGABRT` to a number that another
process got (`main.cpp:256`); a fork while another thread holds `mmapTrackerLock`
leaves it held in the child; calls of hooks that `Hooks::hook` makes itself; mapping
calls that fail after they were tracked and reported (`Preload.cpp:932`); a record
longer than `PIPE_BUF` aborts the program; the `mtrack_*` calls, which test `data` but
do not go through `call_once`; stacks with equal 64-bit hashes count as equal, since
`operator==` compares the address of one shared buffer (`Parser.h:79`); a capture of
fewer frames than it skips wraps its count (`Stack.cpp:103`); `realpath` may return
null (`Parser.cpp:129`); the hook of `mremap` aborts, so that the parser's remapping
of pages, which `AppMemory` has, serves no record of today's preload; in WebAssembly
the outermost line of a stack is dropped and a failed allocation is recorded at
address 0.

Left out for good: unwinding and symbolisation (third-party libraries), option
parsing, logging, formatting of HTML, decoding of single values in the reader, the
drawing of the visualizer, the samples.
