----------------------------- MODULE AppMemory -----------------------------
(***************************************************************************)
(* What parsePacket keeps of an application - its live blocks, their total *)
(* size, its page faults - and when it writes the sizes and snapshots: by  *)
(* two schedules (module Schedule), on command, at the threshold, and at   *)
(* the end.                                                                *)
(*                                                                         *)
(* Records of several threads reach the parser out of the order of their   *)
(* timestamps.  Stacks are in ParserPipeline and StackOutput, mappings in  *)
(* MmapTracker.                                                            *)
(***************************************************************************)
EXTENDS Schedule, Sequences, FiniteSetsExt

CONSTANTS
    Block, Size,        \* addresses and sizes of allocations
    MaxPage,            \* pages are 0 .. MaxPage
    PageSize,           \* Limits::PageSize
    MemorySettings,     \* the thresholds of mLastMemory
    SnapshotSettings,   \* and of mLastSnapshot
    Threshold,          \* Options::threshold, 0 for none
    MaxLag,             \* how much older than the record before a record can be
    MaxTime,            \* bounds of the model: timestamps,
    MaxRecords          \* records

Settings == [timeThreshold : Nat \ {0}, peakTimeThreshold : Nat \ {0},
             downTimeThreshold : Nat \ {0}, maxTimeThreshold : Nat \ {0}, up : Nat, down : Nat]

ASSUME MemoryAssumption ==
    /\ Size \subseteq Nat /\ PageSize \in Nat /\ MaxPage \in Nat /\ Threshold \in Nat
    /\ MaxLag \in Nat /\ MaxTime \in Nat /\ MaxRecords \in Nat
    /\ TimeModulus \in Nat /\ MaxTime < TimeModulus /\ SizeModulus \in Nat \ {0}
    /\ MemorySettings \in Settings /\ SnapshotSettings \in Settings
    /\ MemorySettings.timeThreshold <= MemorySettings.maxTimeThreshold
    /\ SnapshotSettings.timeThreshold <= SnapshotSettings.maxTimeThreshold
    /\ SnapshotSettings.peakTimeThreshold <= SnapshotSettings.maxTimeThreshold

VARIABLES
    mallocs,            \* Application::mallocs, as [addr, size]
    mallocSize,         \* Application::mallocSize
    pageFaults,         \* Application::pageFaults: a sorted vector of pages
    mLastTimestamp,     \* time of the last record that has one
    mLastMemory, mLastSnapshot,
    wrote,              \* the Memory and Snapshot records the last packet wrote
    finished,           \* the final snapshot is written
    records,            \* number of records parsed
    drawn,              \* history: the last Memory record of the file
    counted,            \* history: time and sizes at the last growth record
    twice,              \* history: a block was recorded while its address was
    faulted,            \* history: the pages that pageFaults stands for
    late,               \* history: the schedules that saw a record older than their time
    automatic           \* history: times of the last three scheduled snapshots;
                        \* below zero, and far apart, those that have not been

appVars     == <<mallocs, mallocSize, pageFaults, faulted>>
historyVars == <<drawn, counted, twice, late, automatic>>
vars        == <<appVars, mLastTimestamp, mLastMemory, mLastSnapshot, wrote, finished, records, historyVars>>

\* The shortest of the schedule's times.
Gap == Least(Least(SnapshotSettings.timeThreshold, SnapshotSettings.peakTimeThreshold),
             SnapshotSettings.downTimeThreshold)

Nothing == [malloc |-> 0, pageFault |-> 0]

\* After the Start record, whose time is zero.
Init ==
    /\ mallocs = {} /\ mallocSize = 0 /\ pageFaults = <<>> /\ faulted = {}
    /\ mLastTimestamp = 0
    /\ mLastMemory = Fresh(MemorySettings, 0) /\ mLastSnapshot = Fresh(SnapshotSettings, 0)
    /\ wrote = <<>> /\ finished = FALSE /\ records = 0
    /\ drawn = [time |-> 0, sizes |-> Nothing] /\ counted = [time |-> 0, sizes |-> Nothing]
    /\ twice = FALSE /\ late = {} /\ automatic = <<-3 * Gap, -2 * Gap, -Gap>>

-----------------------------------------------------------------------------
(* The list of page faults *)

\* std::lower_bound: where the first entry that is not below page is or would be.
LowerBound(list, page) == Min({i \in 1 .. Len(list) + 1 : i <= Len(list) => page <= list[i]})

AppendedAlways(list, page) ==
    LET i == LowerBound(list, page)
    IN  SubSeq(list, 1, i - 1) \o <<page>> \o SubSeq(list, i, Len(list))

Inserted(list, page) ==
    LET i == LowerBound(list, page)
    IN  IF i <= Len(list) /\ list[i] = page
          THEN list
          ELSE SubSeq(list, 1, i - 1) \o <<page>> \o SubSeq(list, i, Len(list))

\* The end of the run of entries from lo on that are below hi.
RunEnd(list, lo, hi) ==
    LET first == LowerBound(list, lo)
    IN  Min({l \in first - 1 .. Len(list) : l < Len(list) => list[l + 1] >= hi})

removePageFaults(list, lo, hi) ==
    SubSeq(list, 1, LowerBound(list, lo) - 1) \o SubSeq(list, RunEnd(list, lo, hi) + 1, Len(list))

\* Each entry taken out of the source range goes back in at the target.
remapPageFaults(list, from, to, len) ==
    LET removed == SubSeq(list, LowerBound(list, from), RunEnd(list, from, from + len))
        Back(page, rest) == Inserted(rest, page - from + to)
    IN  FoldFunction(Back, removePageFaults(list, from, from + len), removed)

-----------------------------------------------------------------------------
(* Writing *)

SizesOf(total, list) == [malloc |-> total, pageFault |-> PageSize * Len(list)]

SumSizes(blocks) == MapThenSumSet(LAMBDA m : m.size, blocks)

\* emitSnapshot: the sizes it writes are those of the schedule, the entries
\* those of the application.
Snapshot(now, schedule, blocks, list, cause) ==
    [type |-> "Snapshot", time |-> now, cause |-> cause,
     sizes |-> [malloc |-> schedule.malloc, pageFault |-> schedule.pageFault],
     listed |-> SizesOf(SumSizes(blocks), list)]

When(condition, record) == IF condition THEN <<record>> ELSE <<>>

SnapshotOfLastTime(now, blocks, total, list) ==
    LET sizes == SizesOf(total, list)
    IN     When(Sends(mLastMemory, now, sizes), [type |-> "Memory", time |-> now, sizes |-> sizes])
        \o When(Sends(mLastSnapshot, now, sizes), Snapshot(now, mLastSnapshot, blocks, list, "schedule"))
        \o When(Threshold > 0 /\ Combined(sizes) >= Threshold,
                Snapshot(now, mLastSnapshot, blocks, list, "threshold"))

\* What the end of parsePacket writes after a record that can add to the
\* sizes, given what the record has made of the application.
Written(now, blocks, total, list) ==
    LET sizes    == SizesOf(total, list)
        schedule == Considering(mLastSnapshot, now, sizes)
    IN     When(Sends(mLastMemory, now, sizes), [type |-> "Memory", time |-> now, sizes |-> sizes])
        \o When(Sends(mLastSnapshot, now, sizes), Snapshot(now, schedule, blocks, list, "schedule"))
        \o When(Threshold > 0 /\ Combined(sizes) >= Threshold,
                Snapshot(now, schedule, blocks, list, "threshold"))

Growth(now, blocks, total, list) ==
    LET sizes == SizesOf(total, list) IN
    /\ now >= mLastTimestamp - MaxLag
    /\ mLastTimestamp' = now
    /\ mallocs' = blocks /\ mallocSize' = total /\ pageFaults' = list
    /\ mLastMemory' = Considering(mLastMemory, now, sizes)
    /\ mLastSnapshot' = Considering(mLastSnapshot, now, sizes)
    /\ wrote' = Written(now, blocks, total, list)
    /\ drawn' = IF Sends(mLastMemory, now, sizes) THEN [time |-> now, sizes |-> sizes] ELSE drawn
    /\ counted' = [time |-> now, sizes |-> sizes]
    /\ late' = late \cup (IF now < mLastMemory.time THEN {"memory"} ELSE {})
                    \cup (IF now < mLastSnapshot.time THEN {"snapshot"} ELSE {})
    /\ automatic' = IF Sends(mLastSnapshot, now, sizes)
                      THEN <<automatic[2], automatic[3], now>> ELSE automatic
    /\ UNCHANGED finished

\* A record that no write follows.
Quietly == wrote' = <<>> /\ UNCHANGED <<mLastTimestamp, mLastMemory, finished, historyVars>>

-----------------------------------------------------------------------------
(* parsePacket *)

RecordedWith(b, n) == IF \E m \in mallocs : m.addr = b THEN mallocs ELSE mallocs \cup {[addr |-> b, size |-> n]}

\* The total grows although the block that is recorded stays.
Malloc(b, n, now) ==
    /\ Growth(now, RecordedWith(b, n), mallocSize + n, pageFaults)
    /\ twice' = (twice \/ \E m \in mallocs : m.addr = b)
    /\ UNCHANGED faulted

PageFault(page, now) ==
    /\ Growth(now, mallocs, mallocSize, Inserted(pageFaults, page))
    /\ faulted' = faulted \cup {page}
    /\ UNCHANGED twice

Free(b) ==
    LET freed == {m \in mallocs : m.addr = b} IN
    /\ mallocs' = mallocs \ freed
    /\ mallocSize' = mallocSize - SumSizes(freed)
    /\ Quietly /\ UNCHANGED <<pageFaults, faulted, mLastSnapshot>>

\* PageRemove, and what Munmap does besides MmapTracker's munmap.
PageRemove(lo, hi) ==
    /\ pageFaults' = removePageFaults(pageFaults, lo, hi)
    /\ faulted' = faulted \ (lo .. hi - 1)
    /\ Quietly /\ UNCHANGED <<mallocs, mallocSize, mLastSnapshot>>

PageRemap(from, to, len) ==
    /\ pageFaults' = remapPageFaults(pageFaults, from, to, len)
    /\ LET inside == faulted \cap from .. from + len - 1
       IN  faulted' = (faulted \ inside) \cup {page - from + to : page \in inside}
    /\ Quietly /\ UNCHANGED <<mallocs, mallocSize, mLastSnapshot>>

EnableSnapshots(on) ==
    /\ mLastSnapshot' = [mLastSnapshot EXCEPT !.enabled = on]
    /\ Quietly /\ UNCHANGED appVars

\* The command takes a snapshot even while they are disabled, and moves the
\* schedule's time and sizes, but leaves its peak as it is.
SnapshotNow ==
    /\ mLastSnapshot' = [WithSizes(mLastSnapshot, SizesOf(mallocSize, pageFaults))
                            EXCEPT !.time = mLastTimestamp]
    /\ wrote' = <<Snapshot(mLastTimestamp, mLastSnapshot', mallocs, pageFaults, "command")>>
    /\ UNCHANGED <<appVars, mLastTimestamp, mLastMemory, finished, historyVars>>

\* parseThread, after its loop
FinalSnapshot ==
    /\ finished' = TRUE
    /\ wrote' = When(mLastSnapshot.enabled,
                     Snapshot(mLastTimestamp, mLastSnapshot, mallocs, pageFaults, "final"))
    /\ UNCHANGED <<appVars, mLastTimestamp, mLastMemory, mLastSnapshot, records, historyVars>>

parsePacket ==
    /\ records < MaxRecords /\ records' = records + 1
    /\ \/ \E now \in 0 .. MaxTime :
            \/ \E b \in Block, n \in Size : Malloc(b, n, now)
            \/ \E page \in 0 .. MaxPage : PageFault(page, now)
       \/ \E b \in Block : Free(b)
       \/ \E lo, hi \in 0 .. MaxPage + 1 : lo < hi /\ PageRemove(lo, hi)
       \/ \E from, to, len \in 0 .. MaxPage + 1 :
            0 < len /\ from + len <= MaxPage + 1 /\ to + len <= MaxPage + 1 /\ PageRemap(from, to, len)
       \/ \E on \in BOOLEAN : EnableSnapshots(on)
       \/ SnapshotNow

Next == ~finished /\ (parsePacket \/ FinalSnapshot)

Spec == Init /\ [][Next]_vars

-----------------------------------------------------------------------------
(* Properties *)

(* The list of page faults, which is searched by halving and edited in place,
   is in order and has each page of the set it stands for once: pages come in
   by faults, leave with their range, and move with it; one that moves onto a
   page that is there is lost. *)
ListIsPageSet ==
    /\ {pageFaults[i] : i \in 1 .. Len(pageFaults)} = faulted
    /\ \A i \in 1 .. Len(pageFaults) - 1 : pageFaults[i] < pageFaults[i + 1]

(* The thresholds double, but never ahead of time: after each record that can
   add to the sizes, either these sizes are the last the file has, or the file
   has some that are younger than maxTimeThreshold, and younger than the
   whole time before them and timeThreshold together.  One record that is
   older than the last Memory record breaks this for good, since the unsigned
   difference of times then counts as a very long time. *)
MemoryIsCurrent ==
    \/ "memory" \in late
    \/ counted.sizes = drawn.sizes
    \/ counted.time - drawn.time < Least(MemorySettings.maxTimeThreshold,
                                         MemorySettings.timeThreshold + drawn.time)

(* Whatever the sizes do, no three snapshots of the schedule, each of which
   may be long, come within the shortest of its times - while records come
   in the order of their times.  Two can, when the sizes fall after a peak. *)
SnapshotsSpaced ==
    "snapshot" \notin late => automatic[3] - automatic[1] >= Gap

(* The sizes that a snapshot shows are those of the entries it lists, except
   that a block recorded twice counts twice.  The snapshots at the threshold
   and at the end do not keep this: they show the sizes of the last one before,
   at a later time. *)
SnapshotsAddUp ==
    \A i \in 1 .. Len(wrote) :
        wrote[i].type = "Snapshot" =>
            \/ wrote[i].sizes = wrote[i].listed
            \/ twice /\ wrote[i].sizes.malloc >= wrote[i].listed.malloc
            \/ /\ wrote[i].cause \in {"threshold", "final"}
               /\ wrote[i].sizes = [malloc |-> mLastSnapshot.malloc,
                                    pageFault |-> mLastSnapshot.pageFault]
=============================================================================
