-------------------------- MODULE AppMemoryProofs --------------------------
(***************************************************************************)
(* The safety properties of AppMemory for any settings, sizes, pages and   *)
(* sequences of records.                                                   *)
(*                                                                         *)
(* SnapshotsSpaced and MemoryIsCurrent rest on what one call of shouldSend *)
(* does to a schedule whose time is not after the record's: the 32-bit     *)
(* difference is then the true one.  SnapshotsAddUp needs no order of the  *)
(* records, only the total of the blocks.  ListIsPageSet rests on what     *)
(* halving finds in a list of which every entry is below every later one.  *)
(***************************************************************************)
EXTENDS AppMemory, FiniteSums, SequenceTheorems, TLAPS

\* A schedule with the given settings; the sizes in it can be anything.
ScheduleOf(settings, s) ==
    /\ s \in [settings : {settings}, enabled : {s.enabled}, malloc : {s.malloc},
              pageFault : {s.pageFault}, time : Nat, timeThreshold : Nat,
              peakTimeThreshold : Nat, downTime : Nat, peakTime : {s.peakTime},
              peakBytes : {s.peakBytes}]
    /\ s.timeThreshold >= settings.timeThreshold
    /\ s.timeThreshold <= settings.maxTimeThreshold
    /\ s.peakTimeThreshold >= Least(settings.peakTimeThreshold, settings.maxTimeThreshold)
    /\ s.downTime <= s.time

(* The difference of times in order does not wrap. *)
LEMMA ElapsedIsDifference ==
    ASSUME NEW since \in Nat, NEW now \in Nat, since <= now, now < TimeModulus
    PROVE  Elapsed(since, now) = now - since
BY MemoryAssumption, SMT DEF MemoryAssumption, Elapsed

(* Taking sizes over changes nothing else of a schedule. *)
LEMMA WithSizesFields ==
    ASSUME NEW settings, NEW s, NEW sizes, ScheduleOf(settings, s)
    PROVE  WithSizes(s, sizes) \in
           [settings : {settings}, enabled : {s.enabled}, malloc : {sizes.malloc},
            pageFault : {sizes.pageFault}, time : {s.time}, timeThreshold : {s.timeThreshold},
            peakTimeThreshold : {s.peakTimeThreshold}, downTime : {s.downTime},
            peakTime : {s.peakTime}, peakBytes : {s.peakBytes}]
BY DEF ScheduleOf, WithSizes

\* One call of shouldSend.
LEMMA ConsideringKeeps ==
    ASSUME NEW settings \in Settings, NEW s, NEW now \in Nat, NEW sizes,
           ScheduleOf(settings, s), s.time <= now, now < TimeModulus,
           settings.timeThreshold <= settings.maxTimeThreshold
    PROVE  LET t == Considering(s, now, sizes) IN
           /\ ScheduleOf(settings, t)
           /\ t.enabled = s.enabled
           /\ ~Sends(s, now, sizes) =>
                /\ t.time = s.time /\ t.downTime = s.downTime /\ t.timeThreshold = s.timeThreshold
                /\ t.malloc = s.malloc /\ t.pageFault = s.pageFault
           /\ Sends(s, now, sizes) =>
                /\ t.time = now /\ t.malloc = sizes.malloc /\ t.pageFault = sizes.pageFault
                /\ \/ now - s.time >= s.timeThreshold
                   \/ now - s.time >= s.peakTimeThreshold
                   \/ now - s.downTime >= settings.downTimeThreshold /\ t.downTime = now
                /\ \/ t.timeThreshold = s.timeThreshold
                   \/ now - s.time >= s.timeThreshold /\ t.timeThreshold <= 2 * s.timeThreshold
<1> DEFINE t == Considering(s, now, sizes)
<1>1. /\ Elapsed(s.time, now) = now - s.time
      /\ Elapsed(s.downTime, now) = now - s.downTime
      /\ s.time \in Nat /\ s.downTime \in Nat /\ s.downTime <= now /\ s.settings = settings
  <2>1. s.time \in Nat /\ s.downTime \in Nat /\ s.downTime <= now /\ s.settings = settings
    BY DEF ScheduleOf
  <2> QED BY <2>1, ElapsedIsDifference
<1>2. WithSizes(s, sizes) \in
           [settings : {settings}, enabled : {s.enabled}, malloc : {sizes.malloc},
            pageFault : {sizes.pageFault}, time : {s.time}, timeThreshold : {s.timeThreshold},
            peakTimeThreshold : {s.peakTimeThreshold}, downTime : {s.downTime},
            peakTime : {s.peakTime}, peakBytes : {s.peakBytes}]
  BY WithSizesFields
<1>3. Sent(s, now, sizes) \in
          [settings : {settings}, enabled : {s.enabled}, malloc : {sizes.malloc},
           pageFault : {sizes.pageFault}, time : {now}, timeThreshold : {s.timeThreshold},
           peakTimeThreshold : {s.peakTimeThreshold}, downTime : {s.downTime},
           peakTime : {0}, peakBytes : {s.peakBytes}]
  BY <1>2 DEF Sent
<1>4. CASE TimerDue(s, now, sizes)
  <2>1. ~PeakBegins(s, now, sizes) /\ ~PeakDue(s, now, sizes) /\ ~DownDue(s, now, sizes)
    BY <1>1, <1>4 DEF TimerDue, PeakDue, DownDue, PeakBegins, InPeak, ScheduleOf
  <2>2. t = [Sent(s, now, sizes) EXCEPT !.timeThreshold = Doubled(s, s.timeThreshold)]
    BY <1>4, <2>1 DEF Considering
  <2>3. t \in [settings : {settings}, enabled : {s.enabled}, malloc : {sizes.malloc},
             pageFault : {sizes.pageFault}, time : {now},
             timeThreshold : {Doubled(s, s.timeThreshold)},
             peakTimeThreshold : {s.peakTimeThreshold}, downTime : {s.downTime},
             peakTime : {0}, peakBytes : {s.peakBytes}]
    BY <1>3, <2>2
  <2>4. Sends(s, now, sizes) /\ now - s.time >= s.timeThreshold
    BY <1>1, <1>4 DEF Sends, TimerDue
  <2>5. /\ Doubled(s, s.timeThreshold) \in Nat
        /\ Doubled(s, s.timeThreshold) >= settings.timeThreshold
        /\ Doubled(s, s.timeThreshold) <= settings.maxTimeThreshold
        /\ Doubled(s, s.timeThreshold) <= 2 * s.timeThreshold
    BY <1>1 DEF Doubled, Least, ScheduleOf, Settings
  <2>6. ScheduleOf(settings, t)
    BY <1>1, <2>3, <2>5 DEF ScheduleOf
  <2> HIDE DEF t
  <2> QED BY <2>3, <2>4, <2>5, <2>6 DEF t
<1>5. CASE PeakBegins(s, now, sizes)
  <2>1. ~TimerDue(s, now, sizes) /\ ~PeakDue(s, now, sizes) /\ ~DownDue(s, now, sizes)
    BY <1>1, <1>5 DEF TimerDue, PeakDue, DownDue, PeakBegins, InPeak, ScheduleOf
  <2>2. t = [s EXCEPT !.peakTime = now, !.peakBytes = Combined(sizes)]
    BY <1>5, <2>1 DEF Considering
  <2> QED BY <2>1, <2>2, <1>1 DEF ScheduleOf, Sends, Settings
<1>6. CASE PeakDue(s, now, sizes)
  <2>1. ~TimerDue(s, now, sizes) /\ ~PeakBegins(s, now, sizes) /\ ~DownDue(s, now, sizes)
    BY <1>1, <1>6 DEF TimerDue, PeakDue, DownDue, PeakBegins, InPeak, ScheduleOf
  <2>2. t = [Sent(s, now, sizes) EXCEPT !.peakTimeThreshold = Doubled(s, s.peakTimeThreshold)]
    BY <1>6, <2>1 DEF Considering
  <2>3. t \in [settings : {settings}, enabled : {s.enabled}, malloc : {sizes.malloc},
             pageFault : {sizes.pageFault}, time : {now}, timeThreshold : {s.timeThreshold},
             peakTimeThreshold : {Doubled(s, s.peakTimeThreshold)}, downTime : {s.downTime},
             peakTime : {0}, peakBytes : {s.peakBytes}]
    BY <1>3, <2>2
  <2>4. Sends(s, now, sizes) /\ now - s.time >= s.peakTimeThreshold
    BY <1>1, <1>6 DEF Sends, PeakDue
  <2>5. /\ Doubled(s, s.peakTimeThreshold) \in Nat
        /\ Doubled(s, s.peakTimeThreshold) >= Least(settings.peakTimeThreshold, settings.maxTimeThreshold)
    BY <1>1 DEF Doubled, Least, ScheduleOf, Settings
  <2>6. ScheduleOf(settings, t)
    BY <1>1, <2>3, <2>5 DEF ScheduleOf
  <2> HIDE DEF t
  <2> QED BY <2>3, <2>4, <2>6 DEF t
<1>7. CASE DownDue(s, now, sizes)
  <2>1. ~TimerDue(s, now, sizes) /\ ~PeakBegins(s, now, sizes) /\ ~PeakDue(s, now, sizes)
    BY <1>1, <1>7 DEF TimerDue, PeakDue, DownDue, PeakBegins, InPeak, ScheduleOf
  <2>2. t = [Sent(s, now, sizes) EXCEPT !.downTime = now, !.peakBytes = Combined(sizes)]
    BY <1>7, <2>1 DEF Considering
  <2>3. t \in [settings : {settings}, enabled : {s.enabled}, malloc : {sizes.malloc},
             pageFault : {sizes.pageFault}, time : {now}, timeThreshold : {s.timeThreshold},
             peakTimeThreshold : {s.peakTimeThreshold}, downTime : {now},
             peakTime : {0}, peakBytes : {Combined(sizes)}]
    BY <1>3, <2>2
  <2>4. Sends(s, now, sizes) /\ now - s.downTime >= settings.downTimeThreshold
    BY <1>1, <1>7 DEF Sends, DownDue
  <2>5. ScheduleOf(settings, t)
    BY <1>1, <2>3 DEF ScheduleOf
  <2> HIDE DEF t
  <2> QED BY <2>3, <2>4, <2>5 DEF t
<1>8. CASE /\ ~TimerDue(s, now, sizes) /\ ~PeakBegins(s, now, sizes)
           /\ ~PeakDue(s, now, sizes) /\ ~DownDue(s, now, sizes)
  <2>1. t = s /\ ~Sends(s, now, sizes)
    BY <1>8 DEF Considering, Sends
  <2> QED BY <2>1
<1> QED BY <1>4, <1>5, <1>6, <1>7, <1>8

-----------------------------------------------------------------------------
(* The steps, by what they do to the schedules *)

\* A step that leaves the times of the schedules' writes as they are.
Keeping ==
    /\ UNCHANGED <<mLastTimestamp, mLastMemory, drawn, counted, late, automatic>>
    /\ \/ UNCHANGED mLastSnapshot
       \/ \E on \in BOOLEAN : mLastSnapshot' = [mLastSnapshot EXCEPT !.enabled = on]

\* What Growth does to the schedules and the history.
Growing(now, sizes) ==
    /\ mLastTimestamp' = now
    /\ mLastMemory' = Considering(mLastMemory, now, sizes)
    /\ mLastSnapshot' = Considering(mLastSnapshot, now, sizes)
    /\ drawn' = IF Sends(mLastMemory, now, sizes) THEN [time |-> now, sizes |-> sizes] ELSE drawn
    /\ counted' = [time |-> now, sizes |-> sizes]
    /\ late' = late \cup (IF now < mLastMemory.time THEN {"memory"} ELSE {})
                    \cup (IF now < mLastSnapshot.time THEN {"snapshot"} ELSE {})
    /\ automatic' = IF Sends(mLastSnapshot, now, sizes)
                      THEN <<automatic[2], automatic[3], now>> ELSE automatic

(* Every step is of one of three kinds. *)
LEMMA StepKinds ==
    ASSUME [Next]_vars
    PROVE  \/ Keeping
           \/ SnapshotNow
           \/ \E now \in 0 .. MaxTime : \E total, list : Growing(now, SizesOf(total, list))
<1> USE DEF appVars, historyVars
<1>1. CASE UNCHANGED vars
  BY <1>1 DEF vars, Keeping
<1>2. CASE FinalSnapshot
  BY <1>2 DEF FinalSnapshot, Keeping
<1>3. ASSUME NEW now \in 0 .. MaxTime, NEW blocks, NEW total, NEW list,
             Growth(now, blocks, total, list)
      PROVE  \E n \in 0 .. MaxTime : \E tot, lst : Growing(n, SizesOf(tot, lst))
  <2>1. Growing(now, SizesOf(total, list))
    BY <1>3 DEF Growth, Growing
  <2> QED BY <2>1
<1>4. ASSUME NEW now \in 0 .. MaxTime, NEW b \in Block, NEW n \in Size, Malloc(b, n, now)
      PROVE  \E k \in 0 .. MaxTime : \E tot, lst : Growing(k, SizesOf(tot, lst))
  <2>1. Growth(now, RecordedWith(b, n), mallocSize + n, pageFaults)
    BY <1>4 DEF Malloc
  <2> QED BY <2>1, <1>3
<1>5. ASSUME NEW now \in 0 .. MaxTime, NEW page \in 0 .. MaxPage, PageFault(page, now)
      PROVE  \E k \in 0 .. MaxTime : \E tot, lst : Growing(k, SizesOf(tot, lst))
  <2>1. Growth(now, mallocs, mallocSize, Inserted(pageFaults, page))
    BY <1>5 DEF PageFault
  <2> QED BY <2>1, <1>3
<1>6. ASSUME NEW b \in Block, Free(b) PROVE Keeping
  BY <1>6 DEF Free, Quietly, Keeping
<1>7. ASSUME NEW lo, NEW hi, PageRemove(lo, hi) PROVE Keeping
  BY <1>7 DEF PageRemove, Quietly, Keeping
<1>8. ASSUME NEW from, NEW to, NEW len, PageRemap(from, to, len) PROVE Keeping
  BY <1>8 DEF PageRemap, Quietly, Keeping
<1>9. ASSUME NEW on \in BOOLEAN, EnableSnapshots(on) PROVE Keeping
  BY <1>9 DEF EnableSnapshots, Quietly, Keeping
<1> QED
  BY <1>1, <1>2, <1>4, <1>5, <1>6, <1>7, <1>8, <1>9 DEF Next, parsePacket

-----------------------------------------------------------------------------
(* SnapshotsSpaced *)

\* While records come in order: the last snapshot of the schedule is not after
\* the schedule's time; the one before it is Gap older, or the last one was
\* written because the sizes fell, which sets downTime.
Spaced ==
    /\ automatic \in [1 .. 3 -> Int]
    /\ automatic[3] <= mLastSnapshot.time /\ automatic[2] <= automatic[3]
    /\ automatic[3] - automatic[2] >= Gap \/ mLastSnapshot.downTime = automatic[3]
    /\ automatic[3] - automatic[1] >= Gap

\* The invariant: all of it holds until a record is late.
SpacedInv ==
    /\ mLastTimestamp \in 0 .. MaxTime
    /\ "snapshot" \notin late =>
          /\ ScheduleOf(SnapshotSettings, mLastSnapshot)
          /\ mLastSnapshot.time <= mLastTimestamp
          /\ Spaced

(* What the proofs use of the assumption on the constants. *)
LEMMA SettingsFacts ==
    /\ SnapshotSettings \in Settings /\ MemorySettings \in Settings
    /\ SnapshotSettings.timeThreshold <= SnapshotSettings.maxTimeThreshold
    /\ MemorySettings.timeThreshold <= MemorySettings.maxTimeThreshold
    /\ Least(SnapshotSettings.peakTimeThreshold, SnapshotSettings.maxTimeThreshold)
         = SnapshotSettings.peakTimeThreshold
    /\ MaxTime \in Nat /\ TimeModulus \in Nat /\ MaxTime < TimeModulus
    /\ Gap \in Nat /\ Gap <= SnapshotSettings.timeThreshold
    /\ Gap <= SnapshotSettings.peakTimeThreshold /\ Gap <= SnapshotSettings.downTimeThreshold
BY MemoryAssumption DEF MemoryAssumption, Settings, Gap, Least

(* The schedule that the Start record makes. *)
LEMMA FreshSchedule ==
    ASSUME NEW settings \in Settings, settings.timeThreshold <= settings.maxTimeThreshold
    PROVE  ScheduleOf(settings, Fresh(settings, 0))
<1>1. settings.timeThreshold \in Nat /\ settings.peakTimeThreshold \in Nat /\ settings.maxTimeThreshold \in Nat
  BY DEF Settings
<1> QED BY <1>1 DEF ScheduleOf, Fresh, Least

(* At the start three snapshots that have not been are far apart. *)
LEMMA InitSpaced == Init => SpacedInv
<1> SUFFICES ASSUME Init PROVE SpacedInv
  OBVIOUS
<1>1. ScheduleOf(SnapshotSettings, mLastSnapshot) /\ mLastSnapshot.time = 0
  BY FreshSchedule, SettingsFacts DEF Init, Fresh
<1>2. mLastTimestamp = 0 /\ automatic = <<-3 * Gap, -2 * Gap, -Gap>>
  BY DEF Init
<1>3. Spaced
  BY <1>1, <1>2, SettingsFacts DEF Spaced
<1> QED BY <1>1, <1>2, <1>3, SettingsFacts DEF SpacedInv

(* Every step keeps the spacing. *)
LEMMA NextSpaced == SpacedInv /\ [Next]_vars => SpacedInv'
<1> SUFFICES ASSUME SpacedInv, [Next]_vars PROVE SpacedInv'
  OBVIOUS
<1>1. mLastTimestamp' \in 0 .. MaxTime
  BY StepKinds DEF Keeping, SnapshotNow, Growing, SpacedInv
<1> SUFFICES ASSUME "snapshot" \notin late'
             PROVE  /\ ScheduleOf(SnapshotSettings, mLastSnapshot')
                    /\ mLastSnapshot'.time <= mLastTimestamp'
                    /\ Spaced'
  BY <1>1 DEF SpacedInv
<1>2. "snapshot" \notin late
  BY StepKinds DEF Keeping, SnapshotNow, Growing, historyVars
<1>3. /\ ScheduleOf(SnapshotSettings, mLastSnapshot) /\ mLastSnapshot.time <= mLastTimestamp /\ Spaced
      /\ mLastTimestamp \in 0 .. MaxTime /\ mLastSnapshot.time \in Nat
  BY <1>2 DEF SpacedInv, ScheduleOf
<1>4. CASE Keeping
  <2>1. /\ mLastSnapshot'.time = mLastSnapshot.time /\ mLastSnapshot'.downTime = mLastSnapshot.downTime
        /\ ScheduleOf(SnapshotSettings, mLastSnapshot')
    BY <1>3, <1>4 DEF Keeping, ScheduleOf
  <2>2. UNCHANGED <<mLastTimestamp, automatic>>
    BY <1>4 DEF Keeping
  <2> QED BY <1>3, <2>1, <2>2 DEF Spaced
<1>5. CASE SnapshotNow
  <2> DEFINE settings == SnapshotSettings
             s == mLastSnapshot
             sizes == SizesOf(mallocSize, pageFaults)
  <2>4. WithSizes(s, sizes) \in
           [settings : {settings}, enabled : {s.enabled}, malloc : {sizes.malloc},
            pageFault : {sizes.pageFault}, time : {s.time}, timeThreshold : {s.timeThreshold},
            peakTimeThreshold : {s.peakTimeThreshold}, downTime : {s.downTime},
            peakTime : {s.peakTime}, peakBytes : {s.peakBytes}]
    BY <1>3, WithSizesFields
  <2>5. s' = [WithSizes(s, sizes) EXCEPT !.time = mLastTimestamp]
    BY <1>5 DEF SnapshotNow
  <2> HIDE DEF sizes
  <2>1. s'.time = mLastTimestamp /\ s'.downTime = s.downTime /\ ScheduleOf(settings, s')
    BY <1>3, <2>4, <2>5 DEF ScheduleOf
  <2>2. UNCHANGED <<mLastTimestamp, automatic>>
    BY <1>5 DEF SnapshotNow, historyVars
  <2>3. Spaced'
    BY <1>3, <2>1, <2>2 DEF Spaced, ScheduleOf
  <2> QED BY <2>1, <2>2, <2>3, <1>3, SettingsFacts
<1>6. ASSUME NEW now \in 0 .. MaxTime, NEW total, NEW list, Growing(now, SizesOf(total, list))
      PROVE  /\ ScheduleOf(SnapshotSettings, mLastSnapshot')
             /\ mLastSnapshot'.time <= mLastTimestamp'
             /\ Spaced'
  <2> DEFINE sizes == SizesOf(total, list)
             s == mLastSnapshot
             sends == Sends(s, now, sizes)
             a == automatic
  <2>1. now \in Nat /\ now < TimeModulus /\ s.time <= now
    <3>1. ~(now < s.time)
      BY <1>6 DEF Growing
    <3> QED BY <1>3, <3>1, SettingsFacts
  <2> HIDE DEF sizes
  <2>2. s' = Considering(s, now, sizes)
    BY <1>6 DEF Growing, sizes
  <2>3. /\ ScheduleOf(SnapshotSettings, s')
        /\ ~sends => s'.time = s.time /\ s'.downTime = s.downTime
        /\ sends => /\ s'.time = now
                    /\ \/ now - s.time >= s.timeThreshold
                       \/ now - s.time >= s.peakTimeThreshold
                       \/ now - s.downTime >= SnapshotSettings.downTimeThreshold /\ s'.downTime = now
    BY <1>3, <2>1, <2>2, ConsideringKeeps, SettingsFacts
  <2>4. /\ mLastTimestamp' = now
        /\ a' = IF sends THEN <<a[2], a[3], now>> ELSE a
    BY <1>6 DEF Growing, sizes
  <2>5. CASE ~sends
    BY <1>3, <2>1, <2>3, <2>4, <2>5 DEF Spaced
  <2>6. CASE sends
    <3>1. /\ a \in [1 .. 3 -> Int] /\ a' = <<a[2], a[3], now>>
          /\ a[3] <= s.time /\ a[2] <= a[3]
          /\ a[3] - a[2] >= Gap \/ s.downTime = a[3]
      BY <1>3, <2>4, <2>6 DEF Spaced
    <3>2. \/ now - s.time >= Gap
          \/ now - s.downTime >= Gap /\ s'.downTime = now
      BY <1>3, <2>1, <2>3, <2>6, SettingsFacts DEF ScheduleOf, Settings
    <3>3. a' \in [1 .. 3 -> Int] /\ a'[1] = a[2] /\ a'[2] = a[3] /\ a'[3] = now
      BY <2>1, <3>1
    <3>4. s'.time = now /\ s.time \in Nat /\ s.downTime \in Nat /\ s.downTime <= s.time
      BY <1>3, <2>3, <2>6 DEF ScheduleOf
    <3> HIDE DEF a, s
    <3>5. /\ a'[3] <= s'.time /\ a'[2] <= a'[3]
          /\ a'[3] - a'[2] >= Gap \/ s'.downTime = a'[3]
          /\ a'[3] - a'[1] >= Gap
      BY <2>1, <3>1, <3>2, <3>3, <3>4, SettingsFacts
    <3> QED BY <2>3, <2>4, <3>3, <3>4, <3>5 DEF Spaced, a, s
  <2> QED BY <2>5, <2>6
<1> QED BY <1>4, <1>5, <1>6, StepKinds

(* However long the thresholds have grown and whatever the sizes do, three
   snapshots of shouldSend do not come within the shortest of its times, as
   long as the parser gets the records in the order of their times. *)
THEOREM SnapshotsAlwaysSpaced == Spec => []SnapshotsSpaced
<1>1. SpacedInv => SnapshotsSpaced
  BY DEF SpacedInv, Spaced, SnapshotsSpaced
<1> QED BY <1>1, InitSpaced, NextSpaced, PTL DEF Spec

-----------------------------------------------------------------------------
(* MemoryIsCurrent *)

\* While records come in order: the schedule knows what was drawn last, and
\* has not doubled its threshold faster than time went by.
CurrentInv ==
    "memory" \notin late =>
        /\ ScheduleOf(MemorySettings, mLastMemory) /\ mLastMemory.enabled = TRUE
        /\ drawn = [time |-> mLastMemory.time,
                    sizes |-> [malloc |-> mLastMemory.malloc, pageFault |-> mLastMemory.pageFault]]
        /\ mLastMemory.timeThreshold <= MemorySettings.timeThreshold + mLastMemory.time
        /\ \/ counted.sizes = drawn.sizes
           \/ /\ counted.time \in Nat
              /\ counted.time - drawn.time < mLastMemory.timeThreshold

(* At the start what was drawn is current. *)
LEMMA InitCurrent == Init => CurrentInv
<1> SUFFICES ASSUME Init PROVE CurrentInv
  OBVIOUS
<1>1. ScheduleOf(MemorySettings, mLastMemory)
  BY FreshSchedule, SettingsFacts DEF Init
<1>2. /\ mLastMemory.enabled = TRUE /\ mLastMemory.time = 0 /\ mLastMemory.malloc = 0
      /\ mLastMemory.pageFault = 0 /\ mLastMemory.timeThreshold = MemorySettings.timeThreshold
  BY DEF Init, Fresh
<1>3. /\ drawn = [time |-> 0, sizes |-> [malloc |-> 0, pageFault |-> 0]]
      /\ counted.sizes = drawn.sizes
  BY DEF Init, Nothing
<1>4. MemorySettings.timeThreshold \in Nat
  BY SettingsFacts DEF Settings
<1> QED BY <1>1, <1>2, <1>3, <1>4 DEF CurrentInv

(* Every step keeps what was drawn current. *)
LEMMA NextCurrent == CurrentInv /\ [Next]_vars => CurrentInv'
<1> SUFFICES ASSUME CurrentInv, [Next]_vars, "memory" \notin late' PROVE CurrentInv'
  BY DEF CurrentInv
<1>1. "memory" \notin late
  BY StepKinds DEF Keeping, SnapshotNow, Growing, historyVars
<1>2. CASE Keeping \/ SnapshotNow
  <2>1. UNCHANGED <<mLastMemory, drawn, counted, late>>
    BY <1>2 DEF Keeping, SnapshotNow, historyVars
  <2> QED BY <2>1 DEF CurrentInv
<1>3. ASSUME NEW now \in 0 .. MaxTime, NEW total, NEW list, Growing(now, SizesOf(total, list))
      PROVE  CurrentInv'
  <2> DEFINE sizes == SizesOf(total, list)
             s == mLastMemory
             sends == Sends(s, now, sizes)
  <2>1. /\ ScheduleOf(MemorySettings, s) /\ s.enabled = TRUE
        /\ drawn = [time |-> s.time, sizes |-> [malloc |-> s.malloc, pageFault |-> s.pageFault]]
        /\ s.timeThreshold <= MemorySettings.timeThreshold + s.time
    BY <1>1 DEF CurrentInv
  <2>2. /\ MemorySettings.timeThreshold \in Nat
        /\ s.time \in Nat /\ s.timeThreshold \in Nat
    BY <2>1, SettingsFacts DEF ScheduleOf, Settings
  <2>3. now \in Nat /\ now < TimeModulus /\ s.time <= now
    <3>1. ~(now < s.time)
      BY <1>3 DEF Growing
    <3> QED BY <2>2, <3>1, SettingsFacts
  <2>4. sizes = [malloc |-> sizes.malloc, pageFault |-> sizes.pageFault]
    BY DEF SizesOf
  <2>5. /\ s' = Considering(s, now, sizes)
        /\ drawn' = IF sends THEN [time |-> now, sizes |-> sizes] ELSE drawn
        /\ counted' = [time |-> now, sizes |-> sizes]
    BY <1>3 DEF Growing
  <2> HIDE DEF sizes
  <2>6. /\ ScheduleOf(MemorySettings, s') /\ s'.enabled = TRUE
        /\ ~sends => /\ s'.time = s.time /\ s'.timeThreshold = s.timeThreshold
                     /\ s'.malloc = s.malloc /\ s'.pageFault = s.pageFault
        /\ sends => /\ s'.time = now /\ s'.malloc = sizes.malloc /\ s'.pageFault = sizes.pageFault
                    /\ \/ s'.timeThreshold = s.timeThreshold
                       \/ /\ now - s.time >= s.timeThreshold
                          /\ s'.timeThreshold <= 2 * s.timeThreshold
    BY <2>1, <2>3, <2>5, ConsideringKeeps, SettingsFacts
  <2>7. s'.timeThreshold \in Nat
    BY <2>6 DEF ScheduleOf
  <2>8. CASE sends
    <3>1. /\ drawn' = [time |-> now, sizes |-> [malloc |-> s'.malloc, pageFault |-> s'.pageFault]]
          /\ counted'.sizes = drawn'.sizes
      BY <2>4, <2>5, <2>6, <2>8
    <3>2. s'.timeThreshold <= MemorySettings.timeThreshold + s'.time
      <4> HIDE DEF s
      <4> QED BY <2>1, <2>2, <2>3, <2>6, <2>7, <2>8
    <3> QED BY <2>6, <2>8, <3>1, <3>2 DEF CurrentInv
  <2>9. CASE ~sends
    <3>1. \/ sizes.malloc = s.malloc /\ sizes.pageFault = s.pageFault
          \/ now - s.time < s.timeThreshold
      <4>1. Elapsed(s.time, now) = now - s.time
        BY <2>2, <2>3, ElapsedIsDifference
      <4> QED BY <2>1, <2>2, <2>3, <2>9, <4>1 DEF Sends, TimerDue, Considered
    <3>2. \/ counted'.sizes = drawn'.sizes
          \/ counted'.time \in Nat /\ counted'.time - drawn'.time < s'.timeThreshold
      BY <2>1, <2>3, <2>4, <2>5, <2>6, <2>9, <3>1
    <3>3. drawn' = [time |-> s'.time, sizes |-> [malloc |-> s'.malloc, pageFault |-> s'.pageFault]]
      BY <2>1, <2>5, <2>6, <2>9
    <3> QED BY <2>1, <2>6, <2>9, <3>2, <3>3 DEF CurrentInv
  <2> QED BY <2>8, <2>9
<1> QED BY <1>2, <1>3, StepKinds

(* Doubling the threshold keeps the Memory records current, for any sizes and
   settings: what the visualizer draws is never older than the time before it
   and timeThreshold together, nor than maxTimeThreshold, unless some record
   came late. *)
THEOREM MemoryAlwaysCurrent == Spec => []MemoryIsCurrent
<1>1. CurrentInv => MemoryIsCurrent
  <2> SUFFICES ASSUME CurrentInv, "memory" \notin late, counted.sizes # drawn.sizes
               PROVE  MemoryIsCurrent
    BY DEF MemoryIsCurrent
  <2>1. /\ ScheduleOf(MemorySettings, mLastMemory) /\ drawn.time = mLastMemory.time
        /\ mLastMemory.timeThreshold <= MemorySettings.timeThreshold + drawn.time
        /\ counted.time \in Nat /\ counted.time - drawn.time < mLastMemory.timeThreshold
    BY DEF CurrentInv
  <2>2. /\ drawn.time \in Nat /\ mLastMemory.timeThreshold \in Nat
        /\ mLastMemory.timeThreshold <= MemorySettings.maxTimeThreshold
        /\ MemorySettings.timeThreshold \in Nat /\ MemorySettings.maxTimeThreshold \in Nat
    BY <2>1, SettingsFacts DEF ScheduleOf, Settings
  <2> QED BY <2>1, <2>2 DEF MemoryIsCurrent, Least
<1> QED BY <1>1, InitCurrent, NextCurrent, PTL DEF Spec

-----------------------------------------------------------------------------
(* SnapshotsAddUp *)

\* What mallocs can have in it.
Blocks == [addr : Block, size : Size]

\* What a recorded block adds to the total.
SizeOf == [m \in Blocks |-> m.size]

(* SumSizes is a sum of sizes. *)
LEMMA SumSizesIs ==
    ASSUME NEW s \in SUBSET Blocks, IsFiniteSet(s)
    PROVE  SumSizes(s) = SumOf(SizeOf, s)
<1> DEFINE P(g) == g = [t \in SUBSET s |->
                          IF t = {} THEN 0
                          ELSE (CHOOSE e \in t : TRUE).size + g[t \ {CHOOSE e \in t : TRUE}]]
<1>1. SumSizes(s) = (CHOOSE g : P(g))[s]
  BY DEF SumSizes, MapThenSumSet, MapThenFoldSet
<1>2. ASSUME NEW g
      PROVE  Sums(SizeOf, s, g) <=> P(g)
  <2> DEFINE x == [t \in SUBSET s |-> IF t = {} THEN 0 ELSE SizeOf[Pick(t)] + g[t \ {Pick(t)}]]
             y == [t \in SUBSET s |->
                          IF t = {} THEN 0
                          ELSE (CHOOSE e \in t : TRUE).size + g[t \ {CHOOSE e \in t : TRUE}]]
  <2>1. (Sums(SizeOf, s, g) <=> g = x) /\ (P(g) <=> g = y)
    BY DEF Sums
  <2>2. \A t \in SUBSET s : t # {} => SizeOf[Pick(t)] = (CHOOSE e \in t : TRUE).size
    <3>1. \A t \in SUBSET s : t # {} => Pick(t) \in Blocks
      BY DEF Pick
    <3>2. QED
      BY <3>1 DEF SizeOf, Pick
  <2>3. x = y
    BY <2>2 DEF Pick
  <2> HIDE DEF x, y
  <2>4. QED
    BY <2>1, <2>3
<1>3. PICK g : Sums(SizeOf, s, g) /\ SumOf(SizeOf, s) = g[s]
  BY SumOfSums
<1>4. P(CHOOSE h : P(h))
  <2>1. P(g)
    BY <1>2, <1>3
  <2> HIDE DEF P
  <2>2. QED
    BY <2>1
<1> DEFINE h == CHOOSE h : P(h)
<1>5. Sums(SizeOf, s, h)
  BY <1>2, <1>4
<1> HIDE DEF h
<1>6. h[s] = g[s]
  BY <1>3, <1>5, SumsAgree
<1>7. QED
  BY <1>1, <1>3, <1>6 DEF h

(* A new block adds its size. *)
LEMMA SizesAdded ==
    ASSUME NEW s \in SUBSET Blocks, IsFiniteSet(s), NEW m \in Blocks, m \notin s
    PROVE  /\ IsFiniteSet(s \cup {m})
           /\ SumSizes(s \cup {m}) = m.size + SumSizes(s)
<1>1. IsFiniteSet(s \cup {m}) /\ s \cup {m} \in SUBSET Blocks
  BY FS_AddElement
<1>2. \A x \in s \cup {m} : SizeOf[x] \in Nat
  BY MemoryAssumption DEF MemoryAssumption, SizeOf, Blocks
<1>3. SumOf(SizeOf, s \cup {m}) = SizeOf[m] + SumOf(SizeOf, s)
  BY <1>2, SumOfWith
<1>4. SizeOf[m] = m.size
  BY DEF SizeOf
<1>5. QED
  BY <1>1, <1>3, <1>4, SumSizesIs

(* Blocks taken out take their sizes out of the sum. *)
LEMMA SizesRemoved ==
    ASSUME NEW s \in SUBSET Blocks, IsFiniteSet(s), NEW r \in SUBSET s
    PROVE  /\ IsFiniteSet(s \ r) /\ SumSizes(r) \in Nat /\ SumSizes(s \ r) \in Nat
           /\ SumSizes(s) = SumSizes(r) + SumSizes(s \ r)
<1>1. /\ IsFiniteSet(s \ r) /\ IsFiniteSet(r) /\ s \ r \in SUBSET Blocks /\ r \in SUBSET Blocks
  BY FS_Subset
<1>2. \A x \in s : SizeOf[x] \in Nat
  BY MemoryAssumption DEF MemoryAssumption, SizeOf, Blocks
<1>3. SumOf(SizeOf, s) = SumOf(SizeOf, r) + SumOf(SizeOf, s \ r)
  BY <1>2, SumOfParts
<1>4. SumOf(SizeOf, r) \in Nat /\ SumOf(SizeOf, s \ r) \in Nat
  BY <1>1, <1>2, SumOfNatural
<1>5. QED
  BY <1>1, <1>3, <1>4, SumSizesIs

\* A schedule with numbers for times, whatever their order.
Typed(s) ==
    /\ s \in [settings : {SnapshotSettings}, enabled : {s.enabled}, malloc : {s.malloc},
              pageFault : {s.pageFault}, time : Nat, timeThreshold : Nat,
              peakTimeThreshold : Nat, downTime : Nat, peakTime : {s.peakTime},
              peakBytes : {s.peakBytes}]

(* shouldSend takes the sizes over whenever it sends, on a record that is late
   as well. *)
LEMMA SendsItsSizes ==
    ASSUME NEW s, NEW now \in Nat, NEW sizes, Typed(s)
    PROVE  LET t == Considering(s, now, sizes) IN
           /\ Typed(t)
           /\ Sends(s, now, sizes) => t.malloc = sizes.malloc /\ t.pageFault = sizes.pageFault
<1> DEFINE t == Considering(s, now, sizes)
           AllBut(time, threshold, peakThreshold, down, peak, bytes) ==
               [settings : {SnapshotSettings}, enabled : {s.enabled}, malloc : {sizes.malloc},
                pageFault : {sizes.pageFault}, time : {time}, timeThreshold : {threshold},
                peakTimeThreshold : {peakThreshold}, downTime : {down},
                peakTime : {peak}, peakBytes : {bytes}]
           Good(x) == /\ Typed(x)
                      /\ Sends(s, now, sizes) => /\ x.malloc = sizes.malloc
                                                 /\ x.pageFault = sizes.pageFault
<1>1. /\ s.time \in Nat /\ s.downTime \in Nat /\ s.timeThreshold \in Nat
      /\ s.peakTimeThreshold \in Nat /\ s.settings = SnapshotSettings
      /\ SnapshotSettings \in Settings
  BY MemoryAssumption DEF MemoryAssumption, Typed
<1>2. Elapsed(s.time, now) \in Int /\ Elapsed(s.downTime, now) \in Int
  <2>1. TimeModulus \in Nat /\ TimeModulus > 0
    BY MemoryAssumption DEF MemoryAssumption
  <2>2. QED
    BY <1>1, <2>1 DEF Elapsed
<1>3. WithSizes(s, sizes) \in AllBut(s.time, s.timeThreshold, s.peakTimeThreshold, s.downTime,
                                     s.peakTime, s.peakBytes)
  BY DEF Typed, WithSizes
<1>4. Sent(s, now, sizes) \in AllBut(now, s.timeThreshold, s.peakTimeThreshold, s.downTime, 0,
                                     s.peakBytes)
  BY <1>3 DEF Sent
<1>5. \A n \in Nat : Doubled(s, n) \in Nat
  BY <1>1 DEF Doubled, Least, Settings
<1>6. CASE TimerDue(s, now, sizes)
  <2>1. ~PeakBegins(s, now, sizes) /\ ~PeakDue(s, now, sizes) /\ ~DownDue(s, now, sizes)
    BY <1>1, <1>2, <1>6 DEF TimerDue, PeakDue, DownDue, PeakBegins, InPeak
  <2>2. t = [Sent(s, now, sizes) EXCEPT !.timeThreshold = Doubled(s, s.timeThreshold)]
    BY <1>6, <2>1 DEF Considering
  <2>3. t \in AllBut(now, Doubled(s, s.timeThreshold), s.peakTimeThreshold, s.downTime, 0,
                     s.peakBytes)
    BY <1>4, <2>2
  <2> HIDE DEF t
  <2>4. QED
    BY <1>1, <1>5, <2>3 DEF Typed, t
<1>7. CASE PeakBegins(s, now, sizes)
  <2>1. ~TimerDue(s, now, sizes) /\ ~PeakDue(s, now, sizes) /\ ~DownDue(s, now, sizes)
    BY <1>1, <1>2, <1>7 DEF TimerDue, PeakDue, DownDue, PeakBegins, InPeak
  <2>2. t = [s EXCEPT !.peakTime = now, !.peakBytes = Combined(sizes)]
    BY <1>7, <2>1 DEF Considering
  <2>3. QED
    BY <2>1, <2>2 DEF Typed, Sends
<1>8. CASE PeakDue(s, now, sizes)
  <2>1. ~TimerDue(s, now, sizes) /\ ~PeakBegins(s, now, sizes) /\ ~DownDue(s, now, sizes)
    BY <1>1, <1>2, <1>8 DEF TimerDue, PeakDue, DownDue, PeakBegins, InPeak
  <2>2. t = [Sent(s, now, sizes) EXCEPT !.peakTimeThreshold = Doubled(s, s.peakTimeThreshold)]
    BY <1>8, <2>1 DEF Considering
  <2>3. t \in AllBut(now, s.timeThreshold, Doubled(s, s.peakTimeThreshold), s.downTime, 0,
                     s.peakBytes)
    BY <1>4, <2>2
  <2> HIDE DEF t
  <2>4. QED
    BY <1>1, <1>5, <2>3 DEF Typed, t
<1>9. CASE DownDue(s, now, sizes)
  <2>1. ~TimerDue(s, now, sizes) /\ ~PeakBegins(s, now, sizes) /\ ~PeakDue(s, now, sizes)
    BY <1>1, <1>2, <1>9 DEF TimerDue, PeakDue, DownDue, PeakBegins, InPeak
  <2>2. t = [Sent(s, now, sizes) EXCEPT !.downTime = now, !.peakBytes = Combined(sizes)]
    BY <1>9, <2>1 DEF Considering
  <2>3. t \in AllBut(now, s.timeThreshold, s.peakTimeThreshold, now, 0, Combined(sizes))
    BY <1>4, <2>2
  <2> HIDE DEF t
  <2>4. QED
    BY <1>1, <2>3 DEF Typed, t
<1>10. CASE /\ ~TimerDue(s, now, sizes) /\ ~PeakBegins(s, now, sizes)
            /\ ~PeakDue(s, now, sizes) /\ ~DownDue(s, now, sizes)
  <2>1. t = s /\ ~Sends(s, now, sizes)
    BY <1>10 DEF Considering, Sends
  <2>2. QED
    BY <2>1
<1>11. QED
  BY <1>6, <1>7, <1>8, <1>9, <1>10

\* The recorded blocks and their total: the total is their sum until a block
\* is recorded twice, and never less.
Totals ==
    /\ mallocs \in SUBSET Blocks /\ IsFiniteSet(mallocs)
    /\ mallocSize \in Int /\ mallocSize >= SumSizes(mallocs)
    /\ ~twice => mallocSize = SumSizes(mallocs)

\* The invariant: the snapshots of the last packet, and what the next ones
\* are made of.
AddUpInv ==
    /\ Typed(mLastSnapshot) /\ mLastTimestamp \in Nat
    /\ Totals
    /\ SnapshotsAddUp

(* At the start there is no block and no snapshot. *)
LEMMA InitAddsUp == Init => AddUpInv
<1> SUFFICES ASSUME Init PROVE AddUpInv
  OBVIOUS
<1>1. ScheduleOf(SnapshotSettings, mLastSnapshot)
  BY FreshSchedule, SettingsFacts DEF Init
<1>2. Typed(mLastSnapshot)
  BY <1>1 DEF Typed, ScheduleOf
<1>3. IsFiniteSet({})
  BY FS_EmptySet
<1>4. SumSizes({}) = 0
  <2>1. SumSizes({}) = SumOf(SizeOf, {})
    BY <1>3, SumSizesIs
  <2>2. QED
    BY <2>1, SumOfNone
<1>5. Totals
  BY <1>3, <1>4 DEF Init, Totals
<1>6. SnapshotsAddUp
  BY DEF Init, SnapshotsAddUp
<1>7. QED
  BY <1>2, <1>5, <1>6 DEF AddUpInv, Init

(* A record that can add to the sizes writes snapshots that add up. *)
LEMMA GrowthAddsUp ==
    ASSUME Typed(mLastSnapshot),
           NEW now \in Nat, NEW blocks, NEW total, NEW list, Growth(now, blocks, total, list),
           total \in Int, SumSizes(blocks) \in Int,
           total >= SumSizes(blocks),
           ~twice' => total = SumSizes(blocks)
    PROVE  /\ Typed(mLastSnapshot') /\ mLastTimestamp' \in Nat
           /\ SnapshotsAddUp'
<1> DEFINE sizes    == SizesOf(total, list)
           schedule == Considering(mLastSnapshot, now, sizes)
           sends    == Sends(mLastSnapshot, now, sizes)
           c1 == Sends(mLastMemory, now, sizes)
           r1 == [type |-> "Memory", time |-> now, sizes |-> sizes]
           r2 == Snapshot(now, schedule, blocks, list, "schedule")
           c3 == Threshold > 0 /\ Combined(sizes) >= Threshold
           r3 == Snapshot(now, schedule, blocks, list, "threshold")
<1>1. /\ mLastTimestamp' = now /\ mLastSnapshot' = schedule
      /\ wrote' = When(c1, r1) \o When(sends, r2) \o When(c3, r3)
  BY DEF Growth, Written
<1>2. /\ Typed(schedule)
      /\ sends => schedule.malloc = sizes.malloc /\ schedule.pageFault = sizes.pageFault
  <2> HIDE DEF sizes
  <2>1. QED
    BY SendsItsSizes
<1>3. /\ r1.type = "Memory"
      /\ r2.sizes = [malloc |-> schedule.malloc, pageFault |-> schedule.pageFault]
      /\ r2.listed = SizesOf(SumSizes(blocks), list)
      /\ r3.cause = "threshold"
      /\ r3.sizes = [malloc |-> schedule.malloc, pageFault |-> schedule.pageFault]
  BY DEF Snapshot
<1>4. sends => \/ r2.sizes = r2.listed
               \/ twice' /\ r2.sizes.malloc >= r2.listed.malloc
  <2>1. /\ sizes.malloc = total /\ sizes.pageFault = PageSize * Len(list)
        /\ SizesOf(SumSizes(blocks), list)
             = [malloc |-> SumSizes(blocks), pageFault |-> PageSize * Len(list)]
    BY DEF SizesOf
  <2> HIDE DEF r2, schedule, sizes, sends
  <2>2. ASSUME sends
        PROVE  /\ r2.sizes = [malloc |-> total, pageFault |-> PageSize * Len(list)]
               /\ r2.listed = [malloc |-> SumSizes(blocks), pageFault |-> PageSize * Len(list)]
    BY <1>2, <1>3, <2>1, <2>2
  <2>3. QED
    BY <2>2
<1> HIDE DEF sizes, schedule, sends, c1, r1, r2, c3, r3
<1>5. ASSUME NEW i \in 1 .. Len(wrote')
      PROVE  \/ c1 /\ wrote'[i] = r1
             \/ sends /\ wrote'[i] = r2
             \/ c3 /\ wrote'[i] = r3
  <2> DEFINE R == {r \in {r1, r2, r3} : \/ c1 /\ r = r1
                                        \/ sends /\ r = r2
                                        \/ c3 /\ r = r3}
             x == When(c1, r1)
             y == When(sends, r2)
             z == When(c3, r3)
  <2>1. /\ (x = <<>> \/ (c1 /\ x = <<r1>>))
        /\ (y = <<>> \/ (sends /\ y = <<r2>>))
        /\ (z = <<>> \/ (c3 /\ z = <<r3>>))
    BY Zenon DEF When
  <2>2. wrote' = x \o y \o z
    BY <1>1, Zenon
  <2> HIDE DEF x, y, z
  <2>3. x \in Seq(R) /\ y \in Seq(R) /\ z \in Seq(R)
    <3>1. (c1 => r1 \in R) /\ (sends => r2 \in R) /\ (c3 => r3 \in R)
      OBVIOUS
    <3> HIDE DEF R
    <3>2. <<>> \in Seq(R) /\ \A r \in R : <<r>> \in Seq(R)
      OBVIOUS
    <3>3. QED
      BY <2>1, <3>1, <3>2, Zenon
  <2>4. wrote' \in Seq(R)
    <3> HIDE DEF R
    <3>1. x \o y \in Seq(R)
      BY <2>3, ConcatProperties
    <3>2. (x \o y) \o z \in Seq(R)
      BY <2>3, <3>1, ConcatProperties
    <3>3. QED
      BY <2>2, <3>2
  <2>5. wrote'[i] \in R
    <3> HIDE DEF R
    <3>1. QED
      BY <2>4
  <2>6. QED
    BY <2>5
<1>6. ASSUME NEW i \in 1 .. Len(wrote'), wrote'[i].type = "Snapshot"
      PROVE  \/ wrote'[i].sizes = wrote'[i].listed
             \/ twice' /\ wrote'[i].sizes.malloc >= wrote'[i].listed.malloc
             \/ /\ wrote'[i].cause \in {"threshold", "final"}
                /\ wrote'[i].sizes = [malloc |-> mLastSnapshot'.malloc,
                                      pageFault |-> mLastSnapshot'.pageFault]
  <2>1. CASE wrote'[i] = r1
    BY <1>3, <1>6, <2>1
  <2>2. CASE sends /\ wrote'[i] = r2
    BY <1>4, <2>2
  <2>3. CASE wrote'[i] = r3
    BY <1>1, <1>3, <2>3
  <2>4. QED
    BY <1>5, <2>1, <2>2, <2>3
<1>7. SnapshotsAddUp'
  BY <1>6 DEF SnapshotsAddUp
<1>8. QED
  BY <1>1, <1>2, <1>7

(* Recording a block keeps the total, unless its address is recorded already. *)
LEMMA MallocTotals ==
    ASSUME Totals, NEW b \in Block, NEW n \in Size, NEW now, Malloc(b, n, now)
    PROVE  /\ Totals'
           /\ SumSizes(RecordedWith(b, n)) \in Int
<1>1. /\ mallocs' = RecordedWith(b, n) /\ mallocSize' = mallocSize + n
      /\ twice' = (twice \/ \E m \in mallocs : m.addr = b)
  BY DEF Malloc, Growth
<1>2. n \in Nat
  BY MemoryAssumption DEF MemoryAssumption
<1>3. SumSizes(mallocs) \in Nat
  BY SizesRemoved DEF Totals
<1>4. CASE \E m \in mallocs : m.addr = b
  <2>1. RecordedWith(b, n) = mallocs /\ twice' = TRUE
    BY <1>1, <1>4 DEF RecordedWith
  <2>2. mallocSize + n >= SumSizes(mallocs) /\ mallocSize + n \in Int
    BY <1>2, <1>3 DEF Totals
  <2>3. mallocs' = mallocs /\ twice'
    BY <1>1, <2>1
  <2>4. Totals'
    BY <1>1, <2>2, <2>3 DEF Totals
  <2>5. QED
    BY <1>3, <2>1, <2>4
<1>5. CASE ~\E m \in mallocs : m.addr = b
  <2> DEFINE m == [addr |-> b, size |-> n]
  <2>1. RecordedWith(b, n) = mallocs \cup {m} /\ (twice => twice')
    BY <1>1, <1>5 DEF RecordedWith
  <2>2. m \in Blocks /\ m \notin mallocs /\ m.size = n
    BY <1>5 DEF Blocks
  <2> HIDE DEF m
  <2>3. /\ IsFiniteSet(mallocs \cup {m})
        /\ SumSizes(mallocs \cup {m}) = n + SumSizes(mallocs)
    BY <2>2, SizesAdded DEF Totals
  <2>4. QED
    BY <1>1, <1>2, <1>3, <2>1, <2>2, <2>3 DEF Totals
<1>6. QED
  BY <1>4, <1>5

(* Freeing takes as much from the total as from the sum. *)
LEMMA FreeTotals ==
    ASSUME Totals, NEW b, Free(b)
    PROVE  Totals'
<1> DEFINE freed == {m \in mallocs : m.addr = b}
<1>1. mallocs' = mallocs \ freed /\ mallocSize' = mallocSize - SumSizes(freed) /\ twice' = twice
  BY DEF Free, Quietly, historyVars
<1>2. freed \in SUBSET mallocs
  OBVIOUS
<1> HIDE DEF freed
<1>3. /\ IsFiniteSet(mallocs \ freed) /\ SumSizes(freed) \in Nat /\ SumSizes(mallocs \ freed) \in Nat
      /\ SumSizes(mallocs) = SumSizes(freed) + SumSizes(mallocs \ freed)
  BY <1>2, SizesRemoved DEF Totals
<1>4. QED
  BY <1>1, <1>3 DEF Totals

(* Every step keeps the total and writes snapshots that add up. *)
LEMMA NextAddsUp == AddUpInv /\ [Next]_vars => AddUpInv'
<1> SUFFICES ASSUME AddUpInv, [Next]_vars PROVE AddUpInv'
  OBVIOUS
<1>1. Typed(mLastSnapshot) /\ mLastTimestamp \in Nat /\ Totals /\ SnapshotsAddUp
  BY DEF AddUpInv
<1>2. SumSizes(mallocs) \in Nat
  BY <1>1, SizesRemoved DEF Totals
<1>3. CASE UNCHANGED vars
  BY <1>1, <1>3 DEF vars, appVars, historyVars, AddUpInv, Typed, Totals, SnapshotsAddUp
<1>4. ASSUME NEW now \in 0 .. MaxTime, NEW b \in Block, NEW n \in Size, Malloc(b, n, now)
      PROVE  AddUpInv'
  <2>1. Totals' /\ SumSizes(RecordedWith(b, n)) \in Int
    BY <1>1, <1>4, MallocTotals
  <2>2. /\ Growth(now, RecordedWith(b, n), mallocSize + n, pageFaults) /\ now \in Nat
        /\ mallocs' = RecordedWith(b, n) /\ mallocSize' = mallocSize + n
    BY <1>4 DEF Malloc, Growth
  <2>3. /\ mallocSize + n \in Int /\ mallocSize + n >= SumSizes(RecordedWith(b, n))
        /\ ~twice' => mallocSize + n = SumSizes(RecordedWith(b, n))
    BY <2>1, <2>2 DEF Totals
  <2>4. Typed(mLastSnapshot') /\ mLastTimestamp' \in Nat /\ SnapshotsAddUp'
    BY <1>1, <2>1, <2>2, <2>3, GrowthAddsUp
  <2>5. QED
    BY <2>1, <2>4 DEF AddUpInv
<1>5. ASSUME NEW now \in 0 .. MaxTime, NEW page \in 0 .. MaxPage, PageFault(page, now)
      PROVE  AddUpInv'
  <2>1. /\ Growth(now, mallocs, mallocSize, Inserted(pageFaults, page)) /\ now \in Nat
        /\ UNCHANGED <<mallocs, mallocSize, twice>>
    BY <1>5 DEF PageFault, Growth
  <2>2. /\ mallocSize \in Int /\ mallocSize >= SumSizes(mallocs)
        /\ ~twice' => mallocSize = SumSizes(mallocs)
    BY <1>1, <2>1 DEF Totals
  <2>3. Typed(mLastSnapshot') /\ mLastTimestamp' \in Nat /\ SnapshotsAddUp'
    BY <1>1, <1>2, <2>1, <2>2, GrowthAddsUp
  <2>4. Totals'
    BY <1>1, <2>1 DEF Totals
  <2>5. QED
    BY <2>3, <2>4 DEF AddUpInv
<1>6. ASSUME wrote' = <<>>
      PROVE  SnapshotsAddUp'
  BY <1>6 DEF SnapshotsAddUp
<1>7. ASSUME NEW b \in Block, Free(b)
      PROVE  AddUpInv'
  <2>1. Totals'
    BY <1>1, <1>7, FreeTotals
  <2>2. wrote' = <<>> /\ UNCHANGED <<mLastSnapshot, mLastTimestamp>>
    BY <1>7 DEF Free, Quietly
  <2>3. QED
    BY <1>1, <1>6, <2>1, <2>2 DEF AddUpInv, Typed
<1>8. ASSUME wrote' = <<>>, UNCHANGED <<mallocs, mallocSize, mLastSnapshot, mLastTimestamp, twice>>
      PROVE  AddUpInv'
  BY <1>1, <1>6, <1>8 DEF AddUpInv, Typed, Totals
<1>9. ASSUME NEW lo, NEW hi, PageRemove(lo, hi)
      PROVE  AddUpInv'
  BY <1>8, <1>9 DEF PageRemove, Quietly, historyVars
<1>10. ASSUME NEW from, NEW to, NEW len, PageRemap(from, to, len)
       PROVE  AddUpInv'
  BY <1>8, <1>10 DEF PageRemap, Quietly, historyVars
<1>11. ASSUME NEW on \in BOOLEAN, EnableSnapshots(on)
       PROVE  AddUpInv'
  <2>1. /\ mLastSnapshot' = [mLastSnapshot EXCEPT !.enabled = on]
        /\ wrote' = <<>> /\ UNCHANGED <<mallocs, mallocSize, mLastTimestamp, twice>>
    BY <1>11 DEF EnableSnapshots, Quietly, appVars, historyVars
  <2>2. Typed(mLastSnapshot')
    BY <1>1, <2>1 DEF Typed
  <2>3. QED
    BY <1>1, <1>6, <2>1, <2>2 DEF AddUpInv, Totals
<1>12. CASE SnapshotNow
  <2> DEFINE sizes == SizesOf(mallocSize, pageFaults)
             record == Snapshot(mLastTimestamp, mLastSnapshot', mallocs, pageFaults, "command")
  <2>1. /\ mLastSnapshot' = [WithSizes(mLastSnapshot, sizes) EXCEPT !.time = mLastTimestamp]
        /\ wrote' = <<record>>
        /\ UNCHANGED <<mallocs, mallocSize, mLastTimestamp, twice>>
    BY <1>12 DEF SnapshotNow, appVars, historyVars
  <2> HIDE DEF sizes
  <2>2. /\ Typed(mLastSnapshot')
        /\ mLastSnapshot'.malloc = sizes.malloc /\ mLastSnapshot'.pageFault = sizes.pageFault
    BY <1>1, <2>1 DEF Typed, WithSizes
  <2>3. /\ record.sizes = [malloc |-> mallocSize, pageFault |-> PageSize * Len(pageFaults)]
        /\ record.listed = [malloc |-> SumSizes(mallocs), pageFault |-> PageSize * Len(pageFaults)]
    BY <2>2 DEF Snapshot, SizesOf, sizes
  <2> HIDE DEF record
  <2>4. \/ record.sizes = record.listed
        \/ twice' /\ record.sizes.malloc >= record.listed.malloc
    BY <1>1, <2>1, <2>3 DEF Totals
  <2>5. SnapshotsAddUp'
    BY <2>1, <2>4 DEF SnapshotsAddUp
  <2>6. QED
    BY <1>1, <2>1, <2>2, <2>5 DEF AddUpInv, Totals
<1>13. CASE FinalSnapshot
  <2> DEFINE record == Snapshot(mLastTimestamp, mLastSnapshot, mallocs, pageFaults, "final")
  <2>1. /\ wrote' = <<record>> \/ wrote' = <<>>
        /\ UNCHANGED <<mallocs, mallocSize, mLastSnapshot, mLastTimestamp, twice>>
    BY <1>13 DEF FinalSnapshot, When, appVars, historyVars
  <2>2. /\ record.cause = "final"
        /\ record.sizes = [malloc |-> mLastSnapshot.malloc, pageFault |-> mLastSnapshot.pageFault]
    BY DEF Snapshot
  <2> HIDE DEF record
  <2>3. SnapshotsAddUp'
    BY <1>6, <2>1, <2>2 DEF SnapshotsAddUp
  <2>4. QED
    BY <1>1, <2>1, <2>3 DEF AddUpInv, Totals, Typed
<1>14. QED
  BY <1>3, <1>4, <1>5, <1>7, <1>9, <1>10, <1>11, <1>12, <1>13 DEF Next, parsePacket

(* Every snapshot that the schedule or a command writes shows the sizes of
   what it lists, however the records before it were spread over the schedule;
   a block recorded twice makes it show more, never less; and the snapshots at
   the threshold and at the end show what the schedule has kept. *)
THEOREM SnapshotsAlwaysAddUp == Spec => []SnapshotsAddUp
<1>1. AddUpInv => SnapshotsAddUp
  BY DEF AddUpInv
<1>2. QED
  BY <1>1, InitAddsUp, NextAddsUp, PTL DEF Spec

-----------------------------------------------------------------------------
(* The list of page faults *)

\* The pages in a list.
Pages(list) == {list[i] : i \in 1 .. Len(list)}

\* Any entry is below any later one, not only the next.
Increasing(list) ==
    /\ list \in Seq(Int)
    /\ \A i, j \in 1 .. Len(list) : i < j => list[i] < list[j]

(* Two lists in order, the second above the first, are in order one after the
   other. *)
LEMMA ConcatIncreasing ==
    ASSUME NEW a, NEW b, Increasing(a), Increasing(b),
           \A x \in Pages(a), y \in Pages(b) : x < y
    PROVE  Increasing(a \o b) /\ Pages(a \o b) = Pages(a) \cup Pages(b)
<1> DEFINE c == a \o b
<1>1. /\ c \in Seq(Int) /\ Len(c) = Len(a) + Len(b)
      /\ \A i \in 1 .. Len(c) : c[i] = IF i <= Len(a) THEN a[i] ELSE b[i - Len(a)]
      /\ a \in Seq(Int) /\ b \in Seq(Int) /\ Len(a) \in Nat /\ Len(b) \in Nat
  BY ConcatProperties, LenProperties DEF Increasing
<1> HIDE DEF c
<1>2. ASSUME NEW i \in 1 .. Len(c), NEW j \in 1 .. Len(c), i < j
      PROVE  c[i] < c[j]
  <2>1. CASE j <= Len(a)
    <3>1. i \in 1 .. Len(a) /\ j \in 1 .. Len(a) /\ c[i] = a[i] /\ c[j] = a[j]
      BY <1>1, <1>2, <2>1, SMTT(40)
    <3>2. QED
      BY <1>2, <3>1 DEF Increasing
  <2>2. CASE i > Len(a)
    <3>1. /\ i - Len(a) \in 1 .. Len(b) /\ j - Len(a) \in 1 .. Len(b)
          /\ i - Len(a) < j - Len(a)
          /\ c[i] = b[i - Len(a)] /\ c[j] = b[j - Len(a)]
      BY <1>1, <1>2, <2>2, SMTT(40)
    <3>2. QED
      BY <3>1 DEF Increasing
  <2>3. CASE i <= Len(a) /\ j > Len(a)
    <3>1. /\ i \in 1 .. Len(a) /\ j - Len(a) \in 1 .. Len(b)
          /\ c[i] = a[i] /\ c[j] = b[j - Len(a)]
      <4>1. i \in 1 .. Len(a)
        BY <1>1, <2>3
      <4>2. c[i] = a[i]
        BY <1>1, <2>3
      <4>3. ~(j <= Len(a)) /\ j - Len(a) \in 1 .. Len(b)
        BY <1>1, <2>3
      <4>4. QED
        BY <1>1, <4>1, <4>2, <4>3
    <3>2. a[i] \in Pages(a) /\ b[j - Len(a)] \in Pages(b)
      BY <3>1 DEF Pages
    <3>3. QED
      BY <3>1, <3>2
  <2>4. QED
    BY <1>1, <2>1, <2>2, <2>3
<1>3. ASSUME NEW i \in 1 .. Len(c)
      PROVE  c[i] \in Pages(a) \cup Pages(b)
  <2>1. CASE i <= Len(a)
    BY <1>1, <2>1 DEF Pages
  <2>2. CASE ~(i <= Len(a))
    <3>1. i - Len(a) \in 1 .. Len(b) /\ c[i] = b[i - Len(a)]
      BY <1>1, <2>2
    <3>2. QED
      BY <3>1 DEF Pages
  <2>3. QED
    BY <2>1, <2>2
<1>4. ASSUME NEW i \in 1 .. Len(a)
      PROVE  a[i] \in Pages(c)
  <2>1. i \in 1 .. Len(c) /\ c[i] = a[i]
    BY <1>1
  <2>2. QED
    BY <2>1 DEF Pages
<1>5. ASSUME NEW i \in 1 .. Len(b)
      PROVE  b[i] \in Pages(c)
  <2>1. PICK k : k = i + Len(a)
    OBVIOUS
  <2>2. k \in 1 .. Len(c) /\ ~(k <= Len(a)) /\ k - Len(a) = i
    BY <1>1, <2>1, SMTT(40)
  <2>3. c[k] = b[i]
    BY <1>1, <2>2
  <2>4. QED
    BY <2>2, <2>3 DEF Pages
<1>6. Pages(c) = Pages(a) \cup Pages(b)
  <2>1. ASSUME NEW x \in Pages(c)
        PROVE  x \in Pages(a) \cup Pages(b)
    <3>1. PICK i \in 1 .. Len(c) : x = c[i]
      BY DEF Pages
    <3>2. QED
      BY <1>3, <3>1
  <2>2. Pages(a) \subseteq Pages(c) /\ Pages(b) \subseteq Pages(c)
    <3>1. ASSUME NEW x \in Pages(a)
          PROVE  x \in Pages(c)
      <4>1. PICK i \in 1 .. Len(a) : x = a[i]
        BY DEF Pages
      <4>2. QED
        BY <1>4, <4>1
    <3>2. ASSUME NEW x \in Pages(b)
          PROVE  x \in Pages(c)
      <4>1. PICK i \in 1 .. Len(b) : x = b[i]
        BY DEF Pages
      <4>2. QED
        BY <1>5, <4>1
    <3>3. QED
      BY <3>1, <3>2
  <2>3. QED
    BY <2>1, <2>2
<1>7. QED
  BY <1>1, <1>2, <1>6 DEF Increasing, c

(* A part of a list in order is in order. *)
LEMMA PartIncreasing ==
    ASSUME NEW list, Increasing(list), NEW m \in Nat, NEW n \in Nat, m >= 1, n <= Len(list)
    PROVE  /\ Increasing(SubSeq(list, m, n))
           /\ Pages(SubSeq(list, m, n)) = {list[i] : i \in m .. n}
<1> DEFINE s == SubSeq(list, m, n)
<1>1. list \in Seq(Int) /\ Len(list) \in Nat
  BY LenProperties DEF Increasing
<1>2. \A i \in m .. n : list[i] \in Int
  BY <1>1
<1>3. /\ s \in Seq(Int) /\ Len(s) = IF m <= n THEN n - m + 1 ELSE 0
      /\ \A i \in 1 .. n - m + 1 : s[i] = list[m + i - 1]
  BY <1>2, SubSeqProperties
<1> HIDE DEF s
<1>4. \A i \in 1 .. Len(s) : s[i] = list[m + i - 1] /\ m + i - 1 \in m .. n /\ m + i - 1 \in 1 .. Len(list)
  BY <1>1, <1>3
<1>5. ASSUME NEW i \in 1 .. Len(s), NEW j \in 1 .. Len(s), i < j
      PROVE  s[i] < s[j]
  <2>1. m + i - 1 < m + j - 1
    BY <1>5
  <2>2. QED
    BY <1>4, <2>1 DEF Increasing
<1>6. ASSUME NEW i \in m .. n
      PROVE  \E k \in 1 .. Len(s) : list[i] = s[k]
  <2>1. i - m + 1 \in 1 .. Len(s) /\ m + (i - m + 1) - 1 = i
    BY <1>3
  <2>2. s[i - m + 1] = list[i]
    BY <1>4, <2>1
  <2>3. QED
    BY <2>1, <2>2
<1>7. Pages(s) = {list[i] : i \in m .. n}
  <2>1. Pages(s) \subseteq {list[i] : i \in m .. n}
    BY <1>4 DEF Pages
  <2>2. {list[i] : i \in m .. n} \subseteq Pages(s)
    BY <1>6 DEF Pages
  <2>3. QED
    BY <2>1, <2>2
<1>8. QED
  BY <1>3, <1>5, <1>7 DEF Increasing, s

(* The least element of a set of natural numbers. *)
LEMMA MinIs ==
    ASSUME NEW S \in SUBSET Nat, S # {}
    PROVE  Min(S) \in S /\ \A n \in S : Min(S) <= n
BY LeastNumber DEF Min

(* lower_bound divides a list in order. *)
LEMMA LowerBoundIs ==
    ASSUME NEW list, Increasing(list), NEW page \in Int
    PROVE  /\ LowerBound(list, page) \in 1 .. Len(list) + 1 /\ Len(list) \in Nat
           /\ \A j \in 1 .. LowerBound(list, page) - 1 : list[j] < page
           /\ \A j \in LowerBound(list, page) .. Len(list) : page <= list[j]
<1> DEFINE S == {i \in 1 .. Len(list) + 1 : i <= Len(list) => page <= list[i]}
<1>1. list \in Seq(Int) /\ Len(list) \in Nat
  BY LenProperties DEF Increasing
<1>2. S \in SUBSET Nat /\ Len(list) + 1 \in S
  BY <1>1
<1>3. PICK i : i = Min(S)
  OBVIOUS
<1>4. i \in S /\ \A n \in S : i <= n
  <2> HIDE DEF S
  <2>1. QED
    BY <1>2, <1>3, MinIs
<1>5. LowerBound(list, page) = i
  BY <1>3 DEF LowerBound
<1>6. ASSUME NEW j \in 1 .. i - 1
      PROVE  list[j] < page
  <2>1. j \notin S /\ j \in 1 .. Len(list)
    BY <1>1, <1>4
  <2>2. list[j] \in Int /\ ~(page <= list[j])
    BY <1>1, <2>1
  <2>3. QED
    BY <2>2
<1>7. ASSUME NEW j \in i .. Len(list)
      PROVE  page <= list[j]
  <2>1. i \in 1 .. Len(list) /\ page <= list[i] /\ j \in 1 .. Len(list)
    BY <1>1, <1>4
  <2>2. list[i] \in Int /\ list[j] \in Int
    BY <1>1, <2>1
  <2>3. j = i \/ list[i] < list[j]
    BY <2>1 DEF Increasing
  <2>4. QED
    BY <2>1, <2>2, <2>3
<1>8. QED
  BY <1>1, <1>4, <1>5, <1>6, <1>7

(* The run of entries from lo on that are below hi. *)
LEMMA RunEndIs ==
    ASSUME NEW list, Increasing(list), NEW lo \in Int, NEW hi \in Int
    PROVE  /\ RunEnd(list, lo, hi) \in LowerBound(list, lo) - 1 .. Len(list)
           /\ \A j \in LowerBound(list, lo) .. RunEnd(list, lo, hi) : list[j] < hi
           /\ \A j \in RunEnd(list, lo, hi) + 1 .. Len(list) : list[j] >= hi
<1> DEFINE first == LowerBound(list, lo)
           S == {l \in first - 1 .. Len(list) : l < Len(list) => list[l + 1] >= hi}
<1>1. list \in Seq(Int) /\ Len(list) \in Nat /\ first \in 1 .. Len(list) + 1
  BY LowerBoundIs DEF Increasing
<1> HIDE DEF first
<1>2. S \in SUBSET Nat /\ Len(list) \in S
  BY <1>1
<1>3. PICK l : l = Min(S)
  OBVIOUS
<1>4. l \in S /\ \A n \in S : l <= n
  <2> HIDE DEF S
  <2>1. S # {}
    BY <1>2
  <2>2. QED
    BY <1>2, <1>3, <2>1, MinIs
<1>5. RunEnd(list, lo, hi) = l
  BY <1>3 DEF RunEnd, first
<1>6. ASSUME NEW j \in first .. l
      PROVE  list[j] < hi
  <2>1. j - 1 \notin S /\ j - 1 \in first - 1 .. Len(list) /\ j \in 1 .. Len(list)
    <3>1. l \in first - 1 .. Len(list)
      BY <1>4
    <3>2. j - 1 \in first - 1 .. Len(list) /\ j \in 1 .. Len(list) /\ ~(l <= j - 1)
      BY <1>1, <3>1
    <3> HIDE DEF S
    <3>3. QED
      BY <1>4, <3>2
  <2>2. list[j] \in Int /\ ~(list[(j - 1) + 1] >= hi)
    BY <1>1, <2>1
  <2>3. QED
    BY <2>2
<1>7. ASSUME NEW j \in l + 1 .. Len(list)
      PROVE  list[j] >= hi
  <2>1. l + 1 \in 1 .. Len(list) /\ list[l + 1] >= hi /\ j \in 1 .. Len(list)
    BY <1>1, <1>4
  <2>2. list[l + 1] \in Int /\ list[j] \in Int
    BY <1>1, <2>1
  <2>3. j = l + 1 \/ list[l + 1] < list[j]
    BY <2>1 DEF Increasing
  <2>4. QED
    BY <2>1, <2>2, <2>3
<1>8. QED
  BY <1>1, <1>4, <1>5, <1>6, <1>7 DEF first

(* What is in a list in order before a place, in a run and after it. *)
LEMMA PagesApart ==
    ASSUME NEW list, Increasing(list), NEW lo \in Int, NEW hi \in Int, lo <= hi
    PROVE  LET a == SubSeq(list, 1, LowerBound(list, lo) - 1)
               b == SubSeq(list, LowerBound(list, lo), RunEnd(list, lo, hi))
               c == SubSeq(list, RunEnd(list, lo, hi) + 1, Len(list))
           IN  /\ Increasing(a) /\ Increasing(b) /\ Increasing(c)
               /\ Pages(a) \cup Pages(b) \cup Pages(c) = Pages(list)
               /\ Pages(list) \subseteq Int
               /\ \A x \in Pages(a) : x < lo
               /\ \A x \in Pages(b) : lo <= x /\ x < hi
               /\ \A x \in Pages(c) : hi <= x
<1> DEFINE f == LowerBound(list, lo)
           l == RunEnd(list, lo, hi)
           a == SubSeq(list, 1, f - 1)
           b == SubSeq(list, f, l)
           c == SubSeq(list, l + 1, Len(list))
<1>1. /\ f \in 1 .. Len(list) + 1 /\ Len(list) \in Nat
      /\ \A j \in 1 .. f - 1 : list[j] < lo
      /\ \A j \in f .. Len(list) : lo <= list[j]
  BY LowerBoundIs
<1>2. /\ l \in f - 1 .. Len(list)
      /\ \A j \in f .. l : list[j] < hi
      /\ \A j \in l + 1 .. Len(list) : list[j] >= hi
  BY RunEndIs
<1> HIDE DEF f, l
<1>3. /\ f \in Nat /\ f - 1 \in Nat /\ l \in Nat /\ l + 1 \in Nat
      /\ f >= 1 /\ f - 1 <= Len(list) /\ l <= Len(list) /\ l + 1 >= 1
  BY <1>1, <1>2
<1>4. /\ Increasing(a) /\ Pages(a) = {list[i] : i \in 1 .. f - 1}
      /\ Increasing(b) /\ Pages(b) = {list[i] : i \in f .. l}
      /\ Increasing(c) /\ Pages(c) = {list[i] : i \in l + 1 .. Len(list)}
  BY <1>1, <1>3, PartIncreasing, SMTT(40)
<1>5. 1 .. Len(list) = (1 .. f - 1) \cup (f .. l) \cup (l + 1 .. Len(list))
  BY <1>1, <1>2, <1>3
<1> HIDE DEF a, b, c
<1>6. Pages(a) \cup Pages(b) \cup Pages(c) = Pages(list)
  BY <1>4, <1>5, Zenon DEF Pages
<1>7. Pages(list) \subseteq Int
  BY DEF Pages, Increasing
<1>8. \A x \in Pages(a) : x < lo
  BY <1>1, <1>4, Zenon
<1>9. \A x \in Pages(b) : lo <= x /\ x < hi
  <2>1. \A j \in f .. l : j \in f .. Len(list)
    BY <1>1, <1>2, <1>3
  <2>2. QED
    BY <1>1, <1>2, <1>4, <2>1, Zenon
<1>10. \A x \in Pages(c) : hi <= x
  <2>1. \A j \in l + 1 .. Len(list) : list[j] \in Int /\ hi <= list[j]
    BY <1>1, <1>2, <1>3 DEF Increasing
  <2>2. QED
    BY <1>4, <2>1, Zenon
<1>11. QED
  BY <1>4, <1>6, <1>7, <1>8, <1>9, <1>10 DEF a, b, c, f, l

(* Taking out a range leaves the pages outside it, and takes those inside. *)
LEMMA RemovedIs ==
    ASSUME NEW list, Increasing(list), NEW lo \in Int, NEW hi \in Int, lo <= hi
    PROVE  LET b == SubSeq(list, LowerBound(list, lo), RunEnd(list, lo, hi))
               r == removePageFaults(list, lo, hi)
           IN  /\ Increasing(r) /\ Pages(r) = Pages(list) \ (lo .. hi - 1)
               /\ Increasing(b) /\ Pages(b) = Pages(list) \cap lo .. hi - 1
<1> DEFINE a == SubSeq(list, 1, LowerBound(list, lo) - 1)
           b == SubSeq(list, LowerBound(list, lo), RunEnd(list, lo, hi))
           c == SubSeq(list, RunEnd(list, lo, hi) + 1, Len(list))
<1>1. removePageFaults(list, lo, hi) = a \o c
  BY DEF removePageFaults
<1>2. /\ Increasing(a) /\ Increasing(b) /\ Increasing(c)
      /\ Pages(a) \cup Pages(b) \cup Pages(c) = Pages(list)
      /\ Pages(list) \subseteq Int
      /\ \A x \in Pages(a) : x < lo
      /\ \A x \in Pages(b) : lo <= x /\ x < hi
      /\ \A x \in Pages(c) : hi <= x
  BY PagesApart
<1> HIDE DEF a, b, c
<1>3. \A x \in Pages(a), y \in Pages(c) : x < y
  BY <1>2
<1>4. Increasing(a \o c) /\ Pages(a \o c) = Pages(a) \cup Pages(c)
  BY <1>2, <1>3, ConcatIncreasing
<1>5. \A x \in Pages(list) : x \in lo .. hi - 1 <=> lo <= x /\ x < hi
  BY <1>2
<1>6. /\ \A x \in Pages(a) : x \in Pages(list) /\ x \notin lo .. hi - 1
      /\ \A x \in Pages(c) : x \in Pages(list) /\ x \notin lo .. hi - 1
      /\ \A x \in Pages(b) : x \in Pages(list) /\ x \in lo .. hi - 1
  BY <1>2
<1>7. /\ Pages(a) \cup Pages(c) = Pages(list) \ (lo .. hi - 1)
      /\ Pages(b) = Pages(list) \cap lo .. hi - 1
  BY <1>2, <1>6, Zenon
<1>8. QED
  BY <1>1, <1>2, <1>4, <1>7 DEF b

(* The list of one page. *)
LEMMA OneIncreasing ==
    ASSUME NEW page \in Int
    PROVE  Increasing(<<page>>) /\ Pages(<<page>>) = {page}
<1>1. Len(<<page>>) = 1 /\ <<page>>[1] = page /\ <<page>> \in Seq(Int)
  OBVIOUS
<1>2. QED
  BY <1>1 DEF Increasing, Pages

(* Putting in a page that may be there already. *)
LEMMA InsertedIs ==
    ASSUME NEW list, Increasing(list), NEW page \in Int
    PROVE  Increasing(Inserted(list, page)) /\ Pages(Inserted(list, page)) = Pages(list) \cup {page}
<1> DEFINE i == LowerBound(list, page)
           a == SubSeq(list, 1, i - 1)
           c == SubSeq(list, i, Len(list))
<1>1. /\ i \in 1 .. Len(list) + 1 /\ Len(list) \in Nat
      /\ \A j \in 1 .. i - 1 : list[j] < page
      /\ \A j \in i .. Len(list) : page <= list[j]
      /\ list \in Seq(Int)
  BY LowerBoundIs DEF Increasing
<1>2. Inserted(list, page) = IF i <= Len(list) /\ list[i] = page THEN list ELSE a \o <<page>> \o c
  BY DEF Inserted
<1> HIDE DEF i
<1>3. CASE i <= Len(list) /\ list[i] = page
  <2>1. i \in 1 .. Len(list)
    BY <1>1, <1>3
  <2>2. page \in Pages(list)
    BY <1>3, <2>1 DEF Pages
  <2>3. QED
    BY <1>2, <1>3, <2>2
<1>4. CASE ~(i <= Len(list) /\ list[i] = page)
  <2>1. i \in Nat /\ i - 1 \in Nat /\ i >= 1 /\ i - 1 <= Len(list)
    BY <1>1
  <2>2. /\ Increasing(a) /\ Pages(a) = {list[j] : j \in 1 .. i - 1}
        /\ Increasing(c) /\ Pages(c) = {list[j] : j \in i .. Len(list)}
    BY <1>1, <2>1, PartIncreasing
  <2> HIDE DEF a, c
  <2>3. \A j \in i .. Len(list) : page < list[j]
    <3>1. ASSUME NEW j \in i .. Len(list)
          PROVE  page < list[j]
      <4>1. /\ i \in 1 .. Len(list) /\ j \in 1 .. Len(list)
            /\ list[i] \in Int /\ list[j] \in Int /\ list[i] # page /\ page <= list[i]
        BY <1>1, <1>4
      <4>2. j = i \/ list[i] < list[j]
        BY <4>1 DEF Increasing
      <4>3. QED
        BY <4>1, <4>2
    <3>2. QED
      BY <3>1
  <2>4. 1 .. Len(list) = (1 .. i - 1) \cup (i .. Len(list))
    BY <1>1, <2>1
  <2>5. Pages(list) = Pages(a) \cup Pages(c)
    BY <2>2, <2>4, Zenon DEF Pages
  <2>6. Increasing(<<page>>) /\ Pages(<<page>>) = {page}
    BY OneIncreasing
  <2>7. \A x \in Pages(a) : x < page
    BY <1>1, <2>2, Zenon
  <2>8. \A y \in Pages(c) : page < y
    BY <2>2, <2>3, Zenon
  <2>9. Increasing(a \o <<page>>) /\ Pages(a \o <<page>>) = Pages(a) \cup {page}
    BY <2>2, <2>6, <2>7, ConcatIncreasing
  <2>10. \A x \in Pages(a) \cup {page}, y \in Pages(c) : x < y
    <3>1. Pages(a) \subseteq Int /\ Pages(c) \subseteq Int
      BY <2>2 DEF Pages, Increasing
    <3>2. QED
      BY <2>7, <2>8, <3>1
  <2>11. /\ Increasing((a \o <<page>>) \o c)
         /\ Pages((a \o <<page>>) \o c) = Pages(a) \cup {page} \cup Pages(c)
    BY <2>2, <2>9, <2>10, ConcatIncreasing
  <2>12. Inserted(list, page) = (a \o <<page>>) \o c
    BY <1>2, <1>4
  <2>13. QED
    BY <2>5, <2>11, <2>12
<1>5. QED
  BY <1>3, <1>4

-----------------------------------------------------------------------------
(* Putting the pages of a range back *)

\* g puts the pages removed[i] of every set of places i into list, moved.
Puts(list, removed, from, to, T, g) ==
    g = [s \in SUBSET T |-> IF s = {} THEN list
                            ELSE Inserted(g[s \ {Pick(s)}], removed[Pick(s)] - from + to)]

(* The recursive definition of Puts defines a function. *)
LEMMA PutsExist ==
    ASSUME NEW list, NEW removed, NEW from, NEW to, NEW T, IsFiniteSet(T)
    PROVE  \E g : Puts(list, removed, from, to, T, g)
<1> DEFINE Put(s, h) == IF s = {} THEN list
                        ELSE Inserted(h[s \ {Pick(s)}], removed[Pick(s)] - from + to)
           Small(n) == {s \in SUBSET T : Cardinality(s) <= n}
           Upto(n, g) == g = [s \in Small(n) |-> Put(s, g)]
           Bad == {n \in Nat : ~ \E g : Upto(n, g)}
<1>1. \A s \in SUBSET T : IsFiniteSet(s) /\ Cardinality(s) \in Nat
  BY FS_Subset, FS_CardinalityType
<1>2. /\ \A h : Put({}, h) = list
      /\ \A s, h, k : h[s \ {Pick(s)}] = k[s \ {Pick(s)}] => Put(s, h) = Put(s, k)
  OBVIOUS
<1> HIDE DEF Put
<1>3. \A n \in Nat : \E g : Upto(n, g)
  <2>1. SUFFICES ASSUME Bad # {}
                 PROVE  FALSE
    OBVIOUS
  <2>2. PICK m \in Bad : \A n \in Bad : m <= n
    <3> HIDE DEF Bad
    <3>1. Bad \in SUBSET Nat
      BY DEF Bad
    <3>2. QED
      BY <2>1, <3>1, LeastNumber
  <2>3. CASE m = 0
    <3>1. \A s \in Small(0) : s = {}
      BY <1>1, FS_EmptySet
    <3>2. Upto(0, [s \in Small(0) |-> list])
      BY <1>2, <3>1
    <3>3. QED
      BY <2>2, <2>3, <3>2
  <2>4. CASE m # 0
    <3>1. m \in Nat /\ m - 1 \in Nat /\ ~(m <= m - 1)
      BY <2>4
    <3>2. PICK h : Upto(m - 1, h)
      BY <2>2, <3>1
    <3> DEFINE g == [s \in Small(m) |-> Put(s, h)]
    <3>3. \A s \in Small(m - 1) : g[s] = h[s] /\ s \in Small(m)
      <4>1. ASSUME NEW s \in Small(m - 1)
            PROVE  s \in Small(m)
        BY <1>1, <3>1
      <4>2. ASSUME NEW s \in Small(m - 1)
            PROVE  h[s] = Put(s, h)
        BY <3>2
      <4> HIDE DEF Small
      <4>3. QED
        BY <4>1, <4>2
    <3>4. \A s \in Small(m) : s # {} => s \ {Pick(s)} \in Small(m - 1)
      BY <1>1, <3>1, Picked
    <3>5. Upto(m, g)
      <4> HIDE DEF Small
      <4>1. \A s \in Small(m) : s # {} => h[s \ {Pick(s)}] = g[s \ {Pick(s)}]
        BY <3>3, <3>4
      <4>2. \A s \in Small(m) : Put(s, h) = Put(s, g)
        <5> HIDE DEF g
        <5>1. QED
          BY <1>2, <4>1
      <4>3. QED
        BY <4>2
    <3>6. QED
      BY <2>2, <3>5
  <2>5. QED
    BY <2>3, <2>4
<1>4. Small(Cardinality(T)) = SUBSET T
  <2>1. \A s \in SUBSET T : Cardinality(s) <= Cardinality(T)
    BY FS_Subset
  <2>2. QED
    BY <2>1
<1>5. PICK g : Upto(Cardinality(T), g)
  BY <1>1, <1>3
<1>6. Puts(list, removed, from, to, T, g)
  BY <1>4, <1>5 DEF Puts, Put
<1>7. QED
  BY <1>6

\* What is in the list after the pages of s are back.
PutBack(list, removed, from, to, s) == Pages(list) \cup {removed[i] - from + to : i \in s}

(* Whatever the order in which they go back, the list stays in order and has
   each page it had and each of those, moved. *)
LEMMA PutsIs ==
    ASSUME NEW list, Increasing(list), NEW from \in Int, NEW to \in Int,
           NEW T, IsFiniteSet(T), NEW removed, \A i \in T : removed[i] \in Int,
           NEW g, Puts(list, removed, from, to, T, g)
    PROVE  Increasing(g[T]) /\ Pages(g[T]) = PutBack(list, removed, from, to, T)
<1>0. \A s \in SUBSET T :
          /\ s = {} => g[s] = list
          /\ s # {} => g[s] = Inserted(g[s \ {Pick(s)}], removed[Pick(s)] - from + to)
  BY DEF Puts
<1> DEFINE Good(t) == Increasing(g[t]) /\ Pages(g[t]) = PutBack(list, removed, from, to, t)
           Bad == {n \in Nat : \E t \in SUBSET T : Cardinality(t) = n /\ ~Good(t)}
<1>1. \A t \in SUBSET T : IsFiniteSet(t) /\ Cardinality(t) \in Nat
  BY FS_Subset, FS_CardinalityType
<1>2. Bad = {}
  <2>1. SUFFICES ASSUME Bad # {}
                 PROVE  FALSE
    OBVIOUS
  <2>2. PICK m \in Bad : \A n \in Bad : m <= n
    <3>1. Bad \in SUBSET Nat
      OBVIOUS
    <3> HIDE DEF Bad
    <3>2. QED
      BY <2>1, <3>1, LeastNumber
  <2>3. PICK t \in SUBSET T : Cardinality(t) = m /\ ~Good(t)
    OBVIOUS
  <2>4. t # {}
    <3>1. g[{}] = list
      BY <1>0
    <3>2. Good({})
      BY <3>1 DEF PutBack
    <3>3. QED
      BY <2>3, <3>2
  <2> DEFINE u == t \ {Pick(t)}
             page == removed[Pick(t)] - from + to
  <2>5. g[t] = Inserted(g[u], page)
    BY <1>0, <2>4
  <2>6. /\ Pick(t) \in t /\ u \in SUBSET T
        /\ m \in Nat /\ Cardinality(u) = m - 1
    BY <1>1, <2>3, <2>4, Picked
  <2>7. Good(u)
    <3>1. m - 1 \notin Bad
      BY <2>2, <2>6
    <3>2. m - 1 \in Nat
      BY <1>1, <2>6
    <3> HIDE DEF Good, u
    <3>3. QED
      BY <2>6, <3>1, <3>2
  <2>8. page \in Int
    BY <2>6
  <2>9. Increasing(g[t]) /\ Pages(g[t]) = Pages(g[u]) \cup {page}
    <3> HIDE DEF page, u
    <3>1. QED
      BY <2>5, <2>7, <2>8, InsertedIs
  <2>10. PutBack(list, removed, from, to, u) \cup {page} = PutBack(list, removed, from, to, t)
    BY <2>6 DEF PutBack
  <2>11. QED
    BY <2>3, <2>7, <2>9, <2>10
<1>3. QED
  BY <1>1, <1>2

(* A range moves as the set of its pages does; a page that is at the target
   already is there once. *)
LEMMA RemappedIs ==
    ASSUME NEW list, Increasing(list), NEW from \in Int, NEW to \in Int, NEW len \in Nat
    PROVE  LET r      == remapPageFaults(list, from, to, len)
               inside == Pages(list) \cap from .. from + len - 1
           IN  /\ Increasing(r)
               /\ Pages(r) = (Pages(list) \ inside) \cup {page - from + to : page \in inside}
<1> DEFINE removed == SubSeq(list, LowerBound(list, from), RunEnd(list, from, from + len))
           rest == removePageFaults(list, from, from + len)
           range == from .. from + len - 1
           T == 1 .. Len(removed)
           P(g) == g = [s \in SUBSET T |->
                          IF s = {} THEN rest
                          ELSE Inserted(g[s \ {CHOOSE x \in s : TRUE}],
                                        removed[CHOOSE x \in s : TRUE] - from + to)]
<1>1. /\ Increasing(rest) /\ Pages(rest) = Pages(list) \ range
      /\ Increasing(removed) /\ Pages(removed) = Pages(list) \cap range
  <2>1. from + len \in Int /\ from <= from + len
    OBVIOUS
  <2>2. QED
    BY <2>1, RemovedIs
<1> HIDE DEF removed, rest
<1>2. removed \in Seq(Int) /\ Len(removed) \in Nat /\ DOMAIN removed = T
  BY <1>1, LenProperties DEF Increasing
<1>3. remapPageFaults(list, from, to, len) = (CHOOSE g : P(g))[T]
  <2>1. remapPageFaults(list, from, to, len)
          = (CHOOSE g : g = [s \in SUBSET DOMAIN removed |->
                          IF s = {} THEN rest
                          ELSE Inserted(g[s \ {CHOOSE x \in s : TRUE}],
                                        removed[CHOOSE x \in s : TRUE] - from + to)])[DOMAIN removed]
    BY DEF remapPageFaults, FoldFunction, FoldFunctionOnSet, MapThenFoldSet, removed, rest
  <2>2. QED
    BY <1>2, <2>1
<1>4. ASSUME NEW g
      PROVE  Puts(rest, removed, from, to, T, g) <=> P(g)
  BY DEF Puts, Pick
<1>5. IsFiniteSet(T)
  BY <1>2, FS_Interval
<1>6. PICK g : Puts(rest, removed, from, to, T, g)
  BY <1>5, PutsExist
<1> DEFINE h == CHOOSE h : P(h)
<1>7. Puts(rest, removed, from, to, T, h)
  <2>1. P(g)
    BY <1>4, <1>6
  <2> HIDE DEF P
  <2>2. P(h)
    BY <2>1
  <2>3. QED
    BY <1>4, <2>2
<1>8. \A i \in T : removed[i] \in Int
  BY <1>2
<1>9. remapPageFaults(list, from, to, len) = h[T]
  BY <1>3
<1> HIDE DEF h, T
<1>10. Increasing(h[T]) /\ Pages(h[T]) = PutBack(rest, removed, from, to, T)
  BY <1>1, <1>5, <1>7, <1>8, PutsIs
<1>11. {removed[i] - from + to : i \in T} = {page - from + to : page \in Pages(removed)}
  <2>1. Pages(removed) = {removed[i] : i \in T}
    BY DEF Pages, T
  <2>2. QED
    BY <2>1
<1>12. QED
  BY <1>1, <1>9, <1>10, <1>11 DEF PutBack

\* The invariant: ListIsPageSet, with the order of any two entries.
ListInv == Increasing(pageFaults) /\ Pages(pageFaults) = faulted

(* At the start there is no page. *)
LEMMA InitList == Init => ListInv
<1>1. Init => pageFaults = <<>> /\ faulted = {}
  BY DEF Init
<1>2. Increasing(<<>>) /\ Pages(<<>>) = {}
  BY DEF Increasing, Pages
<1>3. QED
  BY <1>1, <1>2 DEF ListInv

(* Every step does to the list what it does to the set. *)
LEMMA NextList == ListInv /\ [Next]_vars => ListInv'
<1> SUFFICES ASSUME ListInv, [Next]_vars PROVE ListInv'
  OBVIOUS
<1>1. Increasing(pageFaults) /\ Pages(pageFaults) = faulted
  BY DEF ListInv
<1>2. ASSUME NEW list, pageFaults' = list, Increasing(list), Pages(list) = faulted'
      PROVE  ListInv'
  BY <1>2 DEF ListInv, Increasing, Pages
<1>3. CASE UNCHANGED <<pageFaults, faulted>>
  BY <1>1, <1>2, <1>3
<1>4. ASSUME NEW now \in 0 .. MaxTime, NEW b \in Block, NEW n \in Size, Malloc(b, n, now)
      PROVE  UNCHANGED <<pageFaults, faulted>>
  BY <1>4 DEF Malloc, Growth
<1>5. ASSUME NEW now \in 0 .. MaxTime, NEW page \in 0 .. MaxPage, PageFault(page, now)
      PROVE  ListInv'
  <2>1. pageFaults' = Inserted(pageFaults, page) /\ faulted' = faulted \cup {page}
    BY <1>5 DEF PageFault, Growth
  <2>2. page \in Int
    OBVIOUS
  <2>3. QED
    BY <1>1, <1>2, <2>1, <2>2, InsertedIs
<1>6. ASSUME NEW lo \in 0 .. MaxPage + 1, NEW hi \in 0 .. MaxPage + 1, lo < hi, PageRemove(lo, hi)
      PROVE  ListInv'
  <2>1. pageFaults' = removePageFaults(pageFaults, lo, hi) /\ faulted' = faulted \ (lo .. hi - 1)
    BY <1>6 DEF PageRemove
  <2>2. lo \in Int /\ hi \in Int /\ lo <= hi
    BY <1>6
  <2>3. QED
    BY <1>1, <1>2, <2>1, <2>2, RemovedIs
<1>7. ASSUME NEW from \in 0 .. MaxPage + 1, NEW to \in 0 .. MaxPage + 1, NEW len \in 0 .. MaxPage + 1,
             PageRemap(from, to, len)
      PROVE  ListInv'
  <2> DEFINE inside == faulted \cap from .. from + len - 1
  <2>1. /\ pageFaults' = remapPageFaults(pageFaults, from, to, len)
        /\ faulted' = (faulted \ inside) \cup {page - from + to : page \in inside}
    BY <1>7 DEF PageRemap
  <2>2. from \in Int /\ to \in Int /\ len \in Nat
    OBVIOUS
  <2>3. /\ Increasing(remapPageFaults(pageFaults, from, to, len))
        /\ Pages(remapPageFaults(pageFaults, from, to, len)) = faulted'
    BY <1>1, <2>1, <2>2, RemappedIs
  <2>4. QED
    BY <1>2, <2>1, <2>3
<1>8. CASE UNCHANGED vars \/ FinalSnapshot \/ SnapshotNow
  BY <1>3, <1>8 DEF vars, appVars, FinalSnapshot, SnapshotNow
<1>9. ASSUME NEW b, Free(b)
      PROVE  UNCHANGED <<pageFaults, faulted>>
  BY <1>9 DEF Free
<1>10. ASSUME NEW on, EnableSnapshots(on)
       PROVE  UNCHANGED <<pageFaults, faulted>>
  BY <1>10 DEF EnableSnapshots, appVars
<1>11. QED
  BY <1>3, <1>4, <1>5, <1>6, <1>7, <1>8, <1>9, <1>10 DEF Next, parsePacket

(* However pages come, go and move, the sorted list is the set: found by
   halving, edited in place, it never loses its order, a page or its count. *)
THEOREM ListAlwaysPageSet == Spec => []ListIsPageSet
<1>1. ListInv => ListIsPageSet
  <2>1. ASSUME Increasing(pageFaults), NEW i \in 1 .. Len(pageFaults) - 1
        PROVE  pageFaults[i] < pageFaults[i + 1]
    BY <2>1, LenProperties DEF Increasing
  <2>2. QED
    BY <2>1 DEF ListInv, ListIsPageSet, Pages
<1>2. QED
  BY <1>1, InitList, NextList, PTL DEF Spec
=============================================================================
