------------------------------ MODULE Schedule ------------------------------
(***************************************************************************)
(* shouldSend of parser/Parser.h: whether the sizes are to be written now. *)
(*                                                                         *)
(* A schedule remembers what was written last and when.  It sends when     *)
(* timeThreshold has passed; sooner, after a peak, when peakTimeThreshold  *)
(* has passed; and soonest when the sizes fall from the peak, but only     *)
(* once per downTimeThreshold.  The first two thresholds double each time  *)
(* they are used.                                                          *)
(*                                                                         *)
(* Differences of times are 32 bits wide, and that of sizes is unsigned:   *)
(* one that should be negative is a huge one.                              *)
(***************************************************************************)
EXTENDS Integers

CONSTANTS
    TimeModulus,    \* 2^32
    SizeModulus     \* 2^64

Least(a, b) == IF a < b THEN a ELSE b

\* A schedule with the given settings that has sent nothing yet.
Fresh(settings, time) ==
    [settings |-> settings, enabled |-> TRUE, malloc |-> 0, pageFault |-> 0, time |-> time,
     timeThreshold |-> settings.timeThreshold, peakTimeThreshold |-> settings.peakTimeThreshold,
     downTime |-> 0, peakTime |-> 0, peakBytes |-> 0]

Elapsed(since, now) == (now - since) % TimeModulus

Combined(sizes) == sizes.malloc + sizes.pageFault

\* The differences in percent, as the code's quotients by combined and by
\* peakBytes.  A fall from what was sent is a jump as well, by the width.
Jump(s, sizes) ==
    100 * ((Combined(sizes) - Combined(s)) % SizeModulus) >= s.settings.up * Combined(sizes)

Fall(s, sizes) ==
    /\ Combined(sizes) < s.peakBytes
    /\ 100 * (s.peakBytes - Combined(sizes)) >= s.settings.down * s.peakBytes

Considered(s, sizes) ==
    /\ s.enabled
    /\ sizes.malloc # s.malloc \/ sizes.pageFault # s.pageFault

\* The conditions of the four branches, in the order of the code.
AfterThreshold(s, now, sizes) ==
    /\ Considered(s, sizes)
    /\ Elapsed(s.time, now) > s.timeThreshold

TimerDue(s, now, sizes) ==
    /\ Considered(s, sizes)
    /\ Elapsed(s.time, now) >= s.timeThreshold

InPeak(s, now, sizes) ==
    /\ Considered(s, sizes) /\ s.peakTime # 0
    /\ Elapsed(s.time, now) < s.timeThreshold

PeakBegins(s, now, sizes) ==
    /\ Considered(s, sizes) /\ s.peakTime = 0
    /\ Elapsed(s.time, now) < s.timeThreshold
    /\ Jump(s, sizes)

PeakDue(s, now, sizes) ==
    /\ InPeak(s, now, sizes)
    /\ Elapsed(s.time, now) >= s.peakTimeThreshold

DownDue(s, now, sizes) ==
    /\ InPeak(s, now, sizes)
    /\ Elapsed(s.time, now) < s.peakTimeThreshold
    /\ Elapsed(s.downTime, now) >= s.settings.downTimeThreshold
    /\ Fall(s, sizes)

Sends(s, now, sizes) ==
    TimerDue(s, now, sizes) \/ PeakDue(s, now, sizes) \/ DownDue(s, now, sizes)

WithSizes(s, sizes) == [s EXCEPT !.malloc = sizes.malloc, !.pageFault = sizes.pageFault]

SentKeepingTime(s, now, sizes) == [WithSizes(s, sizes) EXCEPT !.peakTime = 0]

\* What every send has in common.
Sent(s, now, sizes) == [WithSizes(s, sizes) EXCEPT !.time = now, !.peakTime = 0]

Doubled(s, threshold) == Least(2 * threshold, s.settings.maxTimeThreshold)

\* The schedule after shouldSend.
Considering(s, now, sizes) ==
    CASE TimerDue(s, now, sizes) ->
            [Sent(s, now, sizes) EXCEPT !.timeThreshold = Doubled(s, s.timeThreshold)]
      [] PeakBegins(s, now, sizes) ->
            [s EXCEPT !.peakTime = now, !.peakBytes = Combined(sizes)]
      [] PeakDue(s, now, sizes) ->
            [Sent(s, now, sizes) EXCEPT !.peakTimeThreshold = Doubled(s, s.peakTimeThreshold)]
      [] DownDue(s, now, sizes) ->
            [Sent(s, now, sizes) EXCEPT !.downTime = now, !.peakBytes = Combined(sizes)]
      [] OTHER -> s
=============================================================================
