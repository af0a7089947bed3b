---------------------------- MODULE MmapTracker ----------------------------
(***************************************************************************)
(* common/MmapTracker.h: the tracked mappings as a vector of half-open     *)
(* intervals, which the preload keeps to know what flags a range was       *)
(* mapped with, and the parser to write the mappings of a snapshot.        *)
(*                                                                         *)
(* Every operation looks for the first item that reaches beyond its        *)
(* address (find) and works on the items that intersect its range from     *)
(* there on.  An item at either end of the range is split; what the range  *)
(* covers is removed (munmap) or rewritten (mmap, mprotect).               *)
(***************************************************************************)
EXTENDS Integers, Sequences, FiniteSetsExt

CONSTANTS
    MaxAddr,        \* addresses are 0 .. MaxAddr - 1
    Mappings,       \* the [prot, flags, stack] that mmap may be given
    MaxItems        \* bound of the model: items in the vector

ASSUME TrackerAssumption ==
    /\ MaxAddr \in Nat /\ MaxItems \in Nat
    /\ Mappings \subseteq [prot : Nat, flags : Nat \ {0}, stack : Nat]

VARIABLE mMmaps     \* MmapTracker::mMmaps

Address     == 0 .. MaxAddr
Protections == {m.prot : m \in Mappings}
Stacks      == {m.stack : m \in Mappings}

-----------------------------------------------------------------------------
(* find and intersects *)

\* std::upper_bound by start: the first item that starts after addr.
UpperBound(s, addr) == Min({i \in 1 .. Len(s) + 1 : i <= Len(s) => addr < s[i].start})

\* The first item, from the last one that starts at or before addr on, that
\* ends after addr.
Find(s, addr) ==
    LET upper == UpperBound(s, addr)
        from  == IF upper > 1 THEN upper - 1 ELSE upper
    IN  Min({i \in from .. Len(s) + 1 : i <= Len(s) => addr < s[i].end})

Intersects(item, lo, hi) == lo < item.end /\ item.start < hi

\* The end of the run of intersecting items that begins at first.
LastHit(s, first, lo, hi) ==
    Min({l \in first - 1 .. Len(s) : l < Len(s) => ~Intersects(s[l + 1], lo, hi)})

-----------------------------------------------------------------------------
(* Splitting *)

BeforeNotCut(item, lo) == IF item.start < lo THEN <<item>> ELSE <<>>
Before(item, lo) == IF item.start < lo THEN <<[item EXCEPT !.end = lo]>> ELSE <<>>

NothingAfter(item, hi) == <<>>
After(item, hi) == IF hi < item.end THEN <<[item EXCEPT !.start = hi]>> ELSE <<>>

Clip(item, lo, hi) == [item EXCEPT !.start = IF item.start < lo THEN lo ELSE item.start,
                                   !.end   = IF hi < item.end THEN hi ELSE item.end]

\* item with the fields that new has.
With(item, new) == [k \in DOMAIN item |-> IF k \in DOMAIN new THEN new[k] ELSE item[k]]

Changes(item, new) == With(item, new) # item

\* The items of the run f .. l become: what sticks out before the range,
\* each item cut to the range and rewritten, what sticks out after it.  An
\* item for which there is nothing to change is not split.
Rewrite(s, f, l, lo, hi, new) ==
       SubSeq(s, 1, f - 1)
    \o (IF f <= l /\ Changes(s[f], new) THEN Before(s[f], lo) ELSE <<>>)
    \o [k \in 1 .. l - f + 1 |->
            LET item == s[f + k - 1]
            IN  IF Changes(item, new) THEN With(Clip(item, lo, hi), new) ELSE item]
    \o (IF f <= l /\ Changes(s[l], new) THEN After(s[l], hi) ELSE <<>>)
    \o SubSeq(s, l + 1, Len(s))

\* As Rewrite, but what the range covers is dropped.
CutOut(s, f, l, lo, hi) ==
       SubSeq(s, 1, f - 1)
    \o (IF f <= l THEN Before(s[f], lo) \o After(s[l], hi) ELSE <<>>)
    \o SubSeq(s, l + 1, Len(s))

-----------------------------------------------------------------------------
(* The operations on a vector s *)

Insert(s, at, item) == SubSeq(s, 1, at - 1) \o <<item>> \o SubSeq(s, at, Len(s))

DoMmap(s, lo, hi, m) ==
    LET f == Find(s, lo)
        l == LastHit(s, f, lo, hi)
    IN  IF f <= l
          THEN Rewrite(s, f, l, lo, hi, m)
          ELSE Insert(s, UpperBound(s, lo), [start |-> lo, end |-> hi, prot |-> m.prot,
                                             flags |-> m.flags, stack |-> m.stack])

DoMunmap(s, lo, hi) ==
    LET f == Find(s, lo) IN CutOut(s, f, LastHit(s, f, lo, hi), lo, hi)

DoMprotect(s, lo, hi, prot) ==
    LET f == Find(s, lo)
    IN  Rewrite(s, f, LastHit(s, f, lo, hi), lo, hi, [prot |-> prot])

WholeLength(item, lo, hi) == item.end - item.start
CutLength(item, lo, hi)   == Clip(item, lo, hi).end - Clip(item, lo, hi).start

\* What munmap and madvise return, and all that madvise does: the bytes of
\* the range that the items hit cover.
Covered(s, lo, hi) ==
    LET f == Find(s, lo)
        Length(i) == CutLength(s[i], lo, hi)
    IN  MapThenSumSet(Length, f .. LastHit(s, f, lo, hi))

\* What mprotect returns: the flags of the first item hit whose flags are not
\* zero.
HitFlags(s, lo, hi) ==
    LET f == Find(s, lo)
        hits == {i \in f .. LastHit(s, f, lo, hi) : s[i].flags # 0}
    IN  IF hits = {} THEN 0 ELSE s[Min(hits)].flags

-----------------------------------------------------------------------------
(* Actions: ranges within the address space, as the callers pass them.  An
   empty mmap fails in the kernel and is not tracked, nor is an mremap to
   nothing; the other calls are tracked before the kernel sees them, whatever
   their length, or are valid without any: what mprotect is given inside of an
   item is split off even if it is empty.  mremap stays where it is or moves to
   a range that does not overlap the old one. *)

Init == mMmaps = <<>>

mmap(lo, hi, m) ==
    /\ lo < hi
    /\ mMmaps' = DoMmap(mMmaps, lo, hi, m)

munmap(lo, hi) == mMmaps' = DoMunmap(mMmaps, lo, hi)

mprotect(lo, hi, prot) == mMmaps' = DoMprotect(mMmaps, lo, hi, prot)

mremap(lo, hi, newLo, newHi, stack) ==
    /\ newLo < newHi
    /\ newLo = lo \/ newHi <= lo \/ hi <= newLo
    /\ LET i == Find(mMmaps, lo)
       IN  /\ i <= Len(mMmaps)
           /\ mMmaps' = DoMmap(DoMunmap(mMmaps, lo, hi), newLo, newHi,
                               [prot |-> mMmaps[i].prot, flags |-> mMmaps[i].flags,
                                stack |-> stack])

Next ==
    /\ \E lo, hi \in Address :
        /\ lo <= hi
        /\ \/ \E m \in Mappings : mmap(lo, hi, m)
           \/ munmap(lo, hi)
           \/ \E prot \in Protections : mprotect(lo, hi, prot)
           \/ \E newLo, newHi \in Address, stack \in Stacks :
                mremap(lo, hi, newLo, newHi, stack)
    /\ Len(mMmaps') <= MaxItems

Spec == Init /\ [][Next]_mMmaps

-----------------------------------------------------------------------------
(* Properties *)

(* The items are in address order and no two overlap: what upper_bound needs,
   and what makes the items that find starts from all the items that intersect
   a range.  An item may be empty, by an mprotect of no length, but no two at
   the same place are. *)
Sorted ==
    /\ \A i \in 1 .. Len(mMmaps) : mMmaps[i].start <= mMmaps[i].end
    /\ \A i, j \in 1 .. Len(mMmaps) :
        i < j => mMmaps[i].end <= mMmaps[j].start /\ mMmaps[i].start < mMmaps[j].end

\* An item is its addresses, or a seam if it is empty.
Width(item) == IF item.start < item.end THEN 1 ELSE 0

(* Address by address, the vector is a page map: every operation changes
   exactly the addresses of its range, except that an empty mprotect may leave
   an empty item, which the operations around it treat as tracked. *)
trackedPages ==
    UNION {{[addr |-> a, width |-> Width(item), prot |-> item.prot, flags |-> item.flags,
             stack |-> item.stack] : a \in item.start .. item.end - Width(item)} :
           item \in {mMmaps[i] : i \in 1 .. Len(mMmaps)}}

Pages == INSTANCE PageMap WITH pages <- trackedPages

ImplementsPageMap == Pages!PageSpec

(* For every range an operation could be called with now: munmap and madvise
   return the number of tracked bytes in it, and mprotect the flags of the
   lowest tracked byte, by which the preload decides whether to register the
   range for page faults - or those of an empty item below it.  For an empty
   range mprotect returns the flags of the byte there, or none. *)
ReturnsExact ==
    \A lo, hi \in Address :
        lo <= hi =>
            /\ Covered(mMmaps, lo, hi) = Cardinality({p \in Pages!Inside(lo, hi) : p.width = 1})
            /\ lo < hi => HitFlags(mMmaps, lo, hi) = Pages!LowestFlags(lo, hi)
            /\ lo = hi => HitFlags(mMmaps, lo, hi) \in {0, Pages!LowestFlags(lo, lo + 1)}
=============================================================================
