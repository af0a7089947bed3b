-------------------------- MODULE MmapTrackerProofs --------------------------
(***************************************************************************)
(* Theorems about MmapTracker, for any address space and any mappings: the *)
(* vector stays in order, it implements the page map, and the operations   *)
(* return what they should.                                                *)
(*                                                                         *)
(* A place is an address (w = 1) or a seam before one (w = 0).             *)
(* Tracks(s, a, w, m) says that the vector s knows the place as mapped     *)
(* with m.  Each operator of the model is characterised by what it does to *)
(* Tracks, from the parts it puts a vector together of up to the whole     *)
(* operation; the theorems follow from those facts alone.                  *)
(***************************************************************************)
EXTENDS MmapTracker, FiniteSums, Functions, SequenceTheorems, WellFoundedInduction, TLAPS

(* What mMmaps holds. *)
Item == [start : Address, end : Address, prot : Nat, flags : Nat, stack : Nat]

(* The item x comes before y: they share no address, and are not two empty
   items at the same place. *)
Earlier(x, y) == x.end <= y.start /\ x.start < y.end

(* Vectors in address order. *)
Ordered(s) ==
    /\ s \in Seq(Item)
    /\ \A i \in 1 .. Len(s) : s[i].start <= s[i].end
    /\ \A i, j \in 1 .. Len(s) : i < j => Earlier(s[i], s[j])

(* All of s comes before all of t. *)
Precedes(s, t) == \A i \in 1 .. Len(s), j \in 1 .. Len(t) : Earlier(s[i], t[j])

(* What a tracked address is known to be mapped with. *)
Fields(item) == [prot |-> item.prot, flags |-> item.flags, stack |-> item.stack]

(* The place lies in the item: one of its addresses, or the place of an empty
   item. *)
Covers(item, a, w) == w = Width(item) /\ item.start <= a /\ a + w <= item.end

(* The vector s has the place with the protection, flags and stack of m. *)
Tracks(s, a, w, m) == \E i \in 1 .. Len(s) : Covers(s[i], a, w) /\ Fields(s[i]) = m

(* Min, of the community modules, is the least element. *)
LEMMA MinIs ==
    ASSUME NEW S \in SUBSET Nat, S # {}
    PROVE  Min(S) \in S /\ \A n \in S : Min(S) <= n
BY ZenonT(40), LeastNumber DEF Min

(* Addresses are numbers up to MaxAddr. *)
LEMMA Addresses == /\ Address \subseteq Nat
                   /\ \A a \in Address, b \in Nat : b <= a => b \in Address
BY TrackerAssumption DEF Address, TrackerAssumption

(* The types of an item's fields. *)
LEMMA ItemFields ==
    ASSUME NEW item \in Item
    PROVE  /\ item.start \in Nat /\ item.end \in Nat /\ item.end <= MaxAddr
           /\ item.start \in Address /\ item.end \in Address
           /\ item.prot \in Nat /\ item.flags \in Nat /\ item.stack \in Nat
BY TrackerAssumption DEF Item, Address, TrackerAssumption

(* An item of an ordered vector has its types and does not end before it starts. *)
LEMMA OrderedFields ==
    ASSUME NEW s, Ordered(s), NEW i \in 1 .. Len(s)
    PROVE  /\ s[i] \in Item /\ s[i].start \in Nat /\ s[i].end \in Nat /\ s[i].start <= s[i].end
BY ItemFields DEF Ordered

-----------------------------------------------------------------------------
(* Concatenation *)

(* A vector followed by one that starts after it ends is ordered, and tracks
   what either does. *)
LEMMA ConcatOrdered ==
    ASSUME NEW s, NEW t, Ordered(s), Ordered(t), Precedes(s, t)
    PROVE  /\ Ordered(s \o t)
           /\ \A a, w, m : Tracks(s \o t, a, w, m) <=> Tracks(s, a, w, m) \/ Tracks(t, a, w, m)
           /\ Len(s \o t) = Len(s) + Len(t)
           /\ \A i \in 1 .. Len(s) : (s \o t)[i] = s[i]
           /\ \A i \in 1 .. Len(t) : (s \o t)[Len(s) + i] = t[i]
           /\ \A x : Precedes(x, s) /\ Precedes(x, t) => Precedes(x, s \o t)
           /\ \A x : Precedes(s, x) /\ Precedes(t, x) => Precedes(s \o t, x)
<1> DEFINE u == s \o t
           n == Len(s)
           k == Len(t)
<1>1. /\ s \in Seq(Item) /\ t \in Seq(Item) /\ n \in Nat /\ k \in Nat
  BY DEF Ordered
<1>2. /\ u \in Seq(Item) /\ Len(u) = n + k
      /\ \A i \in 1 .. n + k : u[i] = IF i <= n THEN s[i] ELSE t[i - n]
  BY <1>1, ConcatProperties
<1> HIDE DEF u, n, k
<1>3. /\ \A i \in 1 .. n : i \in 1 .. n + k /\ u[i] = s[i]
      /\ \A i \in 1 .. k : n + i \in 1 .. n + k /\ u[n + i] = t[i]
      /\ \A i \in 1 .. n + k : \/ i \in 1 .. n /\ u[i] = s[i]
                               \/ i - n \in 1 .. k /\ i > n /\ u[i] = t[i - n]
  BY <1>1, <1>2
<1>4. \A i \in 1 .. n + k : u[i].start <= u[i].end
  BY Zenon, <1>1, <1>3 DEF Ordered, n, k
<1>5. ASSUME NEW i \in 1 .. n + k, NEW j \in 1 .. n + k, i < j
      PROVE  Earlier(u[i], u[j])
  <2>1. CASE i \in 1 .. n /\ j \in 1 .. n
    BY Zenon, <1>3, <1>5, <2>1 DEF Ordered, n
  <2>2. CASE i \in 1 .. n /\ j > n
    <3>1. j - n \in 1 .. k /\ u[j] = t[j - n] /\ u[i] = s[i]
      BY <1>1, <1>3, <2>2
    <3>2. QED
      BY <2>2, <3>1 DEF Precedes, n, k
  <2>3. CASE i > n /\ j > n
    <3>1. /\ i - n \in 1 .. k /\ j - n \in 1 .. k /\ i - n < j - n
          /\ u[i] = t[i - n] /\ u[j] = t[j - n]
      BY <1>1, <1>3, <1>5, <2>3
    <3>2. QED
      BY <3>1 DEF Ordered, k
  <2>4. QED
    BY <1>1, <1>5, <2>1, <2>2, <2>3
<1>6. Ordered(u)
  BY <1>2, <1>4, <1>5 DEF Ordered
<1>7. ASSUME NEW a, NEW w, NEW m
      PROVE  Tracks(u, a, w, m) <=> Tracks(s, a, w, m) \/ Tracks(t, a, w, m)
  <2>1. ASSUME Tracks(u, a, w, m)
        PROVE  Tracks(s, a, w, m) \/ Tracks(t, a, w, m)
    BY Zenon, <1>2, <1>3, <2>1 DEF Tracks, n, k
  <2>2. ASSUME Tracks(s, a, w, m)
        PROVE  Tracks(u, a, w, m)
    BY <1>2, <1>3, <2>2 DEF Tracks, n, k
  <2>3. ASSUME Tracks(t, a, w, m)
        PROVE  Tracks(u, a, w, m)
    BY <1>2, <1>3, <2>3, ZenonT(40) DEF Tracks, n, k
  <2>4. QED
    BY <2>1, <2>2, <2>3
<1>8. \A x : Precedes(x, s) /\ Precedes(x, t) => Precedes(x, u)
  BY Zenon, <1>2, <1>3 DEF Precedes, n, k
<1>9. \A x : Precedes(s, x) /\ Precedes(t, x) => Precedes(u, x)
  BY <1>2, <1>3, ZenonT(40) DEF Precedes, n, k
<1>10. QED
  BY <1>2, <1>3, <1>6, <1>7, <1>8, <1>9 DEF u, n, k

(* A vector of one item. *)
LEMMA Single ==
    ASSUME NEW item \in Item, item.start <= item.end
    PROVE  /\ Ordered(<<item>>)
           /\ \A a, w, m : Tracks(<<item>>, a, w, m) <=> Covers(item, a, w) /\ Fields(item) = m
           /\ Len(<<item>>) = 1 /\ <<item>>[1] = item
BY DEF Ordered, Tracks

(* The empty vector. *)
LEMMA None ==
    /\ Ordered(<<>>) /\ \A a, w, m : ~Tracks(<<>>, a, w, m)
    /\ \A s : Precedes(s, <<>>) /\ Precedes(<<>>, s)
BY DEF Ordered, Tracks, Precedes

(* A part of an ordered vector is ordered. *)
LEMMA Part ==
    ASSUME NEW s, Ordered(s), NEW p \in 1 .. Len(s) + 1, NEW q \in 0 .. Len(s), p - 1 <= q
    PROVE  /\ Ordered(SubSeq(s, p, q))
           /\ Len(SubSeq(s, p, q)) = q - p + 1
           /\ \A i \in 1 .. q - p + 1 : SubSeq(s, p, q)[i] = s[p + i - 1]
           /\ \A a, w, m : Tracks(SubSeq(s, p, q), a, w, m) <=>
                            \E i \in p .. q : Covers(s[i], a, w) /\ Fields(s[i]) = m
<1> DEFINE u == SubSeq(s, p, q)
<1>1. s \in Seq(Item) /\ Len(s) \in Nat /\ p \in Int /\ q \in Int
  BY DEF Ordered
<1>2. /\ u \in Seq(Item) /\ Len(u) = q - p + 1
      /\ \A i \in 1 .. q - p + 1 : u[i] = s[p + i - 1]
  <2>1. \A i \in p .. q : s[i] \in Item
    BY <1>1
  <2>2. QED
    BY <1>1, <2>1, SubSeqProperties
<1> HIDE DEF u
<1>3. \A i \in 1 .. q - p + 1 : p + i - 1 \in 1 .. Len(s) /\ p + i - 1 \in p .. q
  BY <1>1
<1>4. Ordered(u)
  <2>1. \A i \in 1 .. Len(u) : u[i].start <= u[i].end
    BY Zenon, <1>2, <1>3 DEF Ordered
  <2>2. ASSUME NEW i \in 1 .. Len(u), NEW j \in 1 .. Len(u), i < j
        PROVE  Earlier(u[i], u[j])
    <3>1. /\ p + i - 1 \in 1 .. Len(s) /\ p + j - 1 \in 1 .. Len(s) /\ p + i - 1 < p + j - 1
          /\ u[i] = s[p + i - 1] /\ u[j] = s[p + j - 1]
      BY <1>1, <1>2, <1>3, <2>2
    <3>2. QED
      BY <3>1 DEF Ordered
  <2>3. QED
    BY <1>2, <2>1, <2>2 DEF Ordered
<1>5. ASSUME NEW a, NEW w, NEW m
      PROVE  Tracks(u, a, w, m) <=> \E i \in p .. q : Covers(s[i], a, w) /\ Fields(s[i]) = m
  <2>1. \A i \in p .. q : i - p + 1 \in 1 .. q - p + 1 /\ u[i - p + 1] = s[i]
    BY <1>1, <1>2
  <2>2. QED
    BY <1>1, <1>2, <1>3, <2>1 DEF Tracks
<1>6. QED
  BY <1>2, <1>4, <1>5 DEF u

-----------------------------------------------------------------------------
(* find *)

(* UpperBound splits the vector by start (std::upper_bound). *)
LEMMA UpperBoundIs ==
    ASSUME NEW s, Ordered(s), NEW addr \in Nat
    PROVE  LET u == UpperBound(s, addr) IN
           /\ u \in 1 .. Len(s) + 1
           /\ \A i \in 1 .. Len(s) : i < u => s[i].start <= addr
           /\ \A i \in 1 .. Len(s) : i >= u => addr < s[i].start
<1> DEFINE S == {i \in 1 .. Len(s) + 1 : i <= Len(s) => addr < s[i].start}
           u == Min(S)
<1>1. Len(s) \in Nat
  BY DEF Ordered
<1>2. S \in SUBSET Nat /\ Len(s) + 1 \in S
  BY <1>1
<1>3. u \in S /\ \A i \in S : u <= i
  <2> HIDE DEF S
  <2>1. QED
    BY <1>2, MinIs
<1>4. UpperBound(s, addr) = u
  BY DEF UpperBound
<1> HIDE DEF u
<1>5. \A i \in 1 .. Len(s) : i < u => s[i].start <= addr
  BY <1>1, <1>3, OrderedFields
<1>6. ASSUME NEW i \in 1 .. Len(s), i >= u
      PROVE  addr < s[i].start
  <2>1. u \in 1 .. Len(s) /\ addr < s[u].start /\ s[u].start <= s[u].end
    BY <1>1, <1>3, <1>6, OrderedFields
  <2>2. CASE i = u
    BY <2>1, <2>2
  <2>3. CASE u < i
    <3>1. s[u].end <= s[i].start
      BY <1>6, <2>1, <2>3 DEF Ordered, Earlier
    <3>2. QED
      BY <1>6, <2>1, <3>1, OrderedFields
  <2>4. QED
    BY <1>1, <1>6, <2>1, <2>2, <2>3
<1>7. QED
  BY <1>3, <1>4, <1>5, <1>6

(* find skips the items that end at or before the address, and no other. *)
LEMMA FindIs ==
    ASSUME NEW s, Ordered(s), NEW addr \in Nat
    PROVE  LET f == Find(s, addr) IN
           /\ f \in 1 .. Len(s) + 1
           /\ \A i \in 1 .. Len(s) : i < f => s[i].end <= addr
           /\ \A i \in 1 .. Len(s) : i >= f => addr < s[i].end
<1> DEFINE upper == UpperBound(s, addr)
           from == IF upper > 1 THEN upper - 1 ELSE upper
           S == {i \in from .. Len(s) + 1 : i <= Len(s) => addr < s[i].end}
           f == Min(S)
<1>1. Len(s) \in Nat
  BY DEF Ordered
<1>2. /\ upper \in 1 .. Len(s) + 1
      /\ \A i \in 1 .. Len(s) : i < upper => s[i].start <= addr
      /\ \A i \in 1 .. Len(s) : i >= upper => addr < s[i].start
  BY UpperBoundIs
<1> HIDE DEF upper
<1>3. from \in 1 .. Len(s) + 1 /\ from <= upper
  BY <1>1, <1>2
<1>4. ASSUME NEW i \in 1 .. Len(s), i < from
      PROVE  s[i].end <= addr
  <2>1. from \in 1 .. Len(s) /\ from < upper
    BY <1>1, <1>2, <1>4
  <2>2. s[i].end <= s[from].start /\ s[from].start <= addr
    BY <1>2, <1>4, <2>1 DEF Ordered, Earlier
  <2>3. QED
    BY <2>1, <2>2, OrderedFields
<1> HIDE DEF from
<1>5. S \in SUBSET Nat /\ Len(s) + 1 \in S
  BY <1>1, <1>3
<1>6. f \in S /\ \A i \in S : f <= i
  <2> HIDE DEF S
  <2>1. QED
    BY <1>5, MinIs
<1>7. Find(s, addr) = f
  BY DEF Find, upper, from
<1> HIDE DEF f
<1>8. ASSUME NEW i \in 1 .. Len(s), i < f
      PROVE  s[i].end <= addr
  <2>1. CASE i < from
    BY <1>4, <2>1
  <2>2. CASE i >= from
    <3>1. i \in from .. Len(s) + 1 /\ i \notin S
      BY <1>1, <1>3, <1>6, <1>8, <2>2
    <3>2. QED
      BY <1>1, <3>1, OrderedFields
  <2>3. QED
    BY <1>1, <1>3, <2>1, <2>2
<1>9. ASSUME NEW i \in 1 .. Len(s), i >= f
      PROVE  addr < s[i].end
  <2>1. f \in 1 .. Len(s) /\ addr < s[f].end
    BY <1>1, <1>3, <1>6, <1>9
  <2>2. CASE i = f
    BY <2>1, <2>2
  <2>3. CASE f < i
    <3>1. s[f].end <= s[i].start
      BY <1>9, <2>1, <2>3 DEF Ordered, Earlier
    <3>2. QED
      BY <1>9, <2>1, <3>1, OrderedFields
  <2>4. QED
    BY <1>1, <1>9, <2>1, <2>2, <2>3
<1>10. f \in 1 .. Len(s) + 1
  BY <1>1, <1>3, <1>6
<1>11. QED
  BY <1>7, <1>8, <1>9, <1>10

(* The run of items from find on that LastHit ends is the set of items that
   intersect the range. *)
LEMMA RunIs ==
    ASSUME NEW s, Ordered(s), NEW lo \in Nat, NEW hi \in Nat
    PROVE  LET f == Find(s, lo)
               l == LastHit(s, f, lo, hi) IN
           /\ f \in 1 .. Len(s) + 1 /\ l \in 0 .. Len(s) /\ f - 1 <= l
           /\ \A i \in 1 .. Len(s) : i < f => s[i].end <= lo
           /\ \A i \in f .. l : i \in 1 .. Len(s) /\ lo < s[i].end /\ s[i].start < hi
           /\ \A i \in 1 .. Len(s) : i > l => hi <= s[i].start /\ lo < s[i].end
<1> DEFINE f == Find(s, lo)
           S == {l \in f - 1 .. Len(s) : l < Len(s) => ~Intersects(s[l + 1], lo, hi)}
           l == Min(S)
<1>1. Len(s) \in Nat
  BY DEF Ordered
<1>2. /\ f \in 1 .. Len(s) + 1
      /\ \A i \in 1 .. Len(s) : i < f => s[i].end <= lo
      /\ \A i \in 1 .. Len(s) : i >= f => lo < s[i].end
  BY FindIs
<1> HIDE DEF f
<1>3. S \in SUBSET Nat /\ Len(s) \in S
  BY <1>1, <1>2
<1>4. l \in S /\ \A i \in S : l <= i
  <2> HIDE DEF S
  <2>1. QED
    BY <1>3, MinIs
<1>5. LastHit(s, f, lo, hi) = l
  BY DEF LastHit
<1> HIDE DEF l
<1>6. ASSUME NEW i \in f .. l
      PROVE  i \in 1 .. Len(s) /\ lo < s[i].end /\ s[i].start < hi
  <2>1. i \in 1 .. Len(s) /\ i - 1 \in f - 1 .. Len(s) /\ i - 1 \notin S
    <3>1. f \in Nat /\ f >= 1 /\ l \in Nat /\ l <= Len(s)
      BY <1>1, <1>2, <1>4
    <3>2. i \in 1 .. Len(s) /\ i - 1 \in f - 1 .. Len(s) /\ ~(l <= i - 1)
      BY ONLY <1>1, <1>6, <3>1
    <3>3. QED
      BY ONLY <1>4, <3>2
  <2>2. Intersects(s[(i - 1) + 1], lo, hi) /\ (i - 1) + 1 = i
    BY <2>1
  <2>3. QED
    BY <2>1, <2>2 DEF Intersects
<1>7. ASSUME NEW i \in 1 .. Len(s), i > l
      PROVE  hi <= s[i].start /\ lo < s[i].end
  <2>1. l + 1 \in 1 .. Len(s) /\ ~Intersects(s[l + 1], lo, hi) /\ i >= f
    BY <1>1, <1>2, <1>4, <1>7
  <2>2. lo < s[l + 1].end /\ lo < s[i].end
    BY <1>1, <1>2, <1>4, <1>7, <2>1
  <2>3. hi <= s[l + 1].start
    BY <2>1, <2>2, OrderedFields DEF Intersects
  <2>4. CASE i = l + 1
    BY <2>2, <2>3, <2>4
  <2>5. CASE i > l + 1
    <3>1. s[l + 1].end <= s[i].start
      BY <1>7, <2>1, <2>5 DEF Ordered, Earlier
    <3>2. QED
      BY <1>7, <2>1, <2>2, <2>3, <3>1, OrderedFields
  <2>6. QED
    BY <1>1, <1>4, <1>7, <2>4, <2>5
<1>8. f \in 1 .. Len(s) + 1 /\ l \in 0 .. Len(s) /\ f - 1 <= l
  BY <1>1, <1>2, <1>4
<1>9. QED
  BY <1>2, <1>5, <1>6, <1>7, <1>8 DEF f

-----------------------------------------------------------------------------
(* Splitting and rewriting *)

(* What mmap and mprotect write over the items they hit. *)
News == [prot : Nat, flags : Nat, stack : Nat] \cup [prot : Nat]

(* An item keeps its place when its fields are rewritten. *)
LEMMA WithIs ==
    ASSUME NEW item \in Item, NEW new \in News
    PROVE  /\ With(item, new) \in Item
           /\ With(item, new).start = item.start /\ With(item, new).end = item.end
           /\ Fields(With(item, new)) = With(Fields(item), new)
<1> DEFINE w == With(item, new)
           v == With(Fields(item), new)
<1>1. /\ DOMAIN item = {"start", "end", "prot", "flags", "stack"}
      /\ DOMAIN Fields(item) = {"prot", "flags", "stack"}
      /\ DOMAIN new = {"prot", "flags", "stack"} \/ DOMAIN new = {"prot"}
  BY DEF Item, Fields, News
<1>2. /\ w = [k \in DOMAIN item |-> IF k \in DOMAIN new THEN new[k] ELSE item[k]]
      /\ v = [k \in DOMAIN Fields(item) |-> IF k \in DOMAIN new THEN new[k] ELSE Fields(item)[k]]
  BY DEF With
<1>3. /\ item.start \in Address /\ item.end \in Address
      /\ item.prot \in Nat /\ item.flags \in Nat /\ item.stack \in Nat
  BY ItemFields
<1>4. /\ DOMAIN w = {"start", "end", "prot", "flags", "stack"}
      /\ w.start = item.start /\ w.end = item.end
      /\ w.prot = new.prot
      /\ w.flags = (IF "flags" \in DOMAIN new THEN new.flags ELSE item.flags)
      /\ w.stack = (IF "stack" \in DOMAIN new THEN new.stack ELSE item.stack)
  BY <1>1, <1>2
<1>5. /\ DOMAIN v = {"prot", "flags", "stack"}
      /\ v.prot = new.prot
      /\ v.flags = (IF "flags" \in DOMAIN new THEN new.flags ELSE item.flags)
      /\ v.stack = (IF "stack" \in DOMAIN new THEN new.stack ELSE item.stack)
  BY <1>1, <1>2 DEF Fields
<1>6. /\ w.prot \in Nat /\ w.flags \in Nat /\ w.stack \in Nat
  BY <1>1, <1>3, <1>4 DEF News
<1>7. w = [start |-> w.start, end |-> w.end, prot |-> w.prot, flags |-> w.flags, stack |-> w.stack]
  BY <1>2, <1>4
<1>8. v = [prot |-> v.prot, flags |-> v.flags, stack |-> v.stack]
  BY <1>2, <1>5
<1> HIDE DEF w, v
<1>9. w \in Item
  BY <1>3, <1>4, <1>6, <1>7 DEF Item
<1>10. Fields(w) = v
  BY <1>4, <1>5, <1>8 DEF Fields
<1>11. QED
  BY <1>4, <1>9, <1>10 DEF w, v

(* p is what a cut leaves of the item x: it is empty only if x is. *)
PartOf(p, x) ==
    /\ p.start \in Nat /\ p.end \in Nat /\ p.start <= p.end
    /\ x.start <= p.start /\ p.end <= x.end
    /\ x.start < x.end => p.start < p.end

(* What is left of two items is in their order. *)
LEMMA PartsEarlier ==
    ASSUME NEW x \in Item, NEW y \in Item, NEW p, NEW q,
           Earlier(x, y), PartOf(p, x), PartOf(q, y)
    PROVE  Earlier(p, q)
<1>1. x.start \in Nat /\ x.end \in Nat /\ y.start \in Nat /\ y.end \in Nat
  BY ItemFields
<1>2. QED
  BY <1>1 DEF Earlier, PartOf

(* What sticks out before the range. *)
LEMMA BeforeIs ==
    ASSUME NEW item \in Item, NEW lo \in Address, item.start <= item.end, lo < item.end
    PROVE  /\ Ordered(Before(item, lo))
           /\ \A m : \A a \in Nat, w \in {0, 1} : Tracks(Before(item, lo), a, w, m) <=>
                                    Covers(item, a, w) /\ a + w <= lo /\ Fields(item) = m
           /\ \A i \in 1 .. Len(Before(item, lo)) :
                 /\ PartOf(Before(item, lo)[i], item)
                 /\ Before(item, lo)[i].start < lo /\ Before(item, lo)[i].end = lo
<1> DEFINE x == [item EXCEPT !.end = lo]
<1>1. /\ item.start \in Nat /\ item.end \in Nat /\ lo \in Nat
  BY ItemFields, Addresses
<1>2. x \in Item /\ x.start = item.start /\ x.end = lo /\ Fields(x) = Fields(item)
  BY DEF Item, Fields
<1>3. CASE item.start < lo
  <2>1. Before(item, lo) = <<x>>
    BY <1>3 DEF Before
  <2> HIDE DEF x
  <2>2. Ordered(<<x>>) /\ Len(<<x>>) = 1 /\ <<x>>[1] = x
    BY <1>1, <1>2, <1>3, Single
  <2>3. PartOf(x, item)
    BY <1>1, <1>2, <1>3 DEF PartOf
  <2>4. \A m : \A a \in Nat, w \in {0, 1} : Tracks(<<x>>, a, w, m) <=>
                    Covers(x, a, w) /\ Fields(x) = m
    BY <1>1, <1>2, <1>3, Single
  <2>5. \A a \in Nat, w \in {0, 1} : Covers(x, a, w) <=> Covers(item, a, w) /\ a + w <= lo
    BY <1>1, <1>2, <1>3 DEF Covers, Width
  <2>6. QED
    BY <1>1, <1>2, <1>3, <2>1, <2>2, <2>3, <2>4, <2>5
<1>4. CASE ~(item.start < lo)
  <2>1. Before(item, lo) = <<>>
    BY <1>4 DEF Before
  <2>2. QED
    BY <1>1, <1>4, <2>1, None DEF Covers, Width
<1>5. QED
  BY <1>3, <1>4

(* What sticks out after the range. *)
LEMMA AfterIs ==
    ASSUME NEW item \in Item, NEW hi \in Address, item.start <= item.end, item.start < hi
    PROVE  /\ Ordered(After(item, hi))
           /\ \A m : \A a \in Nat, w \in {0, 1} : Tracks(After(item, hi), a, w, m) <=>
                                    Covers(item, a, w) /\ hi <= a /\ Fields(item) = m
           /\ \A i \in 1 .. Len(After(item, hi)) :
                 /\ PartOf(After(item, hi)[i], item)
                 /\ After(item, hi)[i].start = hi /\ hi < After(item, hi)[i].end
<1> DEFINE x == [item EXCEPT !.start = hi]
<1>1. /\ item.start \in Nat /\ item.end \in Nat /\ hi \in Nat
  BY ItemFields, Addresses
<1>2. x \in Item /\ x.start = hi /\ x.end = item.end /\ Fields(x) = Fields(item)
  BY DEF Item, Fields
<1>3. CASE hi < item.end
  <2>1. After(item, hi) = <<x>>
    BY <1>3 DEF After
  <2> HIDE DEF x
  <2>2. Ordered(<<x>>) /\ Len(<<x>>) = 1 /\ <<x>>[1] = x
    BY <1>1, <1>2, <1>3, Single
  <2>3. PartOf(x, item)
    BY <1>1, <1>2, <1>3 DEF PartOf
  <2>4. \A m : \A a \in Nat, w \in {0, 1} : Tracks(<<x>>, a, w, m) <=>
                    Covers(x, a, w) /\ Fields(x) = m
    BY <1>1, <1>2, <1>3, Single
  <2>5. \A a \in Nat, w \in {0, 1} : Covers(x, a, w) <=> Covers(item, a, w) /\ hi <= a
    BY <1>1, <1>2, <1>3 DEF Covers, Width
  <2>6. QED
    BY <1>1, <1>2, <1>3, <2>1, <2>2, <2>3, <2>4, <2>5
<1>4. CASE ~(hi < item.end)
  <2>1. After(item, hi) = <<>>
    BY <1>4 DEF After
  <2>2. QED
    BY <1>1, <1>4, <2>1, None DEF Covers, Width
<1>5. QED
  BY <1>3, <1>4

(* What Rewrite makes of an item of the run. *)
Piece(item, lo, hi, new) ==
    IF Changes(item, new) THEN With(Clip(item, lo, hi), new) ELSE item

(* A piece lies within its item, and within the range when it is rewritten. *)
LEMMA PieceIs ==
    ASSUME NEW item \in Item, NEW lo \in Address, NEW hi \in Address, NEW new \in News,
           item.start <= item.end, lo < item.end, item.start < hi, lo < hi
    PROVE  LET p == Piece(item, lo, hi, new) IN
           /\ p \in Item /\ PartOf(p, item)
           /\ Changes(item, new) => lo <= p.start /\ p.end <= hi
           /\ \A a \in Nat, w \in {0, 1} : Covers(item, a, w) /\ lo < a + w /\ a < hi => Covers(p, a, w)
           /\ Fields(p) = With(Fields(item), new)
           /\ ~Changes(item, new) => p = item /\ With(Fields(item), new) = Fields(item)
<1> DEFINE c == Clip(item, lo, hi)
<1>1. /\ item.start \in Nat /\ item.end \in Nat /\ lo \in Nat /\ hi \in Nat
      /\ item.start \in Address /\ item.end \in Address
  BY ItemFields, Addresses
<1>2. /\ c \in Item
      /\ c.start = (IF item.start < lo THEN lo ELSE item.start)
      /\ c.end = (IF hi < item.end THEN hi ELSE item.end)
      /\ Fields(c) = Fields(item)
  BY <1>1 DEF Clip, Item, Fields
<1> HIDE DEF c
<1>3. /\ With(c, new) \in Item
      /\ With(c, new).start = c.start /\ With(c, new).end = c.end
      /\ Fields(With(c, new)) = With(Fields(item), new)
  BY <1>2, WithIs
<1>4. CASE Changes(item, new)
  <2>1. Piece(item, lo, hi, new) = With(c, new)
    BY <1>4 DEF Piece, c
  <2>2. QED
    BY <1>1, <1>2, <1>3, <1>4, <2>1 DEF Covers, Width, PartOf
<1>5. CASE ~Changes(item, new)
  <2>1. Piece(item, lo, hi, new) = item /\ With(item, new) = item
    BY <1>5 DEF Piece, Changes
  <2>2. Fields(item) = With(Fields(item), new)
    BY <2>1, WithIs
  <2>3. QED
    BY <1>1, <1>5, <2>1, <2>2 DEF PartOf
<1>6. QED
  BY <1>4, <1>5

(* The middle part of Rewrite. *)
Pieces(s, f, l, lo, hi, new) == [k \in 1 .. l - f + 1 |-> Piece(s[f + k - 1], lo, hi, new)]

(* The run f .. l of the items of s that intersect the range. *)
Run(s, f, l, lo, hi) ==
    /\ f \in 1 .. Len(s) + 1 /\ l \in 0 .. Len(s) /\ f - 1 <= l
    /\ \A i \in 1 .. Len(s) : i < f => s[i].end <= lo
    /\ \A i \in f .. l : i \in 1 .. Len(s) /\ lo < s[i].end /\ s[i].start < hi
    /\ \A i \in 1 .. Len(s) : i > l => hi <= s[i].start /\ lo < s[i].end

(* The pieces of a run are ordered, each within the item it is made of. *)
LEMMA PiecesAre ==
    ASSUME NEW s, Ordered(s), NEW f, NEW l, NEW lo \in Address, NEW hi \in Address, lo < hi,
           NEW new \in News, Run(s, f, l, lo, hi)
    PROVE  LET u == Pieces(s, f, l, lo, hi, new) IN
           /\ Ordered(u) /\ Len(u) = l - f + 1
           /\ \A k \in 1 .. l - f + 1 :
                 /\ f + k - 1 \in f .. l /\ f + k - 1 \in 1 .. Len(s)
                 /\ u[k] = Piece(s[f + k - 1], lo, hi, new)
                 /\ PartOf(u[k], s[f + k - 1])
           /\ \A a, w, m : Tracks(u, a, w, m) <=>
                 \E i \in f .. l : /\ Covers(Piece(s[i], lo, hi, new), a, w)
                                   /\ Fields(Piece(s[i], lo, hi, new)) = m
<1> DEFINE n == l - f + 1
           u == Pieces(s, f, l, lo, hi, new)
<1>1. /\ s \in Seq(Item) /\ Len(s) \in Nat /\ f \in Nat /\ l \in Nat /\ n \in Nat
      /\ \A k \in 1 .. n : f + k - 1 \in f .. l /\ f + k - 1 \in 1 .. Len(s)
      /\ \A i \in f .. l : i - f + 1 \in 1 .. n /\ f + (i - f + 1) - 1 = i
  BY SMTT(40) DEF Ordered, Run
<1>2. \A i \in f .. l :
        LET p == Piece(s[i], lo, hi, new) IN
        p \in Item /\ PartOf(p, s[i])
  BY <1>1, PieceIs, OrderedFields DEF Run
<1>3. u = [k \in 1 .. n |-> Piece(s[f + k - 1], lo, hi, new)]
  BY DEF Pieces
<1> HIDE DEF u, n
<1>4. /\ u \in Seq(Item) /\ Len(u) = n
      /\ \A k \in 1 .. n : u[k] = Piece(s[f + k - 1], lo, hi, new)
  <2>1. /\ DOMAIN u = 1 .. n
        /\ \A k \in 1 .. n : u[k] = Piece(s[f + k - 1], lo, hi, new)
    BY <1>3
  <2>2. u \in [1 .. n -> Item]
    BY <1>1, <1>2, <1>3
  <2>3. u \in Seq(Item)
    BY <1>1, <2>2, SeqDef
  <2>4. Len(u) = n
    BY <1>1, <2>1, <2>3, LenProperties
  <2>5. QED
    BY <2>1, <2>3, <2>4
<1>5. \A k \in 1 .. n : /\ u[k] \in Item /\ u[k].start <= u[k].end
                        /\ PartOf(u[k], s[f + k - 1])
  BY ZenonT(40), <1>1, <1>2, <1>4 DEF PartOf
<1>6. ASSUME NEW i \in 1 .. n, NEW j \in 1 .. n, i < j
      PROVE  Earlier(u[i], u[j])
  <2>1. /\ f + i - 1 \in 1 .. Len(s) /\ f + j - 1 \in 1 .. Len(s)
        /\ f + i - 1 < f + j - 1
    <3>1. f \in Nat /\ i \in Int /\ j \in Int
      BY <1>1
    <3>2. f + i - 1 < f + j - 1
      BY ONLY <1>6, <3>1
    <3>3. QED
      BY ONLY Zenon, <1>1, <3>2
  <2>2. Earlier(s[f + i - 1], s[f + j - 1])
    BY Zenon, <2>1 DEF Ordered
  <2>3. s[f + i - 1] \in Item /\ s[f + j - 1] \in Item
    BY <2>1, OrderedFields
  <2>4. QED
    BY Zenon, <1>5, <2>2, <2>3, PartsEarlier
<1>7. Ordered(u)
  BY <1>4, <1>5, <1>6 DEF Ordered
<1>8. ASSUME NEW a, NEW w, NEW m
      PROVE  Tracks(u, a, w, m) <=> \E i \in f .. l : /\ Covers(Piece(s[i], lo, hi, new), a, w)
                                                      /\ Fields(Piece(s[i], lo, hi, new)) = m
  <2>1. \A i \in f .. l : i - f + 1 \in 1 .. n /\ u[i - f + 1] = Piece(s[i], lo, hi, new)
    BY <1>1, <1>4
  <2>2. ASSUME NEW i \in f .. l, Covers(Piece(s[i], lo, hi, new), a, w),
               Fields(Piece(s[i], lo, hi, new)) = m
        PROVE  Tracks(u, a, w, m)
    BY <1>4, <2>1, <2>2 DEF Tracks
  <2>3. ASSUME NEW k \in 1 .. n, Covers(u[k], a, w), Fields(u[k]) = m
        PROVE  \E i \in f .. l : /\ Covers(Piece(s[i], lo, hi, new), a, w)
                                 /\ Fields(Piece(s[i], lo, hi, new)) = m
    <3>1. f + k - 1 \in f .. l /\ u[k] = Piece(s[f + k - 1], lo, hi, new)
      BY <1>1, <1>4
    <3>2. QED
      BY <2>3, <3>1
  <2>4. QED
    BY <1>4, <2>2, <2>3 DEF Tracks
<1>9. \A k \in 1 .. l - f + 1 :
        /\ f + k - 1 \in f .. l /\ f + k - 1 \in 1 .. Len(s)
        /\ u[k] = Piece(s[f + k - 1], lo, hi, new)
        /\ PartOf(u[k], s[f + k - 1])
  BY <1>1, <1>4, <1>5 DEF n
<1>10. Len(u) = l - f + 1
  BY <1>4 DEF n
<1>11. QED
  BY <1>7, <1>8, <1>9, <1>10 DEF u

-----------------------------------------------------------------------------
(* Parts put together again *)

(* Three vectors, one after the other. *)
LEMMA ThreeParts ==
    ASSUME NEW s, NEW t, NEW u, Ordered(s), Ordered(t), Ordered(u),
           Precedes(s, t), Precedes(s, u), Precedes(t, u)
    PROVE  /\ Ordered(s \o t \o u)
           /\ \A a, w, m : Tracks(s \o t \o u, a, w, m) <=>
                            Tracks(s, a, w, m) \/ Tracks(t, a, w, m) \/ Tracks(u, a, w, m)
<1> DEFINE st == s \o t
<1>1. /\ Ordered(st) /\ Precedes(st, u)
      /\ \A a, w, m : Tracks(st, a, w, m) <=> Tracks(s, a, w, m) \/ Tracks(t, a, w, m)
  BY ConcatOrdered
<1> HIDE DEF st
<1>2. /\ Ordered(st \o u)
      /\ \A a, w, m : Tracks(st \o u, a, w, m) <=> Tracks(st, a, w, m) \/ Tracks(u, a, w, m)
  BY <1>1, ConcatOrdered
<1>3. QED
  BY <1>1, <1>2 DEF st

(* Five vectors, one after the other. *)
LEMMA FiveParts ==
    ASSUME NEW s, NEW t, NEW u, NEW v, NEW x,
           Ordered(s), Ordered(t), Ordered(u), Ordered(v), Ordered(x),
           Precedes(s, t), Precedes(s, u), Precedes(s, v), Precedes(s, x),
           Precedes(t, u), Precedes(t, v), Precedes(t, x),
           Precedes(u, v), Precedes(u, x), Precedes(v, x)
    PROVE  /\ Ordered(s \o t \o u \o v \o x)
           /\ \A a, w, m : Tracks(s \o t \o u \o v \o x, a, w, m) <=>
                            \/ Tracks(s, a, w, m) \/ Tracks(t, a, w, m) \/ Tracks(u, a, w, m)
                            \/ Tracks(v, a, w, m) \/ Tracks(x, a, w, m)
<1> DEFINE st == s \o t
           stu == st \o u
<1>1. /\ Ordered(st) /\ Precedes(st, u) /\ Precedes(st, v) /\ Precedes(st, x)
      /\ \A a, w, m : Tracks(st, a, w, m) <=> Tracks(s, a, w, m) \/ Tracks(t, a, w, m)
  BY ConcatOrdered
<1> HIDE DEF st
<1>2. /\ Ordered(stu) /\ Precedes(stu, v) /\ Precedes(stu, x)
      /\ \A a, w, m : Tracks(stu, a, w, m) <=> Tracks(st, a, w, m) \/ Tracks(u, a, w, m)
  BY <1>1, ConcatOrdered
<1> HIDE DEF stu
<1>3. /\ Ordered(stu \o v \o x)
      /\ \A a, w, m : Tracks(stu \o v \o x, a, w, m) <=>
                       Tracks(stu, a, w, m) \/ Tracks(v, a, w, m) \/ Tracks(x, a, w, m)
  BY <1>2, ThreeParts
<1>4. QED
  BY <1>1, <1>2, <1>3 DEF st, stu

-----------------------------------------------------------------------------
(* What Rewrite and CutOut make of a vector *)

(* The address is in the range. *)
Within(a, w, lo, hi) == lo < a + w /\ a < hi

(* The fields of an address after a rewrite of the range. *)
Written(old, a, w, lo, hi, new) == IF Within(a, w, lo, hi) THEN With(old, new) ELSE old

(* Every item of v is what is left of one of the items i .. j of s. *)
Parts(v, s, i, j) == \A k \in 1 .. Len(v) : \E n \in 1 .. Len(s) : i <= n /\ n <= j /\ PartOf(v[k], s[n])

(* What is left of earlier items precedes what is left of later ones. *)
LEMMA PartsPrecede ==
    ASSUME NEW s, Ordered(s), NEW v, NEW u, NEW i \in Int, NEW j \in Int, NEW k \in Int, NEW l \in Int,
           Parts(v, s, i, j), Parts(u, s, k, l), j < k
    PROVE  Precedes(v, u)
<1>1. SUFFICES ASSUME NEW x \in 1 .. Len(v), NEW y \in 1 .. Len(u)
               PROVE  Earlier(v[x], u[y])
  BY DEF Precedes
<1>2. PICK n \in 1 .. Len(s) : n <= j /\ PartOf(v[x], s[n])
  BY DEF Parts
<1>3. PICK m \in 1 .. Len(s) : k <= m /\ PartOf(u[y], s[m])
  BY DEF Parts
<1>4. n < m
  BY <1>2, <1>3
<1>5. Earlier(s[n], s[m]) /\ s[n] \in Item /\ s[m] \in Item
  BY <1>4, OrderedFields DEF Ordered
<1>6. QED
  BY <1>2, <1>3, <1>5, PartsEarlier

(* p is what comes before item f, r what comes after item l. *)
FirstPart(p, s, f, lo) ==
    /\ Ordered(p) /\ Len(p) = f - 1 /\ Parts(p, s, 1, f - 1)
    /\ \A i \in 1 .. f - 1 : i \in 1 .. Len(s) /\ p[i] = s[i] /\ s[i].end <= lo
    /\ \A a, w, m : Tracks(p, a, w, m) <=>
                        \E i \in 1 .. f - 1 : Covers(s[i], a, w) /\ Fields(s[i]) = m

LastPart(r, s, l, hi) ==
    /\ Ordered(r) /\ Len(r) = Len(s) - l /\ Parts(r, s, l + 1, Len(s))
    /\ \A i \in 1 .. Len(s) - l : l + i \in 1 .. Len(s) /\ r[i] = s[l + i] /\ hi <= s[l + i].start
    /\ \A a, w, m : Tracks(r, a, w, m) <=>
                        \E i \in l + 1 .. Len(s) : Covers(s[i], a, w) /\ Fields(s[i]) = m

(* What lies before and after the run. *)
LEMMA PartsOfRun ==
    ASSUME NEW s, Ordered(s), NEW f, NEW l, NEW lo \in Nat, NEW hi \in Nat,
           Run(s, f, l, lo, hi)
    PROVE  FirstPart(SubSeq(s, 1, f - 1), s, f, lo) /\ LastPart(SubSeq(s, l + 1, Len(s)), s, l, hi)
<1> DEFINE p == SubSeq(s, 1, f - 1)
           r == SubSeq(s, l + 1, Len(s))
<1>1. /\ Len(s) \in Nat /\ f \in 1 .. Len(s) + 1 /\ l \in 0 .. Len(s) /\ f - 1 <= l
      /\ 1 \in 1 .. Len(s) + 1 /\ f - 1 \in 0 .. Len(s) /\ 1 - 1 <= f - 1
      /\ l + 1 \in 1 .. Len(s) + 1 /\ Len(s) \in 0 .. Len(s) /\ (l + 1) - 1 <= Len(s)
  BY DEF Ordered, Run
<1>2. /\ Ordered(p) /\ Len(p) = f - 1 /\ \A i \in 1 .. f - 1 : p[i] = s[i]
      /\ \A a, w, m : Tracks(p, a, w, m) <=>
                       \E i \in 1 .. f - 1 : Covers(s[i], a, w) /\ Fields(s[i]) = m
  <2>1. /\ Ordered(p) /\ Len(p) = (f - 1) - 1 + 1
        /\ \A i \in 1 .. (f - 1) - 1 + 1 : p[i] = s[1 + i - 1]
        /\ \A a, w, m : Tracks(p, a, w, m) <=>
                         \E i \in 1 .. f - 1 : Covers(s[i], a, w) /\ Fields(s[i]) = m
    BY <1>1, Part
  <2>2. (f - 1) - 1 + 1 = f - 1 /\ \A i \in 1 .. f - 1 : 1 + i - 1 = i
    BY <1>1
  <2>3. QED
    BY <2>1, <2>2
<1>3. /\ Ordered(r) /\ Len(r) = Len(s) - l /\ \A i \in 1 .. Len(s) - l : r[i] = s[l + i]
      /\ \A a, w, m : Tracks(r, a, w, m) <=>
                       \E i \in l + 1 .. Len(s) : Covers(s[i], a, w) /\ Fields(s[i]) = m
  <2>1. /\ Ordered(r) /\ Len(r) = Len(s) - (l + 1) + 1
        /\ \A i \in 1 .. Len(s) - (l + 1) + 1 : r[i] = s[(l + 1) + i - 1]
        /\ \A a, w, m : Tracks(r, a, w, m) <=>
                         \E i \in l + 1 .. Len(s) : Covers(s[i], a, w) /\ Fields(s[i]) = m
    BY ZenonT(40), <1>1, Part
  <2>2. Len(s) - (l + 1) + 1 = Len(s) - l /\ \A i \in 1 .. Len(s) - l : (l + 1) + i - 1 = l + i
    BY <1>1
  <2>3. QED
    BY <2>1, <2>2
<1> HIDE DEF p, r
<1>4. \A i \in 1 .. f - 1 : i \in 1 .. Len(s) /\ s[i].end <= lo
  BY <1>1 DEF Run
<1>5. \A i \in 1 .. Len(s) - l : /\ l + i \in 1 .. Len(s) /\ l + 1 <= l + i /\ l + i <= Len(s)
                                 /\ hi <= s[l + i].start
  <2>1. SUFFICES ASSUME NEW i \in 1 .. Len(s) - l
                 PROVE  /\ l + i \in 1 .. Len(s) /\ l + 1 <= l + i /\ l + i <= Len(s)
                        /\ hi <= s[l + i].start
    OBVIOUS
  <2>2. l + i \in 1 .. Len(s) /\ l + i > l /\ l + 1 <= l + i /\ l + i <= Len(s)
    BY <1>1
  <2>3. QED
    BY <2>2 DEF Run
<1>6. \A i \in 1 .. Len(s) : PartOf(s[i], s[i])
  BY OrderedFields DEF PartOf
<1>7. Parts(p, s, 1, f - 1)
  <2>1. \A i \in 1 .. f - 1 : 1 <= i /\ i <= f - 1
    BY <1>1
  <2>2. QED
    BY <1>2, <1>4, <1>6, <2>1 DEF Parts
<1>8. Parts(r, s, l + 1, Len(s))
  BY Zenon, <1>3, <1>5, <1>6 DEF Parts
<1>9. FirstPart(p, s, f, lo)
  BY <1>2, <1>4, <1>7 DEF FirstPart
<1>10. LastPart(r, s, l, hi)
  BY <1>3, <1>5, <1>8 DEF LastPart
<1>11. QED
  BY <1>9, <1>10 DEF p, r

(* What an item that the range begins, or ends, in the middle of sticks out by. *)
Ahead(s, f, l, lo, new) == IF f <= l /\ Changes(s[f], new) THEN Before(s[f], lo) ELSE <<>>
Behind(s, f, l, hi, new) == IF f <= l /\ Changes(s[l], new) THEN After(s[l], hi) ELSE <<>>

(* The two ends of a rewrite: they exist when the first or the last item of
   the run changes and sticks out. *)
LEMMA EndsAre ==
    ASSUME NEW s, Ordered(s), NEW f, NEW l, NEW lo \in Address, NEW hi \in Address,
           NEW new, Run(s, f, l, lo, hi)
    PROVE  /\ Ordered(Ahead(s, f, l, lo, new))
           /\ \A i \in 1 .. Len(Ahead(s, f, l, lo, new)) :
                 /\ f <= l /\ Changes(s[f], new)
                 /\ PartOf(Ahead(s, f, l, lo, new)[i], s[f])
                 /\ Ahead(s, f, l, lo, new)[i].start < lo /\ Ahead(s, f, l, lo, new)[i].end = lo
           /\ \A m : \A a \in Nat, w \in {0, 1} : Tracks(Ahead(s, f, l, lo, new), a, w, m) <=>
                 f <= l /\ Changes(s[f], new) /\ Covers(s[f], a, w) /\ a + w <= lo /\ Fields(s[f]) = m
           /\ Ordered(Behind(s, f, l, hi, new))
           /\ \A i \in 1 .. Len(Behind(s, f, l, hi, new)) :
                 /\ f <= l /\ Changes(s[l], new)
                 /\ PartOf(Behind(s, f, l, hi, new)[i], s[l])
                 /\ Behind(s, f, l, hi, new)[i].start = hi /\ hi < Behind(s, f, l, hi, new)[i].end
           /\ \A m : \A a \in Nat, w \in {0, 1} : Tracks(Behind(s, f, l, hi, new), a, w, m) <=>
                 f <= l /\ Changes(s[l], new) /\ Covers(s[l], a, w) /\ hi <= a /\ Fields(s[l]) = m
<1>1. f \in Nat /\ l \in Nat
  BY DEF Run, Ordered
<1>2. ASSUME f <= l
      PROVE  /\ s[f] \in Item /\ s[f].start <= s[f].end /\ lo < s[f].end
             /\ s[l] \in Item /\ s[l].start <= s[l].end /\ s[l].start < hi
  <2>1. f \in f .. l /\ l \in f .. l
    BY <1>1, <1>2
  <2>2. QED
    BY <2>1, OrderedFields DEF Run
<1>3. /\ Ordered(Ahead(s, f, l, lo, new))
      /\ \A i \in 1 .. Len(Ahead(s, f, l, lo, new)) :
            /\ f <= l /\ Changes(s[f], new)
            /\ PartOf(Ahead(s, f, l, lo, new)[i], s[f])
            /\ Ahead(s, f, l, lo, new)[i].start < lo /\ Ahead(s, f, l, lo, new)[i].end = lo
      /\ \A m : \A a \in Nat, w \in {0, 1} : Tracks(Ahead(s, f, l, lo, new), a, w, m) <=>
            f <= l /\ Changes(s[f], new) /\ Covers(s[f], a, w) /\ a + w <= lo /\ Fields(s[f]) = m
  <2>1. CASE f <= l /\ Changes(s[f], new)
    <3>1. Ahead(s, f, l, lo, new) = Before(s[f], lo)
      BY <2>1 DEF Ahead
    <3>2. QED
      BY <1>2, <2>1, <3>1, BeforeIs
  <2>2. CASE ~(f <= l /\ Changes(s[f], new))
    <3>1. Ahead(s, f, l, lo, new) = <<>>
      BY <2>2 DEF Ahead
    <3>2. Len(Ahead(s, f, l, lo, new)) = 0
      BY <3>1
    <3>3. QED
      BY <2>2, <3>1, <3>2, None
  <2>3. QED
    BY <2>1, <2>2
<1>4. /\ Ordered(Behind(s, f, l, hi, new))
      /\ \A i \in 1 .. Len(Behind(s, f, l, hi, new)) :
            /\ f <= l /\ Changes(s[l], new)
            /\ PartOf(Behind(s, f, l, hi, new)[i], s[l])
            /\ Behind(s, f, l, hi, new)[i].start = hi /\ hi < Behind(s, f, l, hi, new)[i].end
      /\ \A m : \A a \in Nat, w \in {0, 1} : Tracks(Behind(s, f, l, hi, new), a, w, m) <=>
            f <= l /\ Changes(s[l], new) /\ Covers(s[l], a, w) /\ hi <= a /\ Fields(s[l]) = m
  <2>1. CASE f <= l /\ Changes(s[l], new)
    <3>1. Behind(s, f, l, hi, new) = After(s[l], hi)
      BY <2>1 DEF Behind
    <3>2. QED
      BY <1>2, <2>1, <3>1, AfterIs
  <2>2. CASE ~(f <= l /\ Changes(s[l], new))
    <3>1. Behind(s, f, l, hi, new) = <<>>
      BY <2>2 DEF Behind
    <3>2. Len(Behind(s, f, l, hi, new)) = 0
      BY <3>1
    <3>3. QED
      BY <2>2, <3>1, <3>2, None
  <2>3. QED
    BY <2>1, <2>2
<1>5. QED
  BY <1>3, <1>4

(* u is the vector s with the new fields where they cover the range. *)
IsRewritten(u, s, lo, hi, new) ==
    /\ Ordered(u)
    /\ \A m : \A a \in Nat, w \in {0, 1} : Tracks(u, a, w, m) <=>
          \E i \in 1 .. Len(s) : Covers(s[i], a, w) /\ m = Written(Fields(s[i]), a, w, lo, hi, new)

(* Rewriting the run keeps the order, and changes what is tracked in the range
   alone, to what the new fields say. *)
LEMMA RewriteIs ==
    ASSUME NEW s, Ordered(s), NEW f, NEW l, NEW lo \in Address, NEW hi \in Address, lo < hi,
           NEW new \in News, Run(s, f, l, lo, hi)
    PROVE  IsRewritten(Rewrite(s, f, l, lo, hi, new), s, lo, hi, new)
<1> DEFINE p == SubSeq(s, 1, f - 1)
           b == Ahead(s, f, l, lo, new)
           q == Pieces(s, f, l, lo, hi, new)
           c == Behind(s, f, l, hi, new)
           r == SubSeq(s, l + 1, Len(s))
<1>1. Rewrite(s, f, l, lo, hi, new) = p \o b \o q \o c \o r
  BY DEF Rewrite, Ahead, Pieces, Piece, Behind
<1>2. /\ Len(s) \in Nat /\ f \in Nat /\ l \in Nat /\ lo \in Nat /\ hi \in Nat
      /\ f >= 1 /\ l <= Len(s) /\ f - 1 <= l
      /\ \A i \in f .. l : i \in 1 .. Len(s)
  BY Addresses DEF Ordered, Run
<1>0. FirstPart(p, s, f, lo) /\ LastPart(r, s, l, hi)
  BY Zenon, <1>2, PartsOfRun
<1> HIDE DEF p, r
<1>3. /\ Ordered(p) /\ Len(p) = f - 1 /\ Parts(p, s, 1, f - 1)
      /\ \A i \in 1 .. f - 1 : i \in 1 .. Len(s) /\ p[i] = s[i] /\ s[i].end <= lo
      /\ \A a, w, m : Tracks(p, a, w, m) <=>
                          \E i \in 1 .. f - 1 : Covers(s[i], a, w) /\ Fields(s[i]) = m
      /\ Ordered(r) /\ Len(r) = Len(s) - l /\ Parts(r, s, l + 1, Len(s))
      /\ \A i \in 1 .. Len(s) - l : l + i \in 1 .. Len(s) /\ r[i] = s[l + i] /\ hi <= s[l + i].start
      /\ \A a, w, m : Tracks(r, a, w, m) <=>
                          \E i \in l + 1 .. Len(s) : Covers(s[i], a, w) /\ Fields(s[i]) = m
  BY <1>0 DEF FirstPart, LastPart
<1>4. /\ Ordered(b)
      /\ \A i \in 1 .. Len(b) : /\ f <= l /\ Changes(s[f], new)
                                /\ PartOf(b[i], s[f]) /\ b[i].start < lo /\ b[i].end = lo
      /\ \A m : \A a \in Nat, w \in {0, 1} : Tracks(b, a, w, m) <=>
            f <= l /\ Changes(s[f], new) /\ Covers(s[f], a, w) /\ a + w <= lo /\ Fields(s[f]) = m
      /\ Ordered(c)
      /\ \A i \in 1 .. Len(c) : /\ f <= l /\ Changes(s[l], new)
                                /\ PartOf(c[i], s[l]) /\ c[i].start = hi /\ hi < c[i].end
      /\ \A m : \A a \in Nat, w \in {0, 1} : Tracks(c, a, w, m) <=>
            f <= l /\ Changes(s[l], new) /\ Covers(s[l], a, w) /\ hi <= a /\ Fields(s[l]) = m
  BY EndsAre
<1>5. /\ Ordered(q) /\ Len(q) = l - f + 1
      /\ \A k \in 1 .. l - f + 1 :
            /\ f + k - 1 \in f .. l /\ f + k - 1 \in 1 .. Len(s)
            /\ q[k] = Piece(s[f + k - 1], lo, hi, new)
            /\ PartOf(q[k], s[f + k - 1])
      /\ \A a, w, m : Tracks(q, a, w, m) <=>
            \E i \in f .. l : /\ Covers(Piece(s[i], lo, hi, new), a, w)
                              /\ Fields(Piece(s[i], lo, hi, new)) = m
  BY PiecesAre
<1>6. \A i \in f .. l :
        LET x == Piece(s[i], lo, hi, new) IN
        /\ s[i] \in Item /\ s[i].start <= s[i].end /\ lo < s[i].end /\ s[i].start < hi
        /\ x \in Item /\ PartOf(x, s[i])
        /\ Changes(s[i], new) => lo <= x.start /\ x.end <= hi
        /\ \A a \in Nat, w \in {0, 1} : Covers(s[i], a, w) /\ lo < a + w /\ a < hi => Covers(x, a, w)
        /\ Fields(x) = With(Fields(s[i]), new)
        /\ ~Changes(s[i], new) => x = s[i] /\ With(Fields(s[i]), new) = Fields(s[i])
  <2>1. ASSUME NEW i \in f .. l
        PROVE  s[i] \in Item /\ s[i].start <= s[i].end /\ lo < s[i].end /\ s[i].start < hi
    BY <1>2, OrderedFields DEF Run
  <2>2. QED
    BY <2>1, PieceIs
<1>7. \A i \in 1 .. Len(s) : /\ s[i] \in Item /\ s[i].start \in Nat /\ s[i].end \in Nat
                             /\ s[i].start <= s[i].end
  BY OrderedFields
<1>8. \A i, j \in 1 .. Len(s) : i < j => s[i].end <= s[j].start
  BY DEF Ordered, Earlier
<1> HIDE DEF b, q, c
<1>9. Parts(b, s, f, f) /\ Parts(q, s, f, l) /\ Parts(c, s, l, l)
  <2>1. Parts(b, s, f, f)
    BY <1>2, <1>4 DEF Parts
  <2>2. Parts(q, s, f, l)
    <3>1. \A i \in f .. l : f <= i /\ i <= l
      BY <1>2
    <3>2. QED
      BY <1>5, <3>1 DEF Parts
  <2>3. Parts(c, s, l, l)
    BY <1>2, <1>4 DEF Parts
  <2>4. QED
    BY <2>1, <2>2, <2>3
<1>12. Precedes(p, b) /\ Precedes(p, q) /\ Precedes(p, c) /\ Precedes(p, r)
  <2>1. 1 \in Int /\ f - 1 \in Int /\ l + 1 \in Int /\ f - 1 < f /\ f - 1 < l + 1
    BY <1>2
  <2>2. Precedes(p, b) /\ Precedes(p, q)
    BY <1>2, <1>3, <1>9, <2>1, PartsPrecede
  <2>3. Precedes(p, r)
    BY <1>2, <1>3, <2>1, PartsPrecede
  <2>4. Precedes(p, c)
    <3>1. CASE f - 1 < l
      BY <1>2, <1>3, <1>9, <2>1, <3>1, PartsPrecede
    <3>2. CASE f - 1 = l
      <4>1. Len(c) = 0
        BY <1>2, <1>4, <3>2 DEF Ordered
      <4>2. QED
        BY <4>1 DEF Precedes
    <3>3. QED
      BY <1>2, <3>1, <3>2
  <2>5. QED
    BY <2>2, <2>3, <2>4
<1>13. Precedes(b, q)
  <2>1. SUFFICES ASSUME NEW i \in 1 .. Len(b), NEW k \in 1 .. Len(q)
                 PROVE  Earlier(b[i], q[k])
    BY DEF Precedes
  <2>2. /\ f \in f .. l /\ f \in 1 .. Len(s) /\ Changes(s[f], new)
        /\ PartOf(b[i], s[f]) /\ b[i].start < lo /\ b[i].end = lo
    BY <1>2, <1>4
  <2>3. PICK j \in f .. l : /\ j \in 1 .. Len(s) /\ q[k] = Piece(s[j], lo, hi, new)
                            /\ PartOf(q[k], s[j])
    BY <1>5
  <2>4. CASE j = f
    BY <1>2, <1>6, <2>2, <2>3, <2>4 DEF Earlier, PartOf
  <2>5. CASE j > f
    <3>1. Earlier(s[f], s[j]) /\ s[f] \in Item /\ s[j] \in Item
      BY <1>7, <2>2, <2>3, <2>5 DEF Ordered
    <3>2. QED
      BY <2>2, <2>3, <3>1, PartsEarlier
  <2>6. QED
    BY <1>2, <2>3, <2>4, <2>5
<1>14. Precedes(b, c)
  BY <1>2, <1>4 DEF Precedes, Earlier, PartOf
<1>15. Precedes(b, r)
  <2>1. SUFFICES ASSUME Len(b) # 0
                 PROVE  Precedes(b, r)
    <3>1. Len(b) = 0 => Precedes(b, r)
      BY DEF Precedes
    <3>2. QED
      BY <3>1
  <2>2. f <= l
    BY <1>4, <2>1 DEF Ordered
  <2>3. QED
    BY <1>2, <1>3, <1>9, <2>2, PartsPrecede
<1>16. Precedes(q, c)
  <2>1. SUFFICES ASSUME NEW k \in 1 .. Len(q), NEW i \in 1 .. Len(c)
                 PROVE  Earlier(q[k], c[i])
    BY DEF Precedes
  <2>2. /\ l \in f .. l /\ l \in 1 .. Len(s) /\ Changes(s[l], new)
        /\ PartOf(c[i], s[l]) /\ c[i].start = hi /\ hi < c[i].end
    BY <1>2, <1>4
  <2>3. PICK j \in f .. l : /\ j \in 1 .. Len(s) /\ q[k] = Piece(s[j], lo, hi, new)
                            /\ PartOf(q[k], s[j])
    BY <1>5
  <2>4. CASE j = l
    BY <1>2, <1>6, <2>2, <2>3, <2>4 DEF Earlier, PartOf
  <2>5. CASE j < l
    <3>1. Earlier(s[j], s[l]) /\ s[l] \in Item /\ s[j] \in Item
      BY <1>7, <2>2, <2>3, <2>5 DEF Ordered
    <3>2. QED
      BY <2>2, <2>3, <3>1, PartsEarlier
  <2>6. QED
    BY <1>2, <2>3, <2>4, <2>5
<1>17. Precedes(q, r) /\ Precedes(c, r)
  BY <1>2, <1>3, <1>9, PartsPrecede
<1>19. /\ Ordered(p \o b \o q \o c \o r)
       /\ \A a, w, m : Tracks(p \o b \o q \o c \o r, a, w, m) <=>
                        \/ Tracks(p, a, w, m) \/ Tracks(b, a, w, m) \/ Tracks(q, a, w, m)
                        \/ Tracks(c, a, w, m) \/ Tracks(r, a, w, m)
  BY <1>3, <1>4, <1>5, <1>12, <1>13, <1>14, <1>15, <1>16, <1>17, FiveParts
<1>20. ASSUME NEW a \in Nat, NEW w \in {0, 1}, NEW m
       PROVE  \/ Tracks(p, a, w, m) \/ Tracks(b, a, w, m) \/ Tracks(q, a, w, m)
              \/ Tracks(c, a, w, m) \/ Tracks(r, a, w, m)
              <=> \E i \in 1 .. Len(s) :
                     Covers(s[i], a, w) /\ m = Written(Fields(s[i]), a, w, lo, hi, new)
  <2>1. ASSUME NEW i \in 1 .. f - 1, Covers(s[i], a, w)
        PROVE  i \in 1 .. Len(s) /\ Written(Fields(s[i]), a, w, lo, hi, new) = Fields(s[i])
    BY <1>2, <1>3, <1>7, <2>1 DEF Covers, Written, Within
  <2>2. ASSUME NEW i \in l + 1 .. Len(s), Covers(s[i], a, w)
        PROVE  i \in 1 .. Len(s) /\ Written(Fields(s[i]), a, w, lo, hi, new) = Fields(s[i])
    <3>1. i \in 1 .. Len(s) /\ hi <= s[i].start
      BY <1>2 DEF Run
    <3>2. QED
      BY <1>2, <1>7, <2>2, <3>1 DEF Covers, Written, Within
  <2>3. ASSUME NEW i \in f .. l, Covers(s[i], a, w), ~Changes(s[i], new)
        PROVE  Written(Fields(s[i]), a, w, lo, hi, new) = Fields(s[i])
    BY <1>6, <2>3 DEF Written
  <2>4. ASSUME NEW i \in f .. l, Covers(s[i], a, w), a + w <= lo
        PROVE  i = f
    <3>1. /\ i \in 1 .. Len(s) /\ f \in 1 .. Len(s) /\ f \in f .. l /\ i >= f
      BY <1>2
    <3>2. s[i].start <= a /\ lo < s[f].end /\ s[i].start \in Nat /\ s[f].end \in Nat
      BY <1>6, <1>7, <2>4, <3>1 DEF Covers
    <3>3. i > f => s[f].end <= s[i].start
      BY <1>8, <3>1
    <3>4. ~(i > f)
      BY <1>2, <2>4, <3>2, <3>3
    <3>5. QED
      BY <1>2, <3>1, <3>4
  <2>5. ASSUME NEW i \in f .. l, Covers(s[i], a, w), hi <= a
        PROVE  i = l
    <3>1. /\ i \in 1 .. Len(s) /\ l \in 1 .. Len(s) /\ l \in f .. l /\ i <= l
      BY <1>2
    <3>2. a + w <= s[i].end /\ s[l].start < hi /\ s[i].end \in Nat /\ s[l].start \in Nat
      BY <1>6, <1>7, <2>5, <3>1 DEF Covers
    <3>3. i < l => s[i].end <= s[l].start
      BY <1>8, <3>1
    <3>4. ~(i < l)
      BY <1>2, <2>5, <3>2, <3>3
    <3>5. QED
      BY <1>2, <3>1, <3>4
  <2>6. ASSUME NEW i \in 1 .. Len(s), Covers(s[i], a, w), m = Written(Fields(s[i]), a, w, lo, hi, new)
        PROVE  \/ Tracks(p, a, w, m) \/ Tracks(b, a, w, m) \/ Tracks(q, a, w, m)
               \/ Tracks(c, a, w, m) \/ Tracks(r, a, w, m)
    <3>1. CASE i < f
      <4>1. i \in 1 .. f - 1 /\ Fields(s[i]) = m
        BY <1>2, <2>1, <2>6, <3>1
      <4>2. QED
        BY <1>3, <2>6, <4>1
    <3>2. CASE i > l
      <4>1. i \in l + 1 .. Len(s) /\ Fields(s[i]) = m
        BY <1>2, <2>2, <2>6, <3>2
      <4>2. QED
        BY <1>3, <2>6, <4>1
    <3>3. CASE i \in f .. l /\ ~Changes(s[i], new)
      BY <1>5, <1>6, <2>3, <2>6, <3>3
    <3>4. CASE i \in f .. l /\ Changes(s[i], new) /\ a + w <= lo
      <4>1. i = f /\ f <= l /\ Fields(s[i]) = m
        BY <1>2, <2>4, <2>6, <3>4 DEF Written, Within
      <4>2. QED
        BY <1>4, <2>6, <3>4, <4>1
    <3>5. CASE i \in f .. l /\ Changes(s[i], new) /\ hi <= a
      <4>1. i = l /\ f <= l /\ Fields(s[i]) = m
        BY <1>2, <2>5, <2>6, <3>5 DEF Written, Within
      <4>2. QED
        BY <1>4, <2>6, <3>5, <4>1
    <3>6. CASE i \in f .. l /\ Changes(s[i], new) /\ lo < a + w /\ a < hi
      BY <1>5, <1>6, <2>6, <3>6 DEF Written, Within
    <3>7. QED
      BY <1>2, <3>1, <3>2, <3>3, <3>4, <3>5, <3>6
  <2>7. ASSUME Tracks(p, a, w, m)
        PROVE  \E i \in 1 .. Len(s) : Covers(s[i], a, w) /\ m = Written(Fields(s[i]), a, w, lo, hi, new)
    BY <1>3, <2>1, <2>7
  <2>8. ASSUME Tracks(r, a, w, m)
        PROVE  \E i \in 1 .. Len(s) : Covers(s[i], a, w) /\ m = Written(Fields(s[i]), a, w, lo, hi, new)
    BY <1>3, <2>2, <2>8
  <2>9. ASSUME Tracks(b, a, w, m)
        PROVE  \E i \in 1 .. Len(s) : Covers(s[i], a, w) /\ m = Written(Fields(s[i]), a, w, lo, hi, new)
    <3>1. f \in 1 .. Len(s) /\ Covers(s[f], a, w) /\ a + w <= lo /\ Fields(s[f]) = m
      BY <1>2, <1>4, <2>9
    <3>2. m = Written(Fields(s[f]), a, w, lo, hi, new)
      BY <1>2, <3>1 DEF Written, Within
    <3>3. QED
      BY <3>1, <3>2
  <2>10. ASSUME Tracks(c, a, w, m)
         PROVE  \E i \in 1 .. Len(s) : Covers(s[i], a, w) /\ m = Written(Fields(s[i]), a, w, lo, hi, new)
    <3>1. l \in 1 .. Len(s) /\ Covers(s[l], a, w) /\ hi <= a /\ Fields(s[l]) = m
      BY <1>2, <1>4, <2>10
    <3>2. m = Written(Fields(s[l]), a, w, lo, hi, new)
      BY <1>2, <3>1 DEF Written, Within
    <3>3. QED
      BY <3>1, <3>2
  <2>11. ASSUME Tracks(q, a, w, m)
         PROVE  \E i \in 1 .. Len(s) : Covers(s[i], a, w) /\ m = Written(Fields(s[i]), a, w, lo, hi, new)
    <3>1. PICK i \in f .. l : /\ Covers(Piece(s[i], lo, hi, new), a, w)
                              /\ Fields(Piece(s[i], lo, hi, new)) = m
      BY <1>5, <2>11
    <3> DEFINE x == Piece(s[i], lo, hi, new)
    <3>2. /\ i \in 1 .. Len(s) /\ s[i].start \in Nat /\ s[i].end \in Nat
          /\ s[i].start <= s[i].end /\ lo < s[i].end /\ s[i].start < hi
          /\ PartOf(x, s[i]) /\ Covers(x, a, w) /\ m = With(Fields(s[i]), new)
      BY Zenon, <1>2, <1>6, <1>7, <3>1
    <3>3. Changes(s[i], new) => lo <= x.start /\ x.end <= hi
      BY <1>6
    <3>4. ~Changes(s[i], new) => With(Fields(s[i]), new) = Fields(s[i])
      BY <1>6
    <3> HIDE DEF x
    <3>5. Covers(s[i], a, w)
      BY <3>2 DEF Covers, PartOf, Width
    <3>6. Changes(s[i], new) => Within(a, w, lo, hi)
      BY <1>2, <3>2, <3>3 DEF Covers, PartOf, Width, Within
    <3>8. m = Written(Fields(s[i]), a, w, lo, hi, new)
      BY <3>2, <3>4, <3>6 DEF Written
    <3>9. QED
      BY <3>2, <3>5, <3>8
  <2>12. QED
    BY <2>6, <2>7, <2>8, <2>9, <2>10, <2>11
<1> DEFINE u == p \o b \o q \o c \o r
<1>21. IsRewritten(u, s, lo, hi, new)
  BY <1>19, <1>20 DEF IsRewritten
<1> HIDE DEF u
<1>22. Rewrite(s, f, l, lo, hi, new) = u
  BY <1>1 DEF u
<1>23. QED
  BY <1>21, <1>22

(* Cutting the run out keeps the order, and forgets the range alone: an empty
   range forgets nothing, even where it splits an item. *)
LEMMA CutOutIs ==
    ASSUME NEW s, Ordered(s), NEW f, NEW l, NEW lo \in Address, NEW hi \in Address, lo <= hi,
           Run(s, f, l, lo, hi)
    PROVE  /\ Ordered(CutOut(s, f, l, lo, hi))
           /\ \A m : \A a \in Nat, w \in {0, 1} : Tracks(CutOut(s, f, l, lo, hi), a, w, m) <=>
                                        Tracks(s, a, w, m) /\ ~Within(a, w, lo, hi)
<1> DEFINE p == SubSeq(s, 1, f - 1)
           q == IF f <= l THEN Before(s[f], lo) \o After(s[l], hi) ELSE <<>>
           r == SubSeq(s, l + 1, Len(s))
<1>1. CutOut(s, f, l, lo, hi) = p \o q \o r
  BY DEF CutOut
<1>2. /\ Len(s) \in Nat /\ f \in Nat /\ l \in Nat /\ lo \in Nat /\ hi \in Nat
      /\ f >= 1 /\ l <= Len(s) /\ f - 1 <= l
      /\ \A i \in f .. l : i \in 1 .. Len(s)
  BY Addresses DEF Ordered, Run
<1>3. FirstPart(p, s, f, lo) /\ LastPart(r, s, l, hi)
  BY <1>2, PartsOfRun
<1> HIDE DEF p, r
<1>4. /\ Ordered(p) /\ Len(p) = f - 1 /\ Parts(p, s, 1, f - 1)
      /\ \A i \in 1 .. f - 1 : i \in 1 .. Len(s) /\ p[i] = s[i] /\ s[i].end <= lo
      /\ \A a, w, m : Tracks(p, a, w, m) <=>
                          \E i \in 1 .. f - 1 : Covers(s[i], a, w) /\ Fields(s[i]) = m
      /\ Ordered(r) /\ Len(r) = Len(s) - l /\ Parts(r, s, l + 1, Len(s))
      /\ \A i \in 1 .. Len(s) - l : l + i \in 1 .. Len(s) /\ r[i] = s[l + i] /\ hi <= s[l + i].start
      /\ \A a, w, m : Tracks(r, a, w, m) <=>
                          \E i \in l + 1 .. Len(s) : Covers(s[i], a, w) /\ Fields(s[i]) = m
  BY <1>3 DEF FirstPart, LastPart
<1>5. \A i \in 1 .. Len(s) : /\ s[i] \in Item /\ s[i].start \in Nat /\ s[i].end \in Nat
                             /\ s[i].start <= s[i].end
  BY OrderedFields
<1>6. \A i, j \in 1 .. Len(s) : i < j => s[i].end <= s[j].start
  BY DEF Ordered, Earlier
<1>7. /\ Ordered(q)
      /\ \A k \in 1 .. Len(q) : f <= l /\ (PartOf(q[k], s[f]) \/ PartOf(q[k], s[l]))
      /\ \A m : \A a \in Nat, w \in {0, 1} : Tracks(q, a, w, m) <=>
            /\ f <= l
            /\ \/ Covers(s[f], a, w) /\ a + w <= lo /\ Fields(s[f]) = m
               \/ Covers(s[l], a, w) /\ hi <= a /\ Fields(s[l]) = m
  <2>1. CASE f <= l
    <3> DEFINE b == Before(s[f], lo)
               c == After(s[l], hi)
    <3>1. /\ f \in f .. l /\ l \in f .. l /\ f \in 1 .. Len(s) /\ l \in 1 .. Len(s)
          /\ lo < s[f].end /\ s[l].start < hi
      BY <1>2, <2>1 DEF Run
    <3>2. /\ Ordered(b)
          /\ \A m : \A a \in Nat, w \in {0, 1} : Tracks(b, a, w, m) <=> Covers(s[f], a, w) /\ a + w <= lo /\ Fields(s[f]) = m
          /\ \A i \in 1 .. Len(b) : PartOf(b[i], s[f]) /\ b[i].start < lo /\ b[i].end = lo
      BY <1>5, <3>1, BeforeIs
    <3>3. /\ Ordered(c)
          /\ \A m : \A a \in Nat, w \in {0, 1} : Tracks(c, a, w, m) <=> Covers(s[l], a, w) /\ hi <= a /\ Fields(s[l]) = m
          /\ \A i \in 1 .. Len(c) : PartOf(c[i], s[l]) /\ c[i].start = hi /\ hi < c[i].end
      BY <1>5, <3>1, AfterIs
    <3> HIDE DEF b, c
    <3>4. Precedes(b, c)
      BY <1>2, <3>2, <3>3 DEF Precedes, Earlier, PartOf
    <3>5. /\ Ordered(b \o c) /\ Len(b \o c) = Len(b) + Len(c)
          /\ \A a, w, m : Tracks(b \o c, a, w, m) <=> Tracks(b, a, w, m) \/ Tracks(c, a, w, m)
          /\ \A i \in 1 .. Len(b) : (b \o c)[i] = b[i]
          /\ \A i \in 1 .. Len(c) : (b \o c)[Len(b) + i] = c[i]
      BY <3>2, <3>3, <3>4, ConcatOrdered
    <3>6. q = b \o c
      BY <2>1 DEF b, c
    <3>7. Len(b) \in Nat /\ Len(c) \in Nat
      BY <3>2, <3>3 DEF Ordered
    <3> HIDE DEF q
    <3>8. ASSUME NEW k \in 1 .. Len(q)
          PROVE  PartOf(q[k], s[f]) \/ PartOf(q[k], s[l])
      <4>1. CASE k <= Len(b)
        BY <3>2, <3>5, <3>6, <3>7, <4>1
      <4>2. CASE k > Len(b)
        <5>1. k - Len(b) \in 1 .. Len(c) /\ Len(b) + (k - Len(b)) = k
          BY <3>5, <3>6, <3>7, <4>2
        <5>2. q[k] = c[k - Len(b)]
          BY <3>5, <3>6, <5>1
        <5>3. QED
          BY <3>3, <5>1, <5>2
      <4>3. QED
        BY <3>7, <4>1, <4>2
    <3>9. ASSUME NEW m, NEW a \in Nat, NEW w \in {0, 1}
          PROVE  Tracks(q, a, w, m) <=>
                    \/ Covers(s[f], a, w) /\ a + w <= lo /\ Fields(s[f]) = m
                    \/ Covers(s[l], a, w) /\ hi <= a /\ Fields(s[l]) = m
      <4>1. Tracks(q, a, w, m) <=> Tracks(b, a, w, m) \/ Tracks(c, a, w, m)
        BY <3>5, <3>6
      <4>2. Tracks(b, a, w, m) <=> Covers(s[f], a, w) /\ a + w <= lo /\ Fields(s[f]) = m
        BY <3>2
      <4>3. Tracks(c, a, w, m) <=> Covers(s[l], a, w) /\ hi <= a /\ Fields(s[l]) = m
        BY <3>3
      <4>4. QED
        BY ONLY <4>1, <4>2, <4>3
    <3>10. Ordered(q)
      BY <3>5, <3>6
    <3>11. QED
      BY <2>1, <3>8, <3>9, <3>10
  <2>2. CASE ~(f <= l)
    <3>1. q = <<>> /\ Len(q) = 0
      BY <2>2
    <3> HIDE DEF q
    <3>2. QED
      BY <2>2, <3>1, None
  <2>3. QED
    BY <2>1, <2>2
<1> HIDE DEF q
<1>8. Precedes(p, q) /\ Precedes(q, r)
  <2>1. CASE f <= l
    <3>1. f \in 1 .. Len(s) /\ l \in 1 .. Len(s)
      BY <1>2, <2>1
    <3>2. Parts(q, s, f, l)
      BY <1>2, <1>7, <2>1, <3>1 DEF Parts
    <3>3. f - 1 < f /\ l < l + 1 /\ 1 \in Int /\ f - 1 \in Int /\ l + 1 \in Int
      BY <1>2
    <3>4. QED
      BY <1>2, <1>4, <3>2, <3>3, PartsPrecede
  <2>2. CASE ~(f <= l)
    <3>1. Len(q) = 0
      BY <1>7, <2>2 DEF Ordered
    <3>2. QED
      BY <3>1 DEF Precedes
  <2>3. QED
    BY <2>1, <2>2
<1>9. Precedes(p, r)
  <2>1. f - 1 < l + 1 /\ 1 \in Int /\ f - 1 \in Int /\ l + 1 \in Int
    BY <1>2
  <2>2. QED
    BY <1>2, <1>4, <2>1, PartsPrecede
<1>11. /\ Ordered(p \o q \o r)
       /\ \A a, w, m : Tracks(p \o q \o r, a, w, m) <=>
                        Tracks(p, a, w, m) \/ Tracks(q, a, w, m) \/ Tracks(r, a, w, m)
  BY <1>4, <1>7, <1>8, <1>9, ThreeParts
<1>10. \A a, w, m : Tracks(p, a, w, m) =>
                       \E i \in 1 .. f - 1 : Covers(s[i], a, w) /\ Fields(s[i]) = m
  BY <1>3 DEF FirstPart
<1>14. \A a, w, m : Tracks(r, a, w, m) =>
                       \E i \in l + 1 .. Len(s) : Covers(s[i], a, w) /\ Fields(s[i]) = m
  BY <1>3 DEF LastPart
<1>12. ASSUME NEW m, NEW a \in Nat, NEW w \in {0, 1}
       PROVE  Tracks(p, a, w, m) \/ Tracks(q, a, w, m) \/ Tracks(r, a, w, m)
              <=> Tracks(s, a, w, m) /\ ~Within(a, w, lo, hi)
  <2>1. ASSUME NEW i \in 1 .. f - 1, Covers(s[i], a, w)
        PROVE  i \in 1 .. Len(s) /\ ~Within(a, w, lo, hi)
    BY <1>2, <1>4, <1>5, <2>1, SMTT(40) DEF Covers, Within
  <2>2. ASSUME NEW i \in l + 1 .. Len(s), Covers(s[i], a, w)
        PROVE  i \in 1 .. Len(s) /\ ~Within(a, w, lo, hi)
    <3>1. i \in 1 .. Len(s) /\ hi <= s[i].start
      BY <1>2 DEF Run
    <3>2. QED
      BY <1>2, <1>5, <2>2, <3>1 DEF Covers, Within
  <2>3. ASSUME NEW i \in f .. l, Covers(s[i], a, w), a + w <= lo
        PROVE  i = f
    <3>1. /\ i \in 1 .. Len(s) /\ f \in 1 .. Len(s) /\ f \in f .. l /\ i >= f
      BY <1>2
    <3>2. s[i].start <= a /\ lo < s[f].end /\ s[i].start \in Nat /\ s[f].end \in Nat
      BY <1>5, <2>3, <3>1 DEF Covers, Run
    <3>3. i > f => s[f].end <= s[i].start
      BY <1>6, <3>1
    <3>4. ~(i > f)
      BY <1>2, <2>3, <3>2, <3>3
    <3>5. QED
      BY <1>2, <3>1, <3>4
  <2>4. ASSUME NEW i \in f .. l, Covers(s[i], a, w), hi <= a
        PROVE  i = l
    <3>1. /\ i \in 1 .. Len(s) /\ l \in 1 .. Len(s) /\ l \in f .. l /\ i <= l
      BY <1>2
    <3>2. a + w <= s[i].end /\ s[l].start < hi /\ s[i].end \in Nat /\ s[l].start \in Nat
      BY <1>5, <2>4, <3>1 DEF Covers, Run
    <3>3. i < l => s[i].end <= s[l].start
      BY <1>6, <3>1
    <3>4. ~(i < l)
      BY <1>2, <2>4, <3>2, <3>3
    <3>5. QED
      BY <1>2, <3>1, <3>4
  <2>5. ASSUME NEW i \in 1 .. Len(s), Covers(s[i], a, w), Fields(s[i]) = m, ~Within(a, w, lo, hi)
        PROVE  Tracks(p, a, w, m) \/ Tracks(q, a, w, m) \/ Tracks(r, a, w, m)
    <3>1. CASE i < f
      <4>1. i \in 1 .. f - 1
        BY <1>2, <3>1
      <4>2. QED
        BY <1>4, <2>5, <4>1
    <3>2. CASE i > l
      <4>1. i \in l + 1 .. Len(s)
        BY <1>2, <3>2
      <4>2. QED
        BY <1>4, <2>5, <4>1
    <3>3. CASE i \in f .. l /\ a + w <= lo
      <4>1. i = f /\ f <= l
        BY <1>2, <2>3, <2>5, <3>3
      <4>2. QED
        BY <1>7, <2>5, <3>3, <4>1
    <3>4. CASE i \in f .. l /\ hi <= a
      <4>1. i = l /\ f <= l
        BY <1>2, <2>4, <2>5, <3>4
      <4>2. QED
        BY <1>7, <2>5, <3>4, <4>1
    <3>5. QED
      BY <1>2, <2>5, <3>1, <3>2, <3>3, <3>4 DEF Within
  <2>6. ASSUME Tracks(p, a, w, m) \/ Tracks(r, a, w, m)
        PROVE  Tracks(s, a, w, m) /\ ~Within(a, w, lo, hi)
    <3>1. CASE Tracks(p, a, w, m)
      <4>1. PICK i \in 1 .. f - 1 : Covers(s[i], a, w) /\ Fields(s[i]) = m
        BY <1>10, <3>1
      <4>2. i \in 1 .. Len(s) /\ ~Within(a, w, lo, hi)
        BY Zenon, <2>1, <4>1
      <4>3. QED
        BY <4>1, <4>2 DEF Tracks
    <3>2. CASE Tracks(r, a, w, m)
      <4>1. PICK i \in l + 1 .. Len(s) : Covers(s[i], a, w) /\ Fields(s[i]) = m
        BY <1>14, <3>2
      <4>2. i \in 1 .. Len(s) /\ ~Within(a, w, lo, hi)
        BY Zenon, <2>2, <4>1
      <4>3. QED
        BY <4>1, <4>2 DEF Tracks
    <3>3. QED
      BY <2>6, <3>1, <3>2
  <2>7. ASSUME Tracks(q, a, w, m)
        PROVE  Tracks(s, a, w, m) /\ ~Within(a, w, lo, hi)
    <3>1. f \in 1 .. Len(s) /\ l \in 1 .. Len(s)
      BY <1>2, <1>7, <2>7
    <3>2. Tracks(s, a, w, m)
      <4>1. \/ Covers(s[f], a, w) /\ Fields(s[f]) = m
            \/ Covers(s[l], a, w) /\ Fields(s[l]) = m
        BY <1>7, <2>7
      <4>2. QED
        BY <3>1, <4>1 DEF Tracks
    <3>3. a + w <= lo \/ hi <= a
      BY <1>7, <2>7
    <3>4. QED
      BY <1>2, <3>2, <3>3 DEF Within
  <2>8. QED
    BY <2>5, <2>6, <2>7 DEF Tracks
<1>13. QED
  BY <1>1, <1>11, <1>12

-----------------------------------------------------------------------------
(* The operations *)

(* The protection, flags and stack of a mapping. *)
FieldSet == [prot : Nat, flags : Nat, stack : Nat]

(* What is tracked has its types. *)
LEMMA TracksFields ==
    ASSUME NEW s, Ordered(s), NEW a, NEW w, NEW x, Tracks(s, a, w, x)
    PROVE  x \in FieldSet
<1>1. PICK i \in 1 .. Len(s) : Fields(s[i]) = x
  BY DEF Tracks
<1>2. s[i] \in Item
  BY OrderedFields
<1>3. QED
  BY <1>1, <1>2 DEF Item, Fields, FieldSet

(* find and LastHit delimit the run of a range. *)
LEMMA RunOfRange ==
    ASSUME NEW s, Ordered(s), NEW lo \in Address, NEW hi \in Address
    PROVE  Run(s, Find(s, lo), LastHit(s, Find(s, lo), lo, hi), lo, hi)
BY RunIs, Addresses DEF Run

(* munmap removes the addresses of its range and no other. *)
LEMMA DoMunmapIs ==
    ASSUME NEW s, Ordered(s), NEW lo \in Address, NEW hi \in Address, lo <= hi
    PROVE  /\ Ordered(DoMunmap(s, lo, hi))
           /\ \A m : \A a \in Nat, w \in {0, 1} : Tracks(DoMunmap(s, lo, hi), a, w, m) <=>
                                        Tracks(s, a, w, m) /\ ~Within(a, w, lo, hi)
<1> DEFINE f == Find(s, lo)
           l == LastHit(s, f, lo, hi)
<1>1. Run(s, f, l, lo, hi)
  BY RunOfRange
<1>2. DoMunmap(s, lo, hi) = CutOut(s, f, l, lo, hi)
  BY DEF DoMunmap
<1> HIDE DEF f, l
<1>3. QED
  BY <1>1, <1>2, CutOutIs

(* mprotect rewrites the protection of the tracked addresses of its range. *)
LEMMA DoMprotectIs ==
    ASSUME NEW s, Ordered(s), NEW lo \in Address, NEW hi \in Address, lo < hi, NEW prot \in Nat
    PROVE  /\ Ordered(DoMprotect(s, lo, hi, prot))
           /\ \A m : \A a \in Nat, w \in {0, 1} : Tracks(DoMprotect(s, lo, hi, prot), a, w, m) <=>
                 \/ ~Within(a, w, lo, hi) /\ Tracks(s, a, w, m)
                 \/ Within(a, w, lo, hi) /\ \E x : Tracks(s, a, w, x) /\ m = With(x, [prot |-> prot])
<1> DEFINE f == Find(s, lo)
           l == LastHit(s, f, lo, hi)
           new == [prot |-> prot]
           u == Rewrite(s, f, l, lo, hi, new)
<1>1. Run(s, f, l, lo, hi)
  BY RunOfRange
<1>2. DoMprotect(s, lo, hi, prot) = u
  BY DEF DoMprotect
<1>3. new \in News
  BY DEF News
<1>4. /\ Ordered(u)
      /\ \A m : \A a \in Nat, w \in {0, 1} : Tracks(u, a, w, m) <=>
            \E i \in 1 .. Len(s) : Covers(s[i], a, w) /\ m = Written(Fields(s[i]), a, w, lo, hi, new)
  <2> HIDE DEF f, l, new
  <2>1. IsRewritten(u, s, lo, hi, new)
    BY <1>1, <1>3, RewriteIs
  <2>2. QED
    BY <2>1 DEF IsRewritten
<1> HIDE DEF f, l, u, new
<1>5. ASSUME NEW m, NEW a \in Nat, NEW w \in {0, 1}
      PROVE  Tracks(u, a, w, m) <=> \/ ~Within(a, w, lo, hi) /\ Tracks(s, a, w, m)
                                    \/ Within(a, w, lo, hi) /\ \E x : Tracks(s, a, w, x) /\ m = With(x, new)
  <2>1. Tracks(u, a, w, m) <=>
            \E i \in 1 .. Len(s) : Covers(s[i], a, w) /\ m = Written(Fields(s[i]), a, w, lo, hi, new)
    BY <1>4
  <2>2. CASE Within(a, w, lo, hi)
    BY ONLY <2>1, <2>2, ZenonT(40) DEF Tracks, Written
  <2>3. CASE ~Within(a, w, lo, hi)
    BY ONLY <2>1, <2>3, ZenonT(40) DEF Tracks, Written
  <2>4. QED
    BY <2>2, <2>3
<1>6. \A m : \A a \in Nat, w \in {0, 1} : Tracks(u, a, w, m) <=>
            \/ ~Within(a, w, lo, hi) /\ Tracks(s, a, w, m)
            \/ Within(a, w, lo, hi) /\ \E x : Tracks(s, a, w, x) /\ m = With(x, new)
  BY <1>5
<1>7. QED
  BY <1>2, <1>4, <1>6 DEF new

(* new is other fields than those of the item, in protection. *)
LEMMA ChangesProt ==
    ASSUME NEW item \in Item, NEW prot \in Nat, Changes(item, [prot |-> prot])
    PROVE  item.prot # prot
<1>1. SUFFICES ASSUME item.prot = prot
               PROVE  With(item, [prot |-> prot]) = item
  BY DEF Changes
<1>2. /\ DOMAIN item = {"start", "end", "prot", "flags", "stack"}
      /\ item = [k \in {"start", "end", "prot", "flags", "stack"} |-> item[k]]
  BY DEF Item
<1>3. QED
  BY <1>1, <1>2 DEF With

(* The only item that an empty range is within. *)
LEMMA EmptyRun ==
    ASSUME NEW s, Ordered(s), NEW f, NEW l, NEW at \in Address, Run(s, f, l, at, at), f <= l
    PROVE  /\ f = l /\ f \in 1 .. Len(s) /\ s[f].start < at /\ at < s[f].end
           /\ \A i \in 1 .. Len(s) : i # f => s[i].end <= s[f].start \/ s[f].end <= s[i].start
<1>1. /\ f \in Nat /\ l \in Nat /\ Len(s) \in Nat /\ at \in Nat
      /\ f \in f .. l /\ l \in f .. l
  BY Addresses DEF Run, Ordered
<1>2. /\ f \in 1 .. Len(s) /\ l \in 1 .. Len(s)
      /\ at < s[f].end /\ s[f].start < at /\ at < s[l].end /\ s[l].start < at
  BY <1>1 DEF Run
<1>3. ~(f < l)
  BY <1>1, <1>2, OrderedFields DEF Ordered, Earlier
<1>4. \A i \in 1 .. Len(s) : i < f \/ i = f \/ f < i
  BY <1>1
<1>5. \A i \in 1 .. Len(s) : i # f => s[i].end <= s[f].start \/ s[f].end <= s[i].start
  BY Zenon, <1>2, <1>4 DEF Ordered, Earlier
<1>6. QED
  BY <1>1, <1>2, <1>3, <1>5

(* mprotect of an empty range leaves everything as it is, or splits the item
   around it and leaves an empty one in between. *)
LEMMA ProtectNothingIs ==
    ASSUME NEW s, Ordered(s), NEW at \in Address, NEW prot \in Nat
    PROVE  LET u == DoMprotect(s, at, at, prot) IN
           /\ Ordered(u)
           /\ \/ \A m : \A a \in Nat, w \in {0, 1} : Tracks(u, a, w, m) <=> Tracks(s, a, w, m)
              \/ /\ at - 1 \in Nat
                 /\ \A y : ~Tracks(s, at, 0, y)
                 /\ \E x : /\ Tracks(s, at - 1, 1, x) /\ Tracks(s, at, 1, x) /\ x.prot # prot
                         /\ \A m : \A a \in Nat, w \in {0, 1} : Tracks(u, a, w, m) <=>
                               \/ Tracks(s, a, w, m)
                               \/ a = at /\ w = 0 /\ m = With(x, [prot |-> prot])
<1> DEFINE f == Find(s, at)
           l == LastHit(s, f, at, at)
           new == [prot |-> prot]
           p == SubSeq(s, 1, f - 1)
           b == Ahead(s, f, l, at, new)
           q == Pieces(s, f, l, at, at, new)
           c == Behind(s, f, l, at, new)
           r == SubSeq(s, l + 1, Len(s))
<1>1. Run(s, f, l, at, at)
  BY RunOfRange
<1>2. DoMprotect(s, at, at, prot) = p \o b \o q \o c \o r
  BY DEF DoMprotect, Rewrite, Ahead, Pieces, Piece, Behind
<1>3. new \in News
  BY DEF News
<1> HIDE DEF f, l, new
<1>4. /\ Len(s) \in Nat /\ f \in Nat /\ l \in Nat /\ at \in Nat
      /\ f >= 1 /\ l <= Len(s) /\ f - 1 <= l
  BY <1>1, Addresses DEF Ordered, Run
<1>5. FirstPart(p, s, f, at) /\ LastPart(r, s, l, at)
  BY Zenon, <1>1, <1>4, PartsOfRun
<1> HIDE DEF p, r
<1>6. /\ Ordered(p) /\ Parts(p, s, 1, f - 1) /\ Ordered(r) /\ Parts(r, s, l + 1, Len(s))
      /\ \A a, w, m : Tracks(p, a, w, m) <=>
                          \E i \in 1 .. f - 1 : Covers(s[i], a, w) /\ Fields(s[i]) = m
      /\ \A a, w, m : Tracks(r, a, w, m) <=>
                          \E i \in l + 1 .. Len(s) : Covers(s[i], a, w) /\ Fields(s[i]) = m
  BY Zenon, <1>5 DEF FirstPart, LastPart
<1>7. Precedes(p, r)
  <2>1. f - 1 < l + 1 /\ 1 \in Int /\ f - 1 \in Int /\ l + 1 \in Int
    BY <1>4
  <2>2. QED
    BY <1>4, <1>6, <2>1, PartsPrecede
<1>8. ASSUME NEW a, NEW w, NEW m
      PROVE  Tracks(p, a, w, m) \/ Tracks(r, a, w, m) <=>
               \E i \in 1 .. Len(s) : (i < f \/ i > l) /\ Covers(s[i], a, w) /\ Fields(s[i]) = m
  <2>1. \A i : i \in 1 .. f - 1 <=> i \in 1 .. Len(s) /\ i < f
    BY <1>4
  <2>2. \A i : i \in l + 1 .. Len(s) <=> i \in 1 .. Len(s) /\ i > l
    BY <1>4
  <2>3. /\ Tracks(p, a, w, m) <=> \E i \in 1 .. f - 1 : Covers(s[i], a, w) /\ Fields(s[i]) = m
        /\ Tracks(r, a, w, m) <=> \E i \in l + 1 .. Len(s) : Covers(s[i], a, w) /\ Fields(s[i]) = m
    BY <1>6
  <2>4. QED
    BY ONLY Zenon, <2>1, <2>2, <2>3
<1>9. CASE ~(f <= l)
  <2>1. b = <<>> /\ c = <<>>
    BY <1>9 DEF Ahead, Behind
  <2>2. q = <<>>
    BY <1>4, <1>9 DEF Pieces
  <2> HIDE DEF b, q, c
  <2>3. Ordered(b) /\ Ordered(q) /\ Ordered(c)
    BY <2>1, <2>2, None
  <2>4. \A x : /\ Precedes(x, b) /\ Precedes(x, q) /\ Precedes(x, c)
               /\ Precedes(b, x) /\ Precedes(q, x) /\ Precedes(c, x)
    BY <2>1, <2>2, None
  <2>5. /\ Ordered(p \o b \o q \o c \o r)
        /\ \A a, w, m : Tracks(p \o b \o q \o c \o r, a, w, m) <=>
                            \/ Tracks(p, a, w, m) \/ Tracks(b, a, w, m) \/ Tracks(q, a, w, m)
                            \/ Tracks(c, a, w, m) \/ Tracks(r, a, w, m)
    BY <1>6, <1>7, <2>3, <2>4, FiveParts
  <2>6. \A i \in 1 .. Len(s) : i < f \/ i > l
    BY <1>4, <1>9
  <2>7. \A a, w, m : Tracks(p \o b \o q \o c \o r, a, w, m) <=> Tracks(s, a, w, m)
    <3>1. SUFFICES ASSUME NEW a, NEW w, NEW m
                   PROVE  Tracks(p \o b \o q \o c \o r, a, w, m) <=> Tracks(s, a, w, m)
      OBVIOUS
    <3>2. Tracks(p \o b \o q \o c \o r, a, w, m) <=> Tracks(p, a, w, m) \/ Tracks(r, a, w, m)
      BY <2>1, <2>2, <2>5, None
    <3>3. Tracks(p, a, w, m) \/ Tracks(r, a, w, m) <=>
               \E i \in 1 .. Len(s) : (i < f \/ i > l) /\ Covers(s[i], a, w) /\ Fields(s[i]) = m
      BY <1>8
    <3>4. QED
      BY ONLY Zenon, <2>6, <3>2, <3>3 DEF Tracks
  <2>8. QED
    BY <1>2, <2>5, <2>7
<1>10. ASSUME f <= l
       PROVE  /\ f = l /\ f \in 1 .. Len(s) /\ s[f].start < at /\ at < s[f].end
              /\ s[f] \in Item /\ s[f].start \in Nat /\ s[f].end \in Nat
              /\ q = <<Piece(s[f], at, at, new)>>
              /\ \A i \in 1 .. Len(s) : i < f \/ i = f \/ i > l
  <2>1. /\ f = l /\ f \in 1 .. Len(s) /\ s[f].start < at /\ at < s[f].end
    BY <1>1, <1>10, EmptyRun
  <2>2. q = [k \in 1 .. 1 |-> Piece(s[f + k - 1], at, at, new)]
    BY <1>4, <2>1 DEF Pieces
  <2>3. f + 1 - 1 = f
    BY <1>4
  <2> HIDE DEF q
  <2>4. q = <<Piece(s[f], at, at, new)>>
    BY <2>2, <2>3
  <2>5. \A i \in 1 .. Len(s) : i < f \/ i = f \/ i > l
    BY <1>4, <2>1
  <2>6. QED
    BY <2>1, <2>4, <2>5, OrderedFields
<1>11. CASE f <= l /\ ~Changes(s[f], new)
  <2>1. b = <<>> /\ c = <<>> /\ q = <<s[f]>>
    BY <1>10, <1>11 DEF Ahead, Behind, Piece
  <2> HIDE DEF b, q, c
  <2>2. /\ Ordered(q) /\ \A a, w, m : Tracks(q, a, w, m) <=> Covers(s[f], a, w) /\ Fields(s[f]) = m
        /\ Len(q) = 1 /\ q[1] = s[f]
    BY <1>4, <1>10, <1>11, <2>1, Single
  <2>3. Ordered(b) /\ Ordered(c)
    BY <2>1, None
  <2>4. \A x : Precedes(x, b) /\ Precedes(x, c) /\ Precedes(b, x) /\ Precedes(c, x)
    BY <2>1, None
  <2>5. Precedes(p, q) /\ Precedes(q, r)
    <3>1. PartOf(s[f], s[f])
      BY <1>10, <1>11, OrderedFields DEF PartOf
    <3>2. Parts(q, s, f, f)
      BY <1>4, <1>10, <1>11, <2>2, <3>1 DEF Parts
    <3>3. f - 1 < f /\ f < l + 1 /\ 1 \in Int /\ f - 1 \in Int /\ l + 1 \in Int
      BY <1>4, <1>11
    <3>4. QED
      BY <1>4, <1>6, <3>2, <3>3, PartsPrecede
  <2>6. /\ Ordered(p \o b \o q \o c \o r)
        /\ \A a, w, m : Tracks(p \o b \o q \o c \o r, a, w, m) <=>
                            \/ Tracks(p, a, w, m) \/ Tracks(b, a, w, m) \/ Tracks(q, a, w, m)
                            \/ Tracks(c, a, w, m) \/ Tracks(r, a, w, m)
    BY <1>6, <1>7, <2>2, <2>3, <2>4, <2>5, FiveParts
  <2>7. \A a, w, m : Tracks(p \o b \o q \o c \o r, a, w, m) <=>
                          Tracks(p, a, w, m) \/ Tracks(q, a, w, m) \/ Tracks(r, a, w, m)
    BY <2>1, <2>6, None
  <2>8. \A a, w, m : Tracks(p, a, w, m) \/ Tracks(q, a, w, m) \/ Tracks(r, a, w, m) <=> Tracks(s, a, w, m)
    <3>1. SUFFICES ASSUME NEW a, NEW w, NEW m
                   PROVE  Tracks(p, a, w, m) \/ Tracks(q, a, w, m) \/ Tracks(r, a, w, m) <=>
                            Tracks(s, a, w, m)
      OBVIOUS
    <3>2. Tracks(q, a, w, m) <=> Covers(s[f], a, w) /\ Fields(s[f]) = m
      BY <2>2
    <3>3. Tracks(p, a, w, m) \/ Tracks(r, a, w, m) <=>
               \E i \in 1 .. Len(s) : (i < f \/ i > l) /\ Covers(s[i], a, w) /\ Fields(s[i]) = m
      BY <1>8
    <3>4. QED
      BY ZenonT(40), <1>10, <1>11, <3>2, <3>3 DEF Tracks
  <2>9. QED
    BY <1>2, <2>6, <2>7, <2>8
<1>12. CASE f <= l /\ Changes(s[f], new)
  <2> DEFINE y == Piece(s[f], at, at, new)
             x == Fields(s[f])
  <2>1. /\ y \in Item /\ y.start = at /\ y.end = at /\ Fields(y) = With(x, new)
    <3> DEFINE d == Clip(s[f], at, at)
    <3>1. d \in Item /\ d.start = at /\ d.end = at /\ Fields(d) = Fields(s[f])
      BY <1>4, <1>10, <1>12 DEF Clip, Item, Fields
    <3>2. y = With(d, new)
      BY <1>12 DEF Piece
    <3> HIDE DEF d
    <3>3. QED
      BY <1>3, <3>1, <3>2, WithIs
  <2>2. q = <<y>>
    BY <1>10, <1>12
  <2> HIDE DEF y, q
  <2>3. /\ Ordered(q) /\ Len(q) = 1 /\ q[1] = y
        /\ \A a, w, m : Tracks(q, a, w, m) <=> Covers(y, a, w) /\ Fields(y) = m
    BY <1>4, <2>1, <2>2, Single
  <2>4. /\ Ordered(b)
        /\ \A i \in 1 .. Len(b) : PartOf(b[i], s[f]) /\ b[i].start < at /\ b[i].end = at
        /\ \A m : \A a \in Nat, w \in {0, 1} : Tracks(b, a, w, m) <=>
              f <= l /\ Changes(s[f], new) /\ Covers(s[f], a, w) /\ a + w <= at /\ Fields(s[f]) = m
    BY <1>1, EndsAre
  <2>5. /\ Ordered(c)
        /\ \A i \in 1 .. Len(c) : PartOf(c[i], s[l]) /\ c[i].start = at /\ at < c[i].end
        /\ \A m : \A a \in Nat, w \in {0, 1} : Tracks(c, a, w, m) <=>
              f <= l /\ Changes(s[l], new) /\ Covers(s[l], a, w) /\ at <= a /\ Fields(s[l]) = m
    BY <1>1, EndsAre
  <2> HIDE DEF b, c
  <2>6. f = l /\ f \in 1 .. Len(s) /\ f - 1 < f /\ f < l + 1 /\ 1 \in Int /\ f - 1 \in Int /\ l + 1 \in Int
    BY <1>4, <1>10, <1>12
  <2>7. Parts(b, s, f, f) /\ Parts(c, s, f, f)
    BY <1>4, <2>4, <2>5, <2>6 DEF Parts
  <2>8. /\ Precedes(p, b) /\ Precedes(p, c) /\ Precedes(b, r) /\ Precedes(c, r)
    BY <1>4, <1>6, <2>6, <2>7, PartsPrecede
  <2>9. /\ Precedes(b, c) /\ Precedes(b, q) /\ Precedes(q, c)
    BY <1>4, <2>1, <2>3, <2>4, <2>5 DEF Precedes, Earlier, PartOf
  <2>10. /\ Precedes(p, q) /\ Precedes(q, r)
    <3>1. ASSUME NEW i \in 1 .. Len(p)
          PROVE  Earlier(p[i], y)
      <4>1. PICK n \in 1 .. Len(s) : n <= f - 1 /\ PartOf(p[i], s[n])
        BY <1>6 DEF Parts
      <4>2. s[n].end <= s[f].start /\ s[n].end \in Nat
        BY <1>4, <2>6, <4>1, OrderedFields DEF Ordered, Earlier
      <4>3. s[f].start < at /\ s[f].start \in Nat /\ at \in Nat
        BY <1>4, <1>10, <1>12
      <4>4. p[i].start \in Nat /\ p[i].end \in Nat /\ p[i].start <= p[i].end /\ p[i].end <= s[n].end
        BY <4>1 DEF PartOf
      <4>5. QED
        BY ONLY <2>1, <4>2, <4>3, <4>4 DEF Earlier
    <3>2. ASSUME NEW i \in 1 .. Len(r)
          PROVE  Earlier(y, r[i])
      <4>1. PICK n \in 1 .. Len(s) : l + 1 <= n /\ PartOf(r[i], s[n])
        BY <1>6 DEF Parts
      <4>2. s[f].end <= s[n].start /\ s[n].start \in Nat
        <5>1. f < n /\ f \in 1 .. Len(s)
          BY <1>4, <1>10, <1>12, <4>1
        <5>2. Earlier(s[f], s[n])
          BY <4>1, <5>1 DEF Ordered
        <5>3. QED
          BY <4>1, <5>2, OrderedFields DEF Earlier
      <4>3. at < s[f].end /\ s[f].end \in Nat /\ at \in Nat
        BY <1>4, <1>10, <1>12
      <4>4. r[i].start \in Nat /\ r[i].end \in Nat /\ r[i].start <= r[i].end /\ s[n].start <= r[i].start
        BY <4>1 DEF PartOf
      <4>5. QED
        BY ONLY <2>1, <4>2, <4>3, <4>4 DEF Earlier
    <3>3. QED
      BY <2>3, <3>1, <3>2 DEF Precedes
  <2>11. /\ Ordered(p \o b \o q \o c \o r)
         /\ \A a, w, m : Tracks(p \o b \o q \o c \o r, a, w, m) <=>
                             \/ Tracks(p, a, w, m) \/ Tracks(b, a, w, m) \/ Tracks(q, a, w, m)
                             \/ Tracks(c, a, w, m) \/ Tracks(r, a, w, m)
    BY <1>6, <1>7, <2>3, <2>4, <2>5, <2>8, <2>9, <2>10, FiveParts
  <2>12. ASSUME NEW m, NEW a \in Nat, NEW w \in {0, 1}
         PROVE  Tracks(p \o b \o q \o c \o r, a, w, m) <=>
                   Tracks(s, a, w, m) \/ (a = at /\ w = 0 /\ m = With(x, new))
    <3>1. Tracks(b, a, w, m) \/ Tracks(c, a, w, m) <=> Covers(s[f], a, w) /\ Fields(s[f]) = m
      <4>1. Covers(s[f], a, w) => a + w <= at \/ at <= a
        BY <1>4, <1>10, <1>12 DEF Covers, Width
      <4>2. QED
        BY <1>12, <2>4, <2>5, <2>6, <4>1
    <3>2. Tracks(p, a, w, m) \/ Tracks(r, a, w, m) <=>
               \E i \in 1 .. Len(s) : (i < f \/ i > l) /\ Covers(s[i], a, w) /\ Fields(s[i]) = m
      BY <1>8
    <3>3. Tracks(s, a, w, m) <=> \/ Tracks(p, a, w, m) \/ Tracks(r, a, w, m)
                                 \/ Tracks(b, a, w, m) \/ Tracks(c, a, w, m)
      <4> HIDE DEF x
      <4>1. QED
        BY ZenonT(40), <1>10, <1>12, <3>1, <3>2 DEF Tracks
    <3>4. Covers(y, a, w) <=> a = at /\ w = 0
      BY <1>4, <2>1 DEF Covers, Width
    <3>5. Tracks(q, a, w, m) <=> a = at /\ w = 0 /\ m = With(x, new)
      BY <2>1, <2>3, <3>4
    <3>6. QED
      BY <2>11, <3>3, <3>5
  <2>13. at - 1 \in Nat
    BY <1>4, <1>10, <1>12
  <2>14. Tracks(s, at - 1, 1, x) /\ Tracks(s, at, 1, x)
    <3>1. Covers(s[f], at - 1, 1) /\ Covers(s[f], at, 1)
      BY <1>4, <1>10, <1>12 DEF Covers, Width
    <3>2. QED
      BY <1>10, <1>12, <3>1 DEF Tracks
  <2>15. x.prot # prot
    <3>1. s[f].prot # prot
      BY <1>10, <1>12, ChangesProt DEF new
    <3>2. QED
      BY <3>1 DEF Fields
  <2>16. ASSUME NEW z, Tracks(s, at, 0, z)
         PROVE  FALSE
    <3>1. PICK i \in 1 .. Len(s) : Covers(s[i], at, 0)
      BY <2>16 DEF Tracks
    <3>2. s[i].start = at /\ s[i].end = at
      BY <1>4, <3>1, OrderedFields DEF Covers, Width
    <3>3. i # f => s[i].end <= s[f].start \/ s[f].end <= s[i].start
      BY <1>1, <1>12, EmptyRun
    <3>4. QED
      BY <1>4, <1>10, <1>12, <3>2, <3>3
  <2> HIDE DEF x
  <2> DEFINE u == p \o b \o q \o c \o r
  <2>17. Ordered(u) /\ \A m : \A a \in Nat, w \in {0, 1} :
                         Tracks(u, a, w, m) <=> Tracks(s, a, w, m) \/ (a = at /\ w = 0 /\ m = With(x, new))
    BY <2>11, <2>12
  <2> HIDE DEF u
  <2>18. DoMprotect(s, at, at, prot) = u
    BY <1>2 DEF u
  <2>19. QED
    BY <2>13, <2>14, <2>15, <2>16, <2>17, <2>18 DEF new
<1>13. QED
  BY <1>9, <1>11, <1>12

(* mmap rewrites the tracked places of its range if there are any, and
   tracks the whole range if there are none. *)
LEMMA DoMmapIs ==
    ASSUME NEW s, Ordered(s), NEW lo \in Address, NEW hi \in Address, lo < hi,
           NEW new \in FieldSet
    PROVE  LET u == DoMmap(s, lo, hi, new) IN
           /\ Ordered(u)
           /\ \A m : \A a \in Nat, w \in {0, 1} : Tracks(u, a, w, m) <=>
                 IF \E b \in Nat, v \in {0, 1} : \E x : Within(b, v, lo, hi) /\ Tracks(s, b, v, x)
                   THEN \/ ~Within(a, w, lo, hi) /\ Tracks(s, a, w, m)
                        \/ Within(a, w, lo, hi) /\ m = new /\ \E x : Tracks(s, a, w, x)
                   ELSE Tracks(s, a, w, m) \/ (w = 1 /\ Within(a, w, lo, hi) /\ m = new)
<1> DEFINE f == Find(s, lo)
           l == LastHit(s, f, lo, hi)
           known == \E b \in Nat, v \in {0, 1} : \E x : Within(b, v, lo, hi) /\ Tracks(s, b, v, x)
<1>1. Run(s, f, l, lo, hi)
  BY RunOfRange
<1>2. DoMmap(s, lo, hi, new) =
        IF f <= l THEN Rewrite(s, f, l, lo, hi, new)
        ELSE Insert(s, UpperBound(s, lo), [start |-> lo, end |-> hi, prot |-> new.prot,
                                           flags |-> new.flags, stack |-> new.stack])
  BY DEF DoMmap
<1> HIDE DEF f, l
<1>3. /\ Len(s) \in Nat /\ f \in Nat /\ l \in Nat /\ lo \in Nat /\ hi \in Nat
      /\ f >= 1 /\ l <= Len(s) /\ f - 1 <= l
  BY <1>1, Addresses DEF Ordered, Run
<1>4. \A i \in 1 .. Len(s) : /\ s[i] \in Item /\ s[i].start \in Nat /\ s[i].end \in Nat
                             /\ s[i].start <= s[i].end
  BY OrderedFields
<1>5. CASE f <= l
  <2> DEFINE u == Rewrite(s, f, l, lo, hi, new)
  <2>1. known
    <3>1. f \in 1 .. Len(s) /\ lo < s[f].end /\ s[f].start < hi
      <4>1. f \in f .. l
        BY <1>3, <1>5
      <4>2. QED
        BY <1>1, <4>1 DEF Run
    <3> DEFINE a == IF lo <= s[f].start THEN s[f].start ELSE lo
               w == Width(s[f])
    <3>2. a \in Nat /\ w \in {0, 1} /\ Within(a, w, lo, hi) /\ Covers(s[f], a, w)
      BY <1>3, <1>4, <3>1 DEF Within, Covers, Width
    <3> HIDE DEF a, w
    <3>3. Tracks(s, a, w, Fields(s[f]))
      BY <3>1, <3>2 DEF Tracks
    <3>4. QED
      BY <3>2, <3>3
  <2>2. \A x \in FieldSet : With(x, new) = new
    <3>1. ASSUME NEW x \in FieldSet
          PROVE  With(x, new) = new
      <4>1. DOMAIN x = {"prot", "flags", "stack"} /\ DOMAIN new = {"prot", "flags", "stack"}
            /\ new = [k \in {"prot", "flags", "stack"} |-> new[k]]
        BY DEF FieldSet
      <4>2. QED
        BY <4>1 DEF With
    <3>2. QED
      BY <3>1
  <2>3. new \in News
    BY DEF News, FieldSet
  <2>4. /\ Ordered(u)
        /\ \A m : \A a \in Nat, w \in {0, 1} : Tracks(u, a, w, m) <=>
              \E i \in 1 .. Len(s) : Covers(s[i], a, w) /\ m = Written(Fields(s[i]), a, w, lo, hi, new)
    <3>1. IsRewritten(u, s, lo, hi, new)
      BY <1>1, <2>3, RewriteIs
    <3>2. QED
      BY <3>1 DEF IsRewritten
  <2> HIDE DEF u
  <2>5. \A i \in 1 .. Len(s) : With(Fields(s[i]), new) = new
    BY <1>4, <2>2 DEF Item, Fields, FieldSet
  <2>6. ASSUME NEW m, NEW a \in Nat, NEW w \in {0, 1}
        PROVE  Tracks(u, a, w, m) <=> \/ ~Within(a, w, lo, hi) /\ Tracks(s, a, w, m)
                                      \/ Within(a, w, lo, hi) /\ m = new /\ \E x : Tracks(s, a, w, x)
    <3>1. Tracks(u, a, w, m) <=>
              \E i \in 1 .. Len(s) : Covers(s[i], a, w) /\ m = Written(Fields(s[i]), a, w, lo, hi, new)
      BY <2>4
    <3>2. CASE Within(a, w, lo, hi)
      BY ONLY ZenonT(40), <2>5, <3>1, <3>2 DEF Tracks, Written
    <3>3. CASE ~Within(a, w, lo, hi)
      BY ONLY ZenonT(40), <3>1, <3>3 DEF Tracks, Written
    <3>4. QED
      BY <3>2, <3>3
  <2>7. DoMmap(s, lo, hi, new) = u
    BY <1>2, <1>5 DEF u
  <2>8. \A m : \A a \in Nat, w \in {0, 1} : Tracks(u, a, w, m) <=>
                \/ ~Within(a, w, lo, hi) /\ Tracks(s, a, w, m)
                \/ Within(a, w, lo, hi) /\ m = new /\ \E x : Tracks(s, a, w, x)
    BY <2>6
  <2> HIDE DEF known
  <2>9. \A m : \A a \in Nat, w \in {0, 1} : Tracks(u, a, w, m) <=>
                IF known
                  THEN \/ ~Within(a, w, lo, hi) /\ Tracks(s, a, w, m)
                       \/ Within(a, w, lo, hi) /\ m = new /\ \E x : Tracks(s, a, w, x)
                  ELSE Tracks(s, a, w, m) \/ (w = 1 /\ Within(a, w, lo, hi) /\ m = new)
    BY <2>1, <2>8
  <2> DEFINE Right(v) ==
        /\ Ordered(v)
        /\ \A m : \A a \in Nat, w \in {0, 1} : Tracks(v, a, w, m) <=>
              IF known
                THEN \/ ~Within(a, w, lo, hi) /\ Tracks(s, a, w, m)
                     \/ Within(a, w, lo, hi) /\ m = new /\ \E x : Tracks(s, a, w, x)
                ELSE Tracks(s, a, w, m) \/ (w = 1 /\ Within(a, w, lo, hi) /\ m = new)
  <2>10. Right(u)
    BY <2>4, <2>9
  <2> HIDE DEF Right
  <2>11. Right(DoMmap(s, lo, hi, new))
    BY <2>7, <2>10
  <2>12. QED
    BY <2>11 DEF Right, known
<1>6. CASE f > l
  <2> DEFINE item == [start |-> lo, end |-> hi, prot |-> new.prot,
                      flags |-> new.flags, stack |-> new.stack]
             p == SubSeq(s, 1, f - 1)
             q == <<item>>
             r == SubSeq(s, l + 1, Len(s))
  <2>1. f = l + 1
    BY <1>3, <1>6
  <2>2. \A i \in 1 .. Len(s) : i < f => s[i].end <= lo
    BY <1>1 DEF Run
  <2>3. \A i \in 1 .. Len(s) : i >= f => hi <= s[i].start
    BY <1>1, <1>3, <2>1 DEF Run
  <2>4. UpperBound(s, lo) = f
    <3> DEFINE n == UpperBound(s, lo)
    <3>1. /\ n \in 1 .. Len(s) + 1
          /\ \A i \in 1 .. Len(s) : i < n => s[i].start <= lo
          /\ \A i \in 1 .. Len(s) : i >= n => lo < s[i].start
      BY Zenon, <1>3, UpperBoundIs
    <3> HIDE DEF n
    <3>2. ~(n < f)
      <4>1. SUFFICES ASSUME n < f
                     PROVE  FALSE
        OBVIOUS
      <4>2. n \in 1 .. Len(s)
        BY <1>3, <2>1, <3>1, <4>1
      <4>3. s[n].end <= lo /\ lo < s[n].start
        BY <1>3, <2>2, <3>1, <4>1, <4>2
      <4>4. QED
        BY <1>3, <1>4, <4>2, <4>3
    <3>3. ~(f < n)
      <4>1. SUFFICES ASSUME f < n
                     PROVE  FALSE
        OBVIOUS
      <4>2. f \in 1 .. Len(s)
        BY <1>3, <3>1, <4>1
      <4>3. s[f].start <= lo /\ hi <= s[f].start
        BY <1>3, <2>3, <3>1, <4>1, <4>2
      <4>4. QED
        BY <1>3, <1>4, <4>2, <4>3
    <3>4. QED
      BY <1>3, <3>1, <3>2, <3>3 DEF n
  <2>5. DoMmap(s, lo, hi, new) = p \o q \o r
    <3>1. ~(f <= l) /\ (l + 1) - 1 = f - 1
      BY <1>3, <1>6, <2>1
    <3>2. DoMmap(s, lo, hi, new) = Insert(s, l + 1, item)
      BY <1>2, <2>1, <2>4, <3>1
    <3> HIDE DEF item
    <3>3. Insert(s, l + 1, item) = SubSeq(s, 1, (l + 1) - 1) \o q \o r
      BY DEF Insert
    <3>4. QED
      BY <3>1, <3>2, <3>3
  <2>6. item \in Item /\ item.start = lo /\ item.end = hi /\ Fields(item) = new
    BY DEF Item, FieldSet, Fields
  <2>7. FirstPart(p, s, f, lo) /\ LastPart(r, s, l, hi)
    BY <1>1, <1>3, PartsOfRun
  <2> HIDE DEF p, r, item
  <2>8. /\ Ordered(q) /\ Len(q) = 1 /\ q[1] = item
        /\ \A a, w, m : Tracks(q, a, w, m) <=> Covers(item, a, w) /\ Fields(item) = m
    BY <1>3, <2>6, Single
  <2> HIDE DEF q
  <2>9. Precedes(p, q)
    <3>1. SUFFICES ASSUME NEW i \in 1 .. Len(p)
                   PROVE  Earlier(p[i], item)
      BY <2>8 DEF Precedes
    <3>2. p[i].end <= lo /\ p[i].end \in Nat /\ p[i].start \in Nat /\ p[i].start <= p[i].end
      BY <1>3, <1>4, <2>7, <3>1 DEF FirstPart
    <3>3. QED
      BY <1>3, <2>6, <3>2 DEF Earlier
  <2>10. Precedes(q, r)
    <3>1. SUFFICES ASSUME NEW i \in 1 .. Len(r)
                   PROVE  Earlier(item, r[i])
      BY <2>8 DEF Precedes
    <3>2. hi <= r[i].start /\ r[i].end \in Nat /\ r[i].start \in Nat /\ r[i].start <= r[i].end
      BY <1>3, <1>4, <2>7, <3>1 DEF LastPart
    <3>3. QED
      BY <1>3, <2>6, <3>2 DEF Earlier
  <2>11. Precedes(p, r)
    <3>1. f - 1 < l + 1 /\ 1 \in Int /\ f - 1 \in Int /\ l + 1 \in Int
      BY <1>3, <2>1
    <3>2. QED
      BY <1>3, <2>7, <3>1, PartsPrecede DEF FirstPart, LastPart
  <2>12. /\ Ordered(p \o q \o r)
         /\ \A a, w, m : Tracks(p \o q \o r, a, w, m) <=>
                          Tracks(p, a, w, m) \/ Tracks(q, a, w, m) \/ Tracks(r, a, w, m)
    BY <2>7, <2>8, <2>9, <2>10, <2>11, ThreeParts DEF FirstPart, LastPart
  <2>13. ~known
    <3>1. ASSUME NEW a \in Nat, NEW w \in {0, 1}, NEW i \in 1 .. Len(s), Within(a, w, lo, hi), Covers(s[i], a, w)
          PROVE  FALSE
      BY <1>3, <1>4, <2>2, <2>3, <3>1 DEF Within, Covers
    <3>2. QED
      BY <3>1 DEF Tracks
  <2>14. ASSUME NEW m, NEW a \in Nat, NEW w \in {0, 1}
         PROVE  Tracks(p \o q \o r, a, w, m) <=>
                   Tracks(s, a, w, m) \/ (w = 1 /\ Within(a, w, lo, hi) /\ m = new)
    <3>1. Tracks(q, a, w, m) <=> w = 1 /\ Within(a, w, lo, hi) /\ m = new
      BY <1>3, <2>6, <2>8 DEF Covers, Within, Width
    <3>2. Tracks(p, a, w, m) => Tracks(s, a, w, m)
      BY <2>7 DEF FirstPart, Tracks
    <3>3. Tracks(r, a, w, m) => Tracks(s, a, w, m)
      BY ZenonT(40), <1>3, <2>7 DEF LastPart, Tracks
    <3>4. Tracks(s, a, w, m) => Tracks(p, a, w, m) \/ Tracks(r, a, w, m)
      <4>1. ASSUME NEW i \in 1 .. Len(s), Covers(s[i], a, w), Fields(s[i]) = m
            PROVE  Tracks(p, a, w, m) \/ Tracks(r, a, w, m)
        <5>1. i \in 1 .. f - 1 \/ i \in l + 1 .. Len(s)
          BY <1>3, <2>1
        <5>2. QED
          BY <2>7, <4>1, <5>1 DEF FirstPart, LastPart
      <4>2. QED
        BY <4>1 DEF Tracks
    <3>5. QED
      BY <2>12, <3>1, <3>2, <3>3, <3>4
  <2> DEFINE u == p \o q \o r
  <2>15. /\ Ordered(u)
         /\ \A m : \A a \in Nat, w \in {0, 1} :
               Tracks(u, a, w, m) <=> Tracks(s, a, w, m) \/ (w = 1 /\ Within(a, w, lo, hi) /\ m = new)
    BY <2>12, <2>14
  <2> HIDE DEF u
  <2>16. DoMmap(s, lo, hi, new) = u
    BY <2>5 DEF u
  <2>17. QED
    BY <2>13, <2>15, <2>16
<1>7. QED
  BY <1>3, <1>5, <1>6

-----------------------------------------------------------------------------
(* The order is kept *)

(* The operations' arguments have their types. *)
LEMMA Inputs ==
    /\ \A m \in Mappings : m \in FieldSet
    /\ \A prot \in Protections : prot \in Nat
    /\ \A stack \in Stacks : stack \in Nat
BY TrackerAssumption DEF TrackerAssumption, Protections, Stacks, FieldSet

(* What mremap maps at the new place. *)
Moved(s, lo, stack) == [prot  |-> s[Find(s, lo)].prot, flags |-> s[Find(s, lo)].flags,
                        stack |-> stack]

(* What mremap maps has its types. *)
LEMMA MovedIs ==
    ASSUME NEW s, Ordered(s), NEW lo \in Address, Find(s, lo) <= Len(s), NEW stack \in Nat
    PROVE  Moved(s, lo, stack) \in FieldSet
<1>1. Find(s, lo) \in 1 .. Len(s)
  <2>1. Len(s) \in Nat /\ lo \in Nat
    BY Addresses DEF Ordered
  <2>2. Find(s, lo) \in 1 .. Len(s) + 1
    BY <2>1, FindIs
  <2>3. QED
    BY <2>1, <2>2
<1>2. QED
  BY <1>1, OrderedFields, ItemFields DEF Moved, FieldSet

(* The four operations, as functions of the vector. *)
LEMMA Operations ==
    ASSUME NEW lo \in Address, NEW hi \in Address, lo <= hi
    PROVE  /\ \A m \in Mappings :
                 mmap(lo, hi, m) => lo < hi /\ m \in FieldSet /\ mMmaps' = DoMmap(mMmaps, lo, hi, m)
           /\ \A newLo, newHi \in Address, stack \in Stacks :
                 mremap(lo, hi, newLo, newHi, stack) =>
                    /\ newLo < newHi /\ stack \in Nat
                    /\ newLo = lo \/ newHi <= lo \/ hi <= newLo
                    /\ Find(mMmaps, lo) <= Len(mMmaps)
                    /\ mMmaps' = DoMmap(DoMunmap(mMmaps, lo, hi), newLo, newHi,
                                        Moved(mMmaps, lo, stack))
BY Inputs DEF mmap, mremap, Moved

(* Every operation keeps the vector ordered. *)
LEMMA StepKeepsOrder == Ordered(mMmaps) /\ [Next]_mMmaps => Ordered(mMmaps)'
<1> SUFFICES ASSUME Ordered(mMmaps), [Next]_mMmaps
             PROVE  Ordered(mMmaps')
  OBVIOUS
<1>1. CASE UNCHANGED mMmaps
  BY <1>1
<1>2. ASSUME NEW lo \in Address, NEW hi \in Address, lo <= hi,
             NEW m \in Mappings, mmap(lo, hi, m)
      PROVE  Ordered(mMmaps')
  BY <1>2, Operations, DoMmapIs
<1>3. ASSUME NEW lo \in Address, NEW hi \in Address, lo <= hi, munmap(lo, hi)
      PROVE  Ordered(mMmaps')
  BY <1>3, DoMunmapIs DEF munmap
<1>4. ASSUME NEW lo \in Address, NEW hi \in Address, lo <= hi,
             NEW prot \in Protections, mprotect(lo, hi, prot)
      PROVE  Ordered(mMmaps')
  <2>1. prot \in Nat /\ mMmaps' = DoMprotect(mMmaps, lo, hi, prot) /\ (lo < hi \/ lo = hi)
    BY <1>4, Inputs, Addresses DEF mprotect
  <2>2. CASE lo < hi
    BY <2>1, <2>2, DoMprotectIs
  <2>3. CASE lo = hi
    BY <2>1, <2>3, ProtectNothingIs
  <2>4. QED
    BY <2>1, <2>2, <2>3
<1>5. ASSUME NEW lo \in Address, NEW hi \in Address, lo <= hi,
             NEW newLo \in Address, NEW newHi \in Address, NEW stack \in Stacks,
             mremap(lo, hi, newLo, newHi, stack)
      PROVE  Ordered(mMmaps')
  <2>1. /\ newLo < newHi /\ stack \in Nat /\ Find(mMmaps, lo) <= Len(mMmaps)
        /\ mMmaps' = DoMmap(DoMunmap(mMmaps, lo, hi), newLo, newHi, Moved(mMmaps, lo, stack))
    BY <1>5, Operations
  <2>2. Moved(mMmaps, lo, stack) \in FieldSet
    BY <2>1, MovedIs
  <2>3. Ordered(DoMunmap(mMmaps, lo, hi))
    BY <1>5, DoMunmapIs
  <2>4. QED
    BY <2>1, <2>2, <2>3, DoMmapIs
<1>6. QED
  BY <1>1, <1>2, <1>3, <1>4, <1>5 DEF Next

(* mMmaps is ordered in every state: what every other theorem stands on. *)
THEOREM AlwaysOrdered == Spec => []Ordered(mMmaps)
<1>1. Init => Ordered(mMmaps)
  BY None DEF Init
<1>2. QED
  BY <1>1, StepKeepsOrder, PTL DEF Spec

(* mMmaps is always in address order, without overlapping items: none overlaps
   an empty item either, and no two empty items are at the same place. *)
THEOREM AlwaysSorted == Spec => []Sorted
<1>1. Ordered(mMmaps) => Sorted
  BY DEF Ordered, Earlier, Sorted
<1>2. QED
  BY <1>1, AlwaysOrdered, PTL

-----------------------------------------------------------------------------
(* The page map *)

(* The tracked pages of a vector: trackedPages of mMmaps. *)
PagesOf(s) ==
    UNION {{[addr |-> a, width |-> Width(item), prot |-> item.prot, flags |-> item.flags,
             stack |-> item.stack] : a \in item.start .. item.end - Width(item)} :
           item \in {s[i] : i \in 1 .. Len(s)}}

(* The page map of a vector, in terms of Tracks. *)
LEMMA PagesAre ==
    ASSUME NEW s, Ordered(s)
    PROVE  /\ \A p : p \in PagesOf(s) <=>
                 \E a \in Nat, w \in {0, 1}, x \in FieldSet :
                    p = Pages!Page(a, w, x) /\ Tracks(s, a, w, x)
           /\ \A a \in Nat, w \in {0, 1}, x \in FieldSet :
                 Pages!Page(a, w, x) \in PagesOf(s) <=> Tracks(s, a, w, x)
<1>1. \A i \in 1 .. Len(s) : /\ s[i] \in Item /\ s[i].start \in Nat /\ s[i].end \in Nat
                             /\ Fields(s[i]) \in FieldSet
  BY OrderedFields, ItemFields DEF Fields, FieldSet
<1>2. \A p : p \in PagesOf(s) <=>
             \E i \in 1 .. Len(s) : \E a \in s[i].start .. s[i].end - Width(s[i]) :
                 p = Pages!Page(a, Width(s[i]), Fields(s[i]))
  BY DEF PagesOf, Pages!Page, Fields
<1>3. \A i \in 1 .. Len(s) :
        /\ Width(s[i]) \in {0, 1}
        /\ \A a : a \in s[i].start .. s[i].end - Width(s[i]) <=>
                     a \in Nat /\ Covers(s[i], a, Width(s[i]))
  BY <1>1 DEF Covers, Width
<1>4. \A i \in 1 .. Len(s) : \A a, w : Covers(s[i], a, w) => w = Width(s[i])
  BY DEF Covers
<1>5. ASSUME NEW p
      PROVE  p \in PagesOf(s) <=>
                 \E a \in Nat, w \in {0, 1}, x \in FieldSet :
                    p = Pages!Page(a, w, x) /\ Tracks(s, a, w, x)
  <2>1. ASSUME p \in PagesOf(s)
        PROVE  \E a \in Nat, w \in {0, 1}, x \in FieldSet :
                  p = Pages!Page(a, w, x) /\ Tracks(s, a, w, x)
    <3>1. PICK i \in 1 .. Len(s) : \E a \in s[i].start .. s[i].end - Width(s[i]) :
                 p = Pages!Page(a, Width(s[i]), Fields(s[i]))
      BY <1>2, <2>1
    <3>2. PICK a : /\ a \in Nat /\ Covers(s[i], a, Width(s[i]))
                   /\ p = Pages!Page(a, Width(s[i]), Fields(s[i]))
      BY <1>3, <3>1
    <3>3. Width(s[i]) \in {0, 1} /\ Tracks(s, a, Width(s[i]), Fields(s[i]))
      BY <1>3, <3>2 DEF Tracks
    <3>4. QED
      BY <1>1, <3>2, <3>3
  <2>2. ASSUME NEW a \in Nat, NEW w \in {0, 1}, NEW x \in FieldSet,
               p = Pages!Page(a, w, x), Tracks(s, a, w, x)
        PROVE  p \in PagesOf(s)
    <3>1. PICK i \in 1 .. Len(s) : Covers(s[i], a, w) /\ Fields(s[i]) = x
      BY <2>2 DEF Tracks
    <3>2. w = Width(s[i]) /\ a \in s[i].start .. s[i].end - Width(s[i])
      BY <1>3, <1>4, <3>1
    <3>3. QED
      BY <1>2, <2>2, <3>1, <3>2
  <2>3. QED
    BY <2>1, <2>2
<1>6. ASSUME NEW a \in Nat, NEW w \in {0, 1}, NEW b \in Nat, NEW v \in {0, 1},
             NEW x \in FieldSet, NEW y \in FieldSet, Pages!Page(a, w, x) = Pages!Page(b, v, y)
      PROVE  a = b /\ w = v /\ x = y
  <2>1. a = b /\ w = v /\ x.prot = y.prot /\ x.flags = y.flags /\ x.stack = y.stack
    BY <1>6 DEF Pages!Page
  <2>2. QED
    BY <2>1 DEF FieldSet
<1>7. QED
  BY <1>5, <1>6

(* The fields of a page. *)
LEMMA PageFields ==
    ASSUME NEW a \in Nat, NEW w \in {0, 1}, NEW x \in FieldSet
    PROVE  /\ Pages!Page(a, w, x).addr = a /\ Pages!Page(a, w, x).width = w
           /\ Pages!Page(a, w, x).prot = x.prot /\ Pages!Page(a, w, x).flags = x.flags
           /\ Pages!Page(a, w, x).stack = x.stack
BY DEF Pages!Page

(* The places that a range meets are the ones within it. *)
LEMMA PageMeets ==
    ASSUME NEW a \in Nat, NEW w \in {0, 1}, NEW x \in FieldSet, NEW lo, NEW hi
    PROVE  Pages!Meets(Pages!Page(a, w, x), lo, hi) <=> Within(a, w, lo, hi)
BY PageFields DEF Pages!Meets, Within

(* A page with another protection. *)
LEMMA PageProtected ==
    ASSUME NEW a \in Nat, NEW w \in {0, 1}, NEW x \in FieldSet, NEW prot \in Nat
    PROVE  /\ With(x, [prot |-> prot]) \in FieldSet
           /\ [Pages!Page(a, w, x) EXCEPT !.prot = prot] = Pages!Page(a, w, With(x, [prot |-> prot]))
<1>1. PICK y : y = With(x, [prot |-> prot])
  OBVIOUS
<1>2. y = [prot |-> prot, flags |-> x.flags, stack |-> x.stack]
  BY <1>1 DEF With, FieldSet
<1>3. y \in FieldSet
  BY <1>2 DEF FieldSet
<1>4. [Pages!Page(a, w, x) EXCEPT !.prot = prot] =
          [addr |-> a, width |-> w, prot |-> prot, flags |-> x.flags, stack |-> x.stack]
  BY DEF Pages!Page
<1>5. Pages!Page(a, w, y) =
          [addr |-> a, width |-> w, prot |-> prot, flags |-> x.flags, stack |-> x.stack]
  BY <1>2 DEF Pages!Page
<1>6. QED
  BY <1>1, <1>3, <1>4, <1>5

(* munmap, seen as a change of the page map. *)
LEMMA UnmapPages ==
    ASSUME NEW s, Ordered(s), NEW lo \in Address, NEW hi \in Address, lo <= hi
    PROVE  PagesOf(DoMunmap(s, lo, hi)) = Pages!AfterUnmap(PagesOf(s), lo, hi)
<1> DEFINE u == DoMunmap(s, lo, hi)
<1>1. /\ Ordered(u)
      /\ \A m : \A a \in Nat, w \in {0, 1} :
            Tracks(u, a, w, m) <=> Tracks(s, a, w, m) /\ ~Within(a, w, lo, hi)
  BY DoMunmapIs
<1> HIDE DEF u
<1>2. ASSUME NEW p, p \in PagesOf(u)
      PROVE  p \in Pages!AfterUnmap(PagesOf(s), lo, hi)
  <2>1. PICK a \in Nat, w \in {0, 1}, x \in FieldSet : p = Pages!Page(a, w, x) /\ Tracks(u, a, w, x)
    BY <1>1, <1>2, PagesAre
  <2>2. Tracks(s, a, w, x) /\ ~Within(a, w, lo, hi)
    BY <1>1, <2>1
  <2>3. p \in PagesOf(s) /\ ~Pages!Meets(p, lo, hi)
    BY <2>1, <2>2, PagesAre, PageMeets
  <2>4. QED
    BY <2>3 DEF Pages!AfterUnmap
<1>3. ASSUME NEW p, p \in Pages!AfterUnmap(PagesOf(s), lo, hi)
      PROVE  p \in PagesOf(u)
  <2>1. p \in PagesOf(s) /\ ~Pages!Meets(p, lo, hi)
    BY <1>3 DEF Pages!AfterUnmap
  <2>2. PICK a \in Nat, w \in {0, 1}, x \in FieldSet : p = Pages!Page(a, w, x) /\ Tracks(s, a, w, x)
    BY <2>1, PagesAre
  <2>3. ~Within(a, w, lo, hi)
    <3>1. Pages!Meets(Pages!Page(a, w, x), lo, hi) <=> Within(a, w, lo, hi)
      BY PageMeets
    <3>2. QED
      BY <2>1, <2>2, <3>1
  <2>4. Tracks(u, a, w, x)
    BY <1>1, <2>2, <2>3
  <2>5. QED
    BY <1>1, <2>2, <2>4, PagesAre
<1>4. QED
  BY Zenon, <1>2, <1>3 DEF u

(* mmap, seen as a change of the page map. *)
LEMMA MapPages ==
    ASSUME NEW s, Ordered(s), NEW lo \in Address, NEW hi \in Address, lo < hi, NEW new \in FieldSet
    PROVE  PagesOf(DoMmap(s, lo, hi, new)) = Pages!AfterMap(PagesOf(s), lo, hi, new)
<1> DEFINE u == DoMmap(s, lo, hi, new)
           hit == {p \in PagesOf(s) : Pages!Meets(p, lo, hi)}
           added == IF hit = {} THEN {Pages!Page(a, 1, new) : a \in lo .. hi - 1}
                                ELSE {Pages!Page(p.addr, p.width, new) : p \in hit}
           known == \E b \in Nat, v \in {0, 1} : \E x : Within(b, v, lo, hi) /\ Tracks(s, b, v, x)
<1>1. /\ Ordered(u)
      /\ \A m : \A a \in Nat, w \in {0, 1} : Tracks(u, a, w, m) <=>
            IF known THEN \/ ~Within(a, w, lo, hi) /\ Tracks(s, a, w, m)
                          \/ Within(a, w, lo, hi) /\ m = new /\ \E x : Tracks(s, a, w, x)
            ELSE Tracks(s, a, w, m) \/ (w = 1 /\ Within(a, w, lo, hi) /\ m = new)
  BY DoMmapIs
<1>2. lo \in Nat /\ hi \in Nat
  BY Addresses
<1>3. Pages!AfterMap(PagesOf(s), lo, hi, new) = (PagesOf(s) \ hit) \cup added
  BY DEF Pages!AfterMap
<1>4. \A a \in Nat, w \in {0, 1}, x \in FieldSet :
        Pages!Page(a, w, x) \in hit <=> Tracks(s, a, w, x) /\ Within(a, w, lo, hi)
  <2>1. ASSUME NEW a \in Nat, NEW w \in {0, 1}, NEW x \in FieldSet
        PROVE  Pages!Page(a, w, x) \in hit <=> Tracks(s, a, w, x) /\ Within(a, w, lo, hi)
    BY PagesAre, PageMeets
  <2>2. QED
    BY <2>1
<1>5. \A p \in hit : \E a \in Nat, w \in {0, 1}, x \in FieldSet :
        p = Pages!Page(a, w, x) /\ Tracks(s, a, w, x) /\ Within(a, w, lo, hi)
  <2>1. ASSUME NEW p \in hit
        PROVE  \E a \in Nat, w \in {0, 1}, x \in FieldSet :
                  p = Pages!Page(a, w, x) /\ Tracks(s, a, w, x) /\ Within(a, w, lo, hi)
    <3>1. PICK a \in Nat, w \in {0, 1}, x \in FieldSet : p = Pages!Page(a, w, x) /\ Tracks(s, a, w, x)
      BY PagesAre
    <3>2. QED
      BY <1>4, <3>1
  <2>2. QED
    BY <2>1
<1>6. hit = {} <=> ~known
  <2>1. ASSUME known
        PROVE  hit # {}
    <3>1. PICK a \in Nat, w \in {0, 1} : \E x : Within(a, w, lo, hi) /\ Tracks(s, a, w, x)
      BY <2>1
    <3>2. PICK x : Within(a, w, lo, hi) /\ Tracks(s, a, w, x)
      BY <3>1
    <3>3. x \in FieldSet
      BY <3>2, TracksFields
    <3>4. QED
      BY <1>4, <3>2, <3>3
  <2>2. ASSUME hit # {}
        PROVE  known
    BY <1>5, <2>2
  <2>3. QED
    BY <2>1, <2>2
<1> HIDE DEF u, hit
<1>7. ASSUME NEW p, p \in added
      PROVE  \E a \in Nat, w \in {0, 1} :
                /\ p = Pages!Page(a, w, new) /\ Within(a, w, lo, hi)
                /\ IF known THEN \E x : Tracks(s, a, w, x) ELSE w = 1
  <2>1. CASE known
    <3>1. PICK q \in hit : p = Pages!Page(q.addr, q.width, new)
      BY <1>6, <1>7, <2>1
    <3>2. PICK a \in Nat, w \in {0, 1}, x \in FieldSet :
                q = Pages!Page(a, w, x) /\ Tracks(s, a, w, x) /\ Within(a, w, lo, hi)
      BY <1>5
    <3>3. q.addr = a /\ q.width = w
      BY <3>2, PageFields
    <3> HIDE DEF known
    <3>4. QED
      BY <2>1, <3>1, <3>2, <3>3
  <2>2. CASE ~known
    <3>1. PICK a \in lo .. hi - 1 : p = Pages!Page(a, 1, new)
      BY <1>6, <1>7, <2>2
    <3>2. a \in Nat /\ Within(a, 1, lo, hi)
      BY <1>2 DEF Within
    <3> HIDE DEF known
    <3>3. QED
      BY <2>2, <3>1, <3>2
  <2>3. QED
    BY <2>1, <2>2
<1>8. ASSUME NEW a \in Nat, NEW w \in {0, 1}, Within(a, w, lo, hi),
             IF known THEN \E x : Tracks(s, a, w, x) ELSE w = 1
      PROVE  Pages!Page(a, w, new) \in added
  <2>1. CASE known
    <3>1. PICK x : Tracks(s, a, w, x)
      BY <1>8, <2>1
    <3>2. x \in FieldSet
      BY <3>1, TracksFields
    <3>3. Pages!Page(a, w, x) \in hit
      BY <1>4, <1>8, <3>1, <3>2
    <3>4. Pages!Page(a, w, x).addr = a /\ Pages!Page(a, w, x).width = w
      BY <3>2, PageFields
    <3>5. QED
      BY <3>3, <3>4
  <2>2. CASE ~known
    <3>1. w = 1 /\ a \in lo .. hi - 1
      BY <1>2, <1>8, <2>2 DEF Within
    <3>2. QED
      BY <1>6, <2>2, <3>1
  <2>3. QED
    BY <2>1, <2>2
<1> HIDE DEF added
<1>9. ASSUME NEW p, p \in PagesOf(u)
      PROVE  p \in (PagesOf(s) \ hit) \cup added
  <2>1. PICK a \in Nat, w \in {0, 1}, x \in FieldSet : p = Pages!Page(a, w, x) /\ Tracks(u, a, w, x)
    BY <1>1, <1>9, PagesAre
  <2>2. IF known THEN \/ ~Within(a, w, lo, hi) /\ Tracks(s, a, w, x)
                      \/ Within(a, w, lo, hi) /\ x = new /\ \E y : Tracks(s, a, w, y)
        ELSE Tracks(s, a, w, x) \/ (w = 1 /\ Within(a, w, lo, hi) /\ x = new)
    BY <1>1, <2>1
  <2>3. CASE Tracks(s, a, w, x) /\ ~Within(a, w, lo, hi)
    <3>1. p \in PagesOf(s) /\ p \notin hit
      BY <1>4, <2>1, <2>3, PagesAre
    <3>2. QED
      BY <3>1
  <2>4. CASE Within(a, w, lo, hi) /\ x = new /\ (IF known THEN \E y : Tracks(s, a, w, y) ELSE w = 1)
    BY <1>8, <2>1, <2>4
  <2>5. Tracks(s, a, w, x) /\ Within(a, w, lo, hi) => known
    OBVIOUS
  <2> HIDE DEF known
  <2>6. QED
    BY <2>2, <2>3, <2>4, <2>5
<1>10. ASSUME NEW p \in PagesOf(s), p \notin hit
       PROVE  p \in PagesOf(u)
  <2>1. PICK a \in Nat, w \in {0, 1}, x \in FieldSet : p = Pages!Page(a, w, x) /\ Tracks(s, a, w, x)
    BY PagesAre
  <2>2. ~Within(a, w, lo, hi)
    BY <1>4, <1>10, <2>1
  <2> HIDE DEF known
  <2>3. Tracks(u, a, w, x)
    BY <1>1, <2>1, <2>2
  <2>4. QED
    BY <1>1, <2>1, <2>3, PagesAre
<1>11. ASSUME NEW p \in added
       PROVE  p \in PagesOf(u)
  <2>1. PICK a \in Nat, w \in {0, 1} :
          /\ p = Pages!Page(a, w, new) /\ Within(a, w, lo, hi)
          /\ IF known THEN \E x : Tracks(s, a, w, x) ELSE w = 1
    BY <1>7
  <2> HIDE DEF known
  <2>2. Tracks(u, a, w, new)
    BY <1>1, <2>1
  <2>3. QED
    BY <1>1, <2>1, <2>2, PagesAre
<1>12. PagesOf(u) = (PagesOf(s) \ hit) \cup added
  BY <1>9, <1>10, <1>11
<1>13. QED
  BY <1>3, <1>12 DEF u

(* mprotect, seen as a change of the page map. *)
LEMMA ProtectPages ==
    ASSUME NEW s, Ordered(s), NEW lo \in Address, NEW hi \in Address, lo < hi, NEW prot \in Nat
    PROVE  PagesOf(DoMprotect(s, lo, hi, prot)) =
             {p \in PagesOf(s) : ~Pages!Meets(p, lo, hi)} \cup
             {[p EXCEPT !.prot = prot] : p \in {p \in PagesOf(s) : Pages!Meets(p, lo, hi)}}
<1> DEFINE u == DoMprotect(s, lo, hi, prot)
           new == [prot |-> prot]
           stay == {p \in PagesOf(s) : ~Pages!Meets(p, lo, hi)}
           hit == {p \in PagesOf(s) : Pages!Meets(p, lo, hi)}
<1>1. /\ Ordered(u)
      /\ \A m : \A a \in Nat, w \in {0, 1} : Tracks(u, a, w, m) <=>
            \/ ~Within(a, w, lo, hi) /\ Tracks(s, a, w, m)
            \/ Within(a, w, lo, hi) /\ \E x : Tracks(s, a, w, x) /\ m = With(x, new)
  BY DoMprotectIs
<1>2. \A a \in Nat, w \in {0, 1}, x \in FieldSet :
        /\ Pages!Page(a, w, x) \in hit <=> Tracks(s, a, w, x) /\ Within(a, w, lo, hi)
        /\ Pages!Page(a, w, x) \in stay <=> Tracks(s, a, w, x) /\ ~Within(a, w, lo, hi)
        /\ With(x, new) \in FieldSet
        /\ [Pages!Page(a, w, x) EXCEPT !.prot = prot] = Pages!Page(a, w, With(x, new))
  <2>1. ASSUME NEW a \in Nat, NEW w \in {0, 1}, NEW x \in FieldSet
        PROVE  /\ Pages!Page(a, w, x) \in hit <=> Tracks(s, a, w, x) /\ Within(a, w, lo, hi)
               /\ Pages!Page(a, w, x) \in stay <=> Tracks(s, a, w, x) /\ ~Within(a, w, lo, hi)
    BY PagesAre, PageMeets
  <2>2. ASSUME NEW a \in Nat, NEW w \in {0, 1}, NEW x \in FieldSet
        PROVE  /\ With(x, new) \in FieldSet
               /\ [Pages!Page(a, w, x) EXCEPT !.prot = prot] = Pages!Page(a, w, With(x, new))
    BY PageProtected
  <2>3. QED
    BY <2>1, <2>2
<1>3. \A p \in hit \cup stay : \E a \in Nat, w \in {0, 1}, x \in FieldSet : p = Pages!Page(a, w, x)
  BY PagesAre
<1> HIDE DEF u, new, stay, hit
<1>4. ASSUME NEW p, p \in PagesOf(u)
      PROVE  p \in stay \cup {[q EXCEPT !.prot = prot] : q \in hit}
  <2>1. PICK a \in Nat, w \in {0, 1}, x \in FieldSet : p = Pages!Page(a, w, x) /\ Tracks(u, a, w, x)
    BY <1>1, <1>4, PagesAre
  <2>2. CASE ~Within(a, w, lo, hi) /\ Tracks(s, a, w, x)
    BY <1>2, <2>1, <2>2
  <2>3. ASSUME Within(a, w, lo, hi), NEW y, Tracks(s, a, w, y), x = With(y, new)
        PROVE  p \in {[q EXCEPT !.prot = prot] : q \in hit}
    <3>1. y \in FieldSet
      BY <2>3, TracksFields
    <3>2. Pages!Page(a, w, y) \in hit /\ p = [Pages!Page(a, w, y) EXCEPT !.prot = prot]
      BY <1>2, <2>1, <2>3, <3>1
    <3>3. QED
      BY <3>2
  <2>4. QED
    BY <1>1, <2>1, <2>2, <2>3
<1>5. ASSUME NEW p \in stay
      PROVE  p \in PagesOf(u)
  <2>1. PICK a \in Nat, w \in {0, 1}, x \in FieldSet : p = Pages!Page(a, w, x)
    BY <1>3
  <2>2. Tracks(u, a, w, x)
    BY <1>1, <1>2, <2>1
  <2>3. QED
    BY <1>1, <2>1, <2>2, PagesAre
<1>6. ASSUME NEW p \in hit
      PROVE  [p EXCEPT !.prot = prot] \in PagesOf(u)
  <2>1. PICK a \in Nat, w \in {0, 1}, x \in FieldSet : p = Pages!Page(a, w, x)
    BY <1>3
  <2>2. Tracks(u, a, w, With(x, new)) /\ With(x, new) \in FieldSet
    BY <1>1, <1>2, <2>1
  <2>3. Pages!Page(a, w, With(x, new)) \in PagesOf(u)
    BY <1>1, <2>2, PagesAre
  <2>4. QED
    BY <1>2, <2>1, <2>3
<1>7. PagesOf(u) = stay \cup {[q EXCEPT !.prot = prot] : q \in hit}
  BY <1>4, <1>5, <1>6
<1>8. QED
  BY <1>7 DEF u, stay, hit

(* mprotect of an empty range, seen as a change of the page map: it leaves a
   seam or nothing. *)
LEMMA ProtectNothingPages ==
    ASSUME NEW s, Ordered(s), NEW at \in Address, NEW prot \in Nat
    PROVE  LET u == DoMprotect(s, at, at, prot) IN
           \/ PagesOf(u) = PagesOf(s)
           \/ \E p \in PagesOf(s) :
                 /\ p.addr = at /\ p.width = 1 /\ p.prot # prot
                 /\ Pages!Page(at - 1, 1, p) \in PagesOf(s)
                 /\ \A q \in PagesOf(s) : q.addr = at => q.width = 1
                 /\ PagesOf(u) = PagesOf(s) \cup {Pages!Page(at, 0, [p EXCEPT !.prot = prot])}
<1> DEFINE u == DoMprotect(s, at, at, prot)
<1>1. /\ Ordered(u)
      /\ \/ \A m : \A a \in Nat, w \in {0, 1} : Tracks(u, a, w, m) <=> Tracks(s, a, w, m)
         \/ /\ at - 1 \in Nat
            /\ \A y : ~Tracks(s, at, 0, y)
            /\ \E x : /\ Tracks(s, at - 1, 1, x) /\ Tracks(s, at, 1, x) /\ x.prot # prot
                    /\ \A m : \A a \in Nat, w \in {0, 1} : Tracks(u, a, w, m) <=>
                          \/ Tracks(s, a, w, m)
                          \/ a = at /\ w = 0 /\ m = With(x, [prot |-> prot])
  BY ProtectNothingIs
<1>2. at \in Nat
  BY Addresses
<1> HIDE DEF u
<1>3. CASE \A m : \A a \in Nat, w \in {0, 1} : Tracks(u, a, w, m) <=> Tracks(s, a, w, m)
  <2>1. \A p : p \in PagesOf(u) <=> p \in PagesOf(s)
    <3>1. ASSUME NEW p, p \in PagesOf(u)
          PROVE  p \in PagesOf(s)
      <4>1. PICK a \in Nat, w \in {0, 1}, x \in FieldSet :
                p = Pages!Page(a, w, x) /\ Tracks(u, a, w, x)
        BY <1>1, <3>1, PagesAre
      <4>2. QED
        BY <1>3, <4>1, PagesAre
    <3>2. ASSUME NEW p, p \in PagesOf(s)
          PROVE  p \in PagesOf(u)
      <4>1. PICK a \in Nat, w \in {0, 1}, x \in FieldSet :
                p = Pages!Page(a, w, x) /\ Tracks(s, a, w, x)
        BY <3>2, PagesAre
      <4>2. QED
        BY <1>1, <1>3, <4>1, PagesAre
    <3>3. QED
      BY <3>1, <3>2
  <2>2. PagesOf(u) = PagesOf(s)
    BY <2>1
  <2>3. QED
    BY <2>2 DEF u
<1>4. ASSUME at - 1 \in Nat, \A y : ~Tracks(s, at, 0, y),
             NEW x, Tracks(s, at - 1, 1, x), Tracks(s, at, 1, x), x.prot # prot,
             \A m : \A a \in Nat, w \in {0, 1} : Tracks(u, a, w, m) <=>
                \/ Tracks(s, a, w, m)
                \/ a = at /\ w = 0 /\ m = With(x, [prot |-> prot])
      PROVE  \E p \in PagesOf(s) :
                /\ p.addr = at /\ p.width = 1 /\ p.prot # prot
                /\ Pages!Page(at - 1, 1, p) \in PagesOf(s)
                /\ \A q \in PagesOf(s) : q.addr = at => q.width = 1
                /\ PagesOf(u) = PagesOf(s) \cup {Pages!Page(at, 0, [p EXCEPT !.prot = prot])}
  <2> DEFINE p == Pages!Page(at, 1, x)
             y == With(x, [prot |-> prot])
             seam == Pages!Page(at, 0, y)
  <2>1. x \in FieldSet
    BY <1>4, TracksFields
  <2>2. p.addr = at /\ p.width = 1 /\ p.prot = x.prot /\ p.flags = x.flags /\ p.stack = x.stack
    BY <1>2, <2>1, PageFields
  <2>3. Pages!Page(at - 1, 1, p) = Pages!Page(at - 1, 1, x)
    BY <2>2 DEF Pages!Page
  <2>4. p \in PagesOf(s) /\ Pages!Page(at - 1, 1, x) \in PagesOf(s)
    BY <1>2, <1>4, <2>1, PagesAre
  <2>5. y \in FieldSet
    BY <1>2, <2>1, PageProtected
  <2>6. Pages!Page(at, 0, [p EXCEPT !.prot = prot]) = seam
    <3>1. [p EXCEPT !.prot = prot] = Pages!Page(at, 1, y)
      BY <1>2, <2>1, PageProtected
    <3>2. /\ Pages!Page(at, 1, y).prot = y.prot /\ Pages!Page(at, 1, y).flags = y.flags
          /\ Pages!Page(at, 1, y).stack = y.stack
      BY <1>2, <2>5, PageFields
    <3> HIDE DEF p, y
    <3>3. QED
      BY <3>1, <3>2 DEF Pages!Page
  <2> HIDE DEF p, y
  <2>7. ASSUME NEW q \in PagesOf(s), q.addr = at
        PROVE  q.width = 1
    <3>1. PICK a \in Nat, w \in {0, 1}, z \in FieldSet :
              q = Pages!Page(a, w, z) /\ Tracks(s, a, w, z)
      BY PagesAre
    <3>2. q.addr = a /\ q.width = w
      BY <3>1, PageFields
    <3>3. QED
      BY <1>4, <2>7, <3>1, <3>2
  <2>8. ASSUME NEW q, q \in PagesOf(u)
        PROVE  q \in PagesOf(s) \cup {seam}
    <3>1. PICK a \in Nat, w \in {0, 1}, z \in FieldSet :
              q = Pages!Page(a, w, z) /\ Tracks(u, a, w, z)
      BY <1>1, <2>8, PagesAre
    <3>2. Tracks(s, a, w, z) \/ (a = at /\ w = 0 /\ z = y)
      BY <1>4, <3>1 DEF y
    <3>3. CASE Tracks(s, a, w, z)
      BY <3>1, <3>3, PagesAre
    <3>4. CASE a = at /\ w = 0 /\ z = y
      BY <3>1, <3>4
    <3>5. QED
      BY <3>2, <3>3, <3>4
  <2>9. ASSUME NEW q, q \in PagesOf(s)
        PROVE  q \in PagesOf(u)
    <3>1. PICK a \in Nat, w \in {0, 1}, z \in FieldSet :
              q = Pages!Page(a, w, z) /\ Tracks(s, a, w, z)
      BY <2>9, PagesAre
    <3>2. Tracks(u, a, w, z)
      BY <1>4, <3>1
    <3>3. QED
      BY <1>1, <3>1, <3>2, PagesAre
  <2>10. seam \in PagesOf(u)
    <3>1. Tracks(u, at, 0, y)
      BY <1>2, <1>4 DEF y
    <3>2. QED
      BY <1>1, <1>2, <2>5, <3>1, PagesAre
  <2> HIDE DEF seam
  <2>11. PagesOf(u) = PagesOf(s) \cup {seam}
    BY <2>8, <2>9, <2>10
  <2>12. QED
    BY <1>4, <2>2, <2>3, <2>4, <2>6, <2>7, <2>11
<1>5. QED
  BY <1>1, <1>3, <1>4 DEF u

(* The page that mremap takes the protection and flags from. *)
LEMMA LowestPage ==
    ASSUME NEW s, Ordered(s), NEW lo \in Address, Find(s, lo) <= Len(s)
    PROVE  \E p \in Pages!Lowest({q \in PagesOf(s) : lo < q.addr + q.width}) :
              p.prot = s[Find(s, lo)].prot /\ p.flags = s[Find(s, lo)].flags
<1> DEFINE f == Find(s, lo)
           a == IF lo <= s[f].start THEN s[f].start ELSE lo
           w == Width(s[f])
           p == Pages!Page(a, w, Fields(s[f]))
<1>1. lo \in Nat /\ Len(s) \in Nat
  BY Addresses DEF Ordered
<1>2. /\ f \in 1 .. Len(s)
      /\ \A i \in 1 .. Len(s) : i < f => s[i].end <= lo
      /\ \A i \in 1 .. Len(s) : i >= f => lo < s[i].end
  BY <1>1, FindIs, SMTT(60)
<1> HIDE DEF f
<1>3. \A i \in 1 .. Len(s) : /\ s[i] \in Item /\ s[i].start \in Nat /\ s[i].end \in Nat
                             /\ s[i].start <= s[i].end /\ Fields(s[i]) \in FieldSet
  BY OrderedFields, ItemFields DEF Fields, FieldSet
<1>4. a \in Nat /\ w \in {0, 1} /\ lo < a + w /\ a + w <= s[f].end /\ Covers(s[f], a, w)
  BY <1>1, <1>2, <1>3 DEF Covers, Width
<1>5. ASSUME NEW b \in Nat, NEW v \in {0, 1}, NEW i \in 1 .. Len(s), Covers(s[i], b, v), lo < b + v
      PROVE  a + w <= b \/ (i = f /\ b = a /\ v = w)
  <2>1. i >= f
    BY <1>1, <1>2, <1>3, <1>5 DEF Covers
  <2>2. CASE i = f
    BY <1>1, <1>2, <1>3, <1>5, <2>2 DEF Covers, Width
  <2>3. CASE i > f
    <3>1. s[f].end <= s[i].start
      BY <1>2, <2>3 DEF Ordered, Earlier
    <3>2. s[i].start <= b
      BY <1>5 DEF Covers
    <3> HIDE DEF a, w
    <3>3. QED
      BY <1>2, <1>3, <1>4, <3>1, <3>2
  <2>4. QED
    BY <1>2, <2>1, <2>2, <2>3
<1> HIDE DEF a, w
<1>6. Tracks(s, a, w, Fields(s[f]))
  BY <1>2, <1>4 DEF Tracks
<1>7. /\ p \in PagesOf(s) /\ p.addr = a /\ p.width = w
      /\ p.prot = s[f].prot /\ p.flags = s[f].flags
  <2>1. Fields(s[f]) \in FieldSet
    BY <1>2, <1>3
  <2>2. /\ p.addr = a /\ p.width = w
        /\ p.prot = Fields(s[f]).prot /\ p.flags = Fields(s[f]).flags
    BY <1>4, <2>1, PageFields
  <2>3. p \in PagesOf(s)
    BY <1>4, <1>6, <2>1, PagesAre
  <2>4. QED
    BY <2>2, <2>3 DEF Fields
<1>8. ASSUME NEW q \in PagesOf(s), lo < q.addr + q.width
      PROVE  p = q \/ p.addr + p.width <= q.addr
  <2>1. PICK b \in Nat, v \in {0, 1}, x \in FieldSet : q = Pages!Page(b, v, x) /\ Tracks(s, b, v, x)
    BY PagesAre
  <2>2. q.addr = b /\ q.width = v
    BY <2>1, PageFields
  <2>3. PICK i \in 1 .. Len(s) : Covers(s[i], b, v) /\ Fields(s[i]) = x
    BY <2>1 DEF Tracks
  <2>4. a + w <= b \/ (i = f /\ b = a /\ v = w)
    BY <1>5, <1>8, <2>2, <2>3
  <2>5. QED
    BY <1>7, <2>1, <2>2, <2>3, <2>4
<1> HIDE DEF p
<1>9. p \in Pages!Lowest({q \in PagesOf(s) : lo < q.addr + q.width})
  BY <1>4, <1>7, <1>8 DEF Pages!Lowest
<1>10. QED
  BY <1>7, <1>9 DEF f

(* Every step of the vector is a step of the page map, or a stutter. *)
LEMMA StepIsPageStep == Ordered(mMmaps) /\ [Next]_mMmaps => [Pages!PageNext]_trackedPages
<1> SUFFICES ASSUME Ordered(mMmaps), [Next]_mMmaps
             PROVE  [Pages!PageNext]_trackedPages
  OBVIOUS
<1>1. trackedPages = PagesOf(mMmaps) /\ trackedPages' = PagesOf(mMmaps')
  BY DEF trackedPages, PagesOf
<1>2. Address = 0 .. MaxAddr /\ Protections = Pages!Protections /\ Stacks = Pages!Stacks
  BY DEF Address, Protections, Stacks, Pages!Protections, Pages!Stacks
<1>3. CASE UNCHANGED mMmaps
  BY <1>1, <1>3
<1>4. ASSUME NEW lo \in Address, NEW hi \in Address, lo <= hi,
             NEW m \in Mappings, mmap(lo, hi, m)
      PROVE  Pages!PageNext
  <2>1. lo < hi /\ m \in FieldSet /\ mMmaps' = DoMmap(mMmaps, lo, hi, m)
    BY <1>4, Operations
  <2>2. Pages!Map(lo, hi, m)
    BY <1>1, <2>1, MapPages DEF Pages!Map
  <2>3. QED
    BY <1>2, <1>4, <2>1, <2>2 DEF Pages!PageNext
<1>5. ASSUME NEW lo \in Address, NEW hi \in Address, lo <= hi, munmap(lo, hi)
      PROVE  Pages!PageNext
  <2>1. Pages!Unmap(lo, hi)
    BY <1>1, <1>5, UnmapPages DEF munmap, Pages!Unmap
  <2>2. QED
    BY <1>2, <1>5, <2>1 DEF Pages!PageNext
<1>6. ASSUME NEW lo \in Address, NEW hi \in Address, lo <= hi,
             NEW prot \in Protections, mprotect(lo, hi, prot)
      PROVE  [Pages!PageNext]_trackedPages
  <2>1. prot \in Nat /\ mMmaps' = DoMprotect(mMmaps, lo, hi, prot) /\ (lo < hi \/ lo = hi)
    BY <1>6, Inputs, Addresses DEF mprotect
  <2>2. CASE lo < hi
    <3>1. trackedPages' =
            {p \in trackedPages : ~Pages!Meets(p, lo, hi)} \cup
            {[p EXCEPT !.prot = prot] : p \in {p \in trackedPages : Pages!Meets(p, lo, hi)}}
      BY <1>1, <2>1, <2>2, ProtectPages
    <3>2. Pages!Outside(lo, hi) = {p \in trackedPages : ~Pages!Meets(p, lo, hi)}
      BY DEF Pages!Outside, Pages!Inside
    <3>3. Pages!Protect(lo, hi, prot)
      BY <3>1, <3>2 DEF Pages!Protect, Pages!Inside
    <3>4. QED
      BY <1>2, <1>6, <3>3 DEF Pages!PageNext
  <2>3. CASE lo = hi
    <3>1. CASE PagesOf(mMmaps') = PagesOf(mMmaps)
      BY <1>1, <3>1
    <3>2. CASE \E p \in PagesOf(mMmaps) :
                 /\ p.addr = lo /\ p.width = 1 /\ p.prot # prot
                 /\ Pages!Page(lo - 1, 1, p) \in PagesOf(mMmaps)
                 /\ \A q \in PagesOf(mMmaps) : q.addr = lo => q.width = 1
                 /\ PagesOf(mMmaps') =
                        PagesOf(mMmaps) \cup {Pages!Page(lo, 0, [p EXCEPT !.prot = prot])}
      <4>1. Pages!ProtectNothing(lo, prot)
        BY <1>1, <3>2 DEF Pages!ProtectNothing
      <4>2. QED
        BY <1>2, <1>6, <2>3, <4>1 DEF Pages!PageNext
    <3>3. QED
      BY <2>1, <2>3, <3>1, <3>2, ProtectNothingPages
  <2>4. QED
    BY <2>1, <2>2, <2>3
<1>7. ASSUME NEW lo \in Address, NEW hi \in Address, lo <= hi,
             NEW newLo \in Address, NEW newHi \in Address, NEW stack \in Stacks,
             mremap(lo, hi, newLo, newHi, stack)
      PROVE  Pages!PageNext
  <2> DEFINE m == Moved(mMmaps, lo, stack)
             u == DoMunmap(mMmaps, lo, hi)
  <2>1. /\ newLo < newHi /\ stack \in Nat /\ Find(mMmaps, lo) <= Len(mMmaps)
        /\ newLo = lo \/ newHi <= lo \/ hi <= newLo
        /\ mMmaps' = DoMmap(u, newLo, newHi, m)
    BY <1>7, Operations
  <2>2. m \in FieldSet
    BY <2>1, MovedIs
  <2>3. Ordered(u)
    BY <1>7, DoMunmapIs
  <2>4. PagesOf(u) = Pages!AfterUnmap(trackedPages, lo, hi)
    BY <1>1, <1>7, UnmapPages
  <2> HIDE DEF m, u
  <2>5. trackedPages' = Pages!AfterMap(Pages!AfterUnmap(trackedPages, lo, hi), newLo, newHi, m)
    BY <1>1, <2>1, <2>2, <2>3, <2>4, MapPages
  <2>6. PICK p \in Pages!Lowest({q \in trackedPages : lo < q.addr + q.width}) :
          p.prot = mMmaps[Find(mMmaps, lo)].prot /\ p.flags = mMmaps[Find(mMmaps, lo)].flags
    BY <1>1, <2>1, LowestPage
  <2>7. m = [prot |-> p.prot, flags |-> p.flags, stack |-> stack]
    BY <2>6 DEF m, Moved
  <2>8. Pages!Remap(lo, hi)
    BY <1>2, <2>1, <2>5, <2>6, <2>7 DEF Pages!Remap
  <2>9. QED
    BY <1>2, <1>7, <2>8 DEF Pages!PageNext
<1>8. QED
  BY <1>3, <1>4, <1>5, <1>6, <1>7 DEF Next

(* The vector of intervals implements the page map: every operation changes
   exactly the addresses of its range, whatever items it has to split, but for
   the seam that an mprotect of no length may leave. *)
THEOREM TrackerIsPageMap == Spec => ImplementsPageMap
<1>1. Init => Pages!PageInit
  BY DEF Init, Pages!PageInit, trackedPages
<1>2. Spec => []Ordered(mMmaps)
  BY AlwaysOrdered
<1>3. QED
  BY <1>1, <1>2, StepIsPageStep, PTL DEF Spec, ImplementsPageMap, Pages!PageSpec

-----------------------------------------------------------------------------
(* What munmap and mprotect return *)

(* What each item of the run adds to the result. *)
Lengths(s, f, l, lo, hi) == [i \in f .. l |-> CutLength(s[i], lo, hi)]

(* Covered is the sum of those lengths. *)
LEMMA CoveredIsSum ==
    ASSUME NEW s, Ordered(s), NEW lo \in Address, NEW hi \in Address,
           NEW f, f = Find(s, lo), NEW l, l = LastHit(s, f, lo, hi)
    PROVE  Covered(s, lo, hi) = SumOf(Lengths(s, f, l, lo, hi), f .. l)
<1> DEFINE F == Lengths(s, f, l, lo, hi)
           T == f .. l
           P(g) == g = [t \in SUBSET T |->
                          IF t = {} THEN 0
                          ELSE CutLength(s[CHOOSE e \in t : TRUE], lo, hi)
                                 + g[t \ {CHOOSE e \in t : TRUE}]]
<1>1. Covered(s, lo, hi) = (CHOOSE g : P(g))[T]
  BY DEF Covered, MapThenSumSet, MapThenFoldSet
<1>2. IsFiniteSet(T)
  <2>1. Run(s, f, l, lo, hi)
    BY RunOfRange
  <2>2. f \in Int /\ l \in Int
    BY <2>1 DEF Run, Ordered
  <2>3. QED
    BY <2>2, FS_Interval
<1>3. \A t \in SUBSET T : t # {} => F[Pick(t)] = CutLength(s[CHOOSE e \in t : TRUE], lo, hi)
  <2>1. \A t \in SUBSET T : t # {} => Pick(t) \in T
    BY DEF Pick
  <2>2. QED
    BY <2>1 DEF Lengths, Pick
<1>4. ASSUME NEW g
      PROVE  Sums(F, T, g) <=> P(g)
  <2> DEFINE x == [t \in SUBSET T |-> IF t = {} THEN 0 ELSE F[Pick(t)] + g[t \ {Pick(t)}]]
             y == [t \in SUBSET T |->
                          IF t = {} THEN 0
                          ELSE CutLength(s[CHOOSE e \in t : TRUE], lo, hi)
                                 + g[t \ {CHOOSE e \in t : TRUE}]]
  <2>1. (Sums(F, T, g) <=> g = x) /\ (P(g) <=> g = y)
    BY DEF Sums
  <2>2. \A t \in SUBSET T : t # {} =>
              F[Pick(t)] + g[t \ {Pick(t)}] =
              CutLength(s[CHOOSE e \in t : TRUE], lo, hi) + g[t \ {CHOOSE e \in t : TRUE}]
    <3> HIDE DEF F, T
    <3>1. QED
      BY <1>3 DEF Pick
  <2>3. x = y
    <3> HIDE DEF F, T
    <3>1. QED
      BY <2>2
  <2> HIDE DEF x, y
  <2>4. QED
    BY <2>1, <2>3
<1> HIDE DEF F, T
<1>5. PICK g : Sums(F, T, g) /\ SumOf(F, T) = g[T]
  BY <1>2, SumOfSums
<1>6. P(CHOOSE h : P(h))
  <2>1. P(g)
    BY ZenonT(40), <1>4, <1>5
  <2> HIDE DEF P
  <2>2. QED
    BY <2>1
<1> DEFINE h == CHOOSE h : P(h)
<1>7. Sums(F, T, h)
  BY <1>4, <1>6
<1> HIDE DEF h
<1>8. h[T] = g[T]
  BY <1>2, <1>5, <1>7, SumsAgree
<1>9. QED
  BY <1>1, <1>5, <1>8 DEF h, F, T

(* The bytes of the range that the items f .. j cover. *)
Bytes(s, f, j, lo, hi) ==
    {a \in Nat : \E i \in f .. j : Clip(s[i], lo, hi).start <= a /\ a < Clip(s[i], lo, hi).end}

(* What Clip leaves of an item is what it has in the range. *)
LEMMA ClipIs ==
    ASSUME NEW item \in Item, NEW lo \in Address, NEW hi \in Address,
           item.start <= item.end, lo < item.end, item.start < hi, lo <= hi
    PROVE  LET c == Clip(item, lo, hi) IN
           /\ c.start \in Nat /\ c.end \in Nat /\ c.start <= c.end
           /\ item.start <= c.start /\ c.end <= item.end
           /\ CutLength(item, lo, hi) = c.end - c.start
           /\ CutLength(item, lo, hi) \in Nat
           /\ \A a \in Nat : c.start <= a /\ a < c.end <=> Covers(item, a, 1) /\ Within(a, 1, lo, hi)
<1> DEFINE c == Clip(item, lo, hi)
<1>1. /\ item.start \in Nat /\ item.end \in Nat /\ lo \in Nat /\ hi \in Nat
  BY ItemFields, Addresses
<1>2. /\ c.start = (IF item.start < lo THEN lo ELSE item.start)
      /\ c.end = (IF hi < item.end THEN hi ELSE item.end)
  BY DEF Clip, Item
<1>3. CutLength(item, lo, hi) = c.end - c.start
  BY DEF CutLength
<1> HIDE DEF c
<1>4. /\ c.start \in Nat /\ c.end \in Nat /\ c.start <= c.end
      /\ item.start <= c.start /\ c.end <= item.end
  BY <1>1, <1>2
<1>5. c.end - c.start \in Nat
  BY <1>4
<1>6. \A a \in Nat : c.start <= a /\ a < c.end <=> Covers(item, a, 1) /\ Within(a, 1, lo, hi)
  BY <1>1, <1>2 DEF Covers, Width, Within
<1>7. QED
  BY <1>3, <1>4, <1>5, <1>6 DEF c

(* The lengths add up to the number of bytes that the items cover, because no
   two of them overlap. *)
LEMMA SumIsBytes ==
    ASSUME NEW s, Ordered(s), NEW f, NEW l, NEW lo \in Address, NEW hi \in Address, lo <= hi,
           Run(s, f, l, lo, hi)
    PROVE  /\ IsFiniteSet(Bytes(s, f, l, lo, hi))
           /\ Cardinality(Bytes(s, f, l, lo, hi)) = SumOf(Lengths(s, f, l, lo, hi), f .. l)
<1> DEFINE F == Lengths(s, f, l, lo, hi)
           B(j) == Bytes(s, f, j, lo, hi)
           Good(j) == IsFiniteSet(B(j)) /\ Cardinality(B(j)) = SumOf(F, f .. j)
           Bad == {n \in Nat : f - 1 + n <= l /\ ~Good(f - 1 + n)}
<1>1. /\ Len(s) \in Nat /\ f \in Nat /\ l \in Nat /\ f >= 1 /\ f - 1 <= l
      /\ \A i \in f .. l : i \in 1 .. Len(s)
  BY DEF Ordered, Run
<1>2. \A i \in f .. l :
        LET c == Clip(s[i], lo, hi) IN
           /\ c.start \in Nat /\ c.end \in Nat /\ c.start <= c.end
           /\ s[i].start <= c.start /\ c.end <= s[i].end
           /\ CutLength(s[i], lo, hi) = c.end - c.start
           /\ CutLength(s[i], lo, hi) \in Nat
  BY <1>1, ClipIs, OrderedFields DEF Run
<1>3. \A i \in f .. l : F[i] = CutLength(s[i], lo, hi) /\ F[i] \in Nat
  BY <1>2 DEF Lengths
<1>4. \A i, j \in f .. l : i < j => Clip(s[i], lo, hi).end <= Clip(s[j], lo, hi).start
  <2>1. ASSUME NEW i \in f .. l, NEW j \in f .. l, i < j
        PROVE  Clip(s[i], lo, hi).end <= Clip(s[j], lo, hi).start
    <3>1. s[i].end <= s[j].start /\ s[i].end \in Nat /\ s[j].start \in Nat
      BY <1>1, <2>1, OrderedFields DEF Ordered, Earlier
    <3>2. /\ Clip(s[i], lo, hi).end <= s[i].end /\ s[j].start <= Clip(s[j], lo, hi).start
          /\ Clip(s[i], lo, hi).end \in Nat /\ Clip(s[j], lo, hi).start \in Nat
      BY <1>2
    <3>3. QED
      BY <3>1, <3>2
  <2>2. QED
    BY <2>1
<1>5. Good(f - 1)
  <2>1. f .. (f - 1) = {}
    BY <1>1
  <2>2. B(f - 1) = {}
    BY <2>1 DEF Bytes
  <2>3. QED
    BY <2>1, <2>2, FS_EmptySet, SumOfNone
<1> HIDE DEF F
<1>6. ASSUME NEW j \in f .. l, Good(j - 1)
      PROVE  Good(j)
  <2> DEFINE c == Clip(s[j], lo, hi)
             new == c.start .. (c.end - 1)
  <2>1. j \in Nat /\ f .. j = (f .. (j - 1)) \cup {j} /\ j \notin f .. (j - 1)
        /\ \A i \in f .. (j - 1) : i \in f .. l /\ i < j
    BY <1>1
  <2>2. c.start \in Nat /\ c.end \in Nat /\ c.start <= c.end /\ F[j] = c.end - c.start
    BY <1>2, <1>3
  <2>3. IsFiniteSet(new) /\ Cardinality(new) = F[j]
    <3>1. PICK x \in Nat, y \in Nat : x = c.start /\ y = c.end /\ x <= y /\ F[j] = y - x
      BY <2>2
    <3>2. /\ IsFiniteSet(x .. (y - 1))
          /\ Cardinality(x .. (y - 1)) = (IF x > y - 1 THEN 0 ELSE (y - 1) - x + 1)
      BY FS_Interval
    <3>3. F[j] = (IF x > y - 1 THEN 0 ELSE (y - 1) - x + 1)
      BY <3>1
    <3> HIDE DEF c
    <3>4. QED
      BY <3>1, <3>2, <3>3
  <2>4. B(j) = B(j - 1) \cup new
    <3>1. \A a : a \in new <=> a \in Nat /\ c.start <= a /\ a < c.end
      <4> HIDE DEF c
      <4>1. QED
        BY <2>2
    <3>2. \A a : a \in B(j) <=> a \in B(j - 1) \/ (a \in Nat /\ c.start <= a /\ a < c.end)
      <4>1. \A i : i \in f .. j <=> i \in f .. (j - 1) \/ i = j
        BY <2>1, Zenon
      <4>2. /\ \A a : a \in B(j) <=> a \in Nat /\ \E i : /\ i \in f .. j
                                                         /\ Clip(s[i], lo, hi).start <= a
                                                         /\ a < Clip(s[i], lo, hi).end
            /\ \A a : a \in B(j - 1) <=> a \in Nat /\ \E i : /\ i \in f .. (j - 1)
                                                             /\ Clip(s[i], lo, hi).start <= a
                                                             /\ a < Clip(s[i], lo, hi).end
        BY Zenon DEF Bytes
      <4> DEFINE Old(i) == i \in f .. (j - 1)
                 New(i) == i \in f .. j
                 Clipped(i, a) == Clip(s[i], lo, hi).start <= a /\ a < Clip(s[i], lo, hi).end
      <4>3. /\ \A i : New(i) <=> Old(i) \/ i = j
            /\ \A a : a \in B(j) <=> a \in Nat /\ \E i : New(i) /\ Clipped(i, a)
            /\ \A a : a \in B(j - 1) <=> a \in Nat /\ \E i : Old(i) /\ Clipped(i, a)
            /\ \A a : Clipped(j, a) <=> c.start <= a /\ a < c.end
        BY <4>1, <4>2
      <4> HIDE DEF Old, New, Clipped, B, c
      <4>4. QED
        BY ONLY <4>3, Zenon
    <3> HIDE DEF B, new
    <3>3. QED
      BY <3>1, <3>2
  <2>5. B(j - 1) \cap new = {}
    <3>1. ASSUME NEW a \in B(j - 1), a \in new
          PROVE  FALSE
      <4>1. PICK i \in f .. (j - 1) : a < Clip(s[i], lo, hi).end
        BY DEF Bytes
      <4>2. /\ Clip(s[i], lo, hi).end <= c.start /\ Clip(s[i], lo, hi).end \in Nat
        BY <1>2, <1>4, <2>1
      <4>3. a \in Nat /\ c.start <= a
        <5>1. a \in Nat
          BY DEF Bytes
        <5>2. c.start <= a
          <6> HIDE DEF c
          <6>1. QED
            BY <2>2, <3>1
        <5>3. QED
          BY <5>1, <5>2
      <4> HIDE DEF c
      <4>4. QED
        BY <2>2, <4>1, <4>2, <4>3
    <3>2. QED
      BY <3>1
  <2> HIDE DEF B, new
  <2>6. IsFiniteSet(B(j)) /\ Cardinality(B(j)) = Cardinality(B(j - 1)) + F[j]
    <3>1. /\ IsFiniteSet(B(j - 1) \cup new)
          /\ Cardinality(B(j - 1) \cup new) =
                Cardinality(B(j - 1)) + Cardinality(new) - Cardinality(B(j - 1) \cap new)
      BY Zenon, <1>6, <2>3, FS_Union
    <3>2. Cardinality(B(j - 1)) \in Nat /\ Cardinality(B(j - 1) \cap new) = 0
      BY Zenon, <1>6, <2>5, FS_CardinalityType, FS_EmptySet
    <3>3. F[j] \in Nat
      BY <1>3
    <3>4. QED
      BY <2>3, <2>4, <3>1, <3>2, <3>3
  <2>7. SumOf(F, f .. j) = F[j] + SumOf(F, f .. (j - 1))
    <3>1. IsFiniteSet(f .. (j - 1))
      BY <1>1, <2>1, FS_Interval
    <3>2. \A x \in (f .. (j - 1)) \cup {j} : F[x] \in Nat
      BY <1>3, <2>1
    <3>3. SumOf(F, (f .. (j - 1)) \cup {j}) = F[j] + SumOf(F, f .. (j - 1))
      BY <2>1, <3>1, <3>2, SumOfWith
    <3>4. QED
      BY <2>1, <3>3
  <2>8. Cardinality(B(j - 1)) \in Nat /\ F[j] \in Nat /\ Cardinality(B(j - 1)) = SumOf(F, f .. (j - 1))
    BY <1>3, <1>6, FS_CardinalityType
  <2>9. QED
    BY <2>6, <2>7, <2>8
<1> HIDE DEF Good
<1>7. Bad = {}
  <2>1. SUFFICES ASSUME Bad # {}
                 PROVE  FALSE
    OBVIOUS
  <2>2. PICK m \in Bad : \A n \in Bad : m <= n
    <3>1. Bad \in SUBSET Nat
      OBVIOUS
    <3> HIDE DEF Bad
    <3>2. QED
      BY <2>1, <3>1, LeastNumber
  <2>3. m \in Nat /\ f - 1 + m <= l /\ ~Good(f - 1 + m)
    OBVIOUS
  <2>4. m # 0
    <3>1. m = 0 => f - 1 + m = f - 1
      BY <1>1
    <3>2. QED
      BY <1>5, <2>3, <3>1
  <2>5. m - 1 \in Nat /\ f - 1 + (m - 1) <= l /\ ~(m <= m - 1)
    BY <1>1, <2>3, <2>4
  <2>6. Good(f - 1 + (m - 1))
    <3>1. m - 1 \notin Bad
      BY <2>2, <2>5
    <3>2. QED
      BY <2>5, <3>1
  <2>7. /\ f - 1 + m \in f .. l /\ f - 1 + (m - 1) = (f - 1 + m) - 1
    BY <1>1, <2>3, <2>4
  <2>8. QED
    BY <1>6, <2>3, <2>6, <2>7
<1>8. Good(l)
  <2>1. l - f + 1 \in Nat /\ f - 1 + (l - f + 1) = l /\ l <= l
    BY <1>1
  <2>2. l - f + 1 \notin Bad
    BY <1>7
  <2>3. QED
    BY <2>1, <2>2
<1>9. QED
  BY <1>8 DEF Good, F

(* The bytes that the items of the run cover in the range are the tracked
   addresses in it. *)
LEMMA BytesAre ==
    ASSUME NEW s, Ordered(s), NEW f, NEW l, NEW lo \in Address, NEW hi \in Address, lo <= hi,
           Run(s, f, l, lo, hi)
    PROVE  \A a : a \in Bytes(s, f, l, lo, hi) <=>
                      a \in Nat /\ Within(a, 1, lo, hi) /\ \E x : Tracks(s, a, 1, x)
<1>1. lo \in Nat /\ hi \in Nat /\ Len(s) \in Nat /\ f \in Nat /\ l \in Nat
  BY Addresses DEF Ordered, Run
<1>2. ASSUME NEW a \in Nat, NEW i \in f .. l
      PROVE  Clip(s[i], lo, hi).start <= a /\ a < Clip(s[i], lo, hi).end <=>
                 Covers(s[i], a, 1) /\ Within(a, 1, lo, hi)
  BY Zenon, ClipIs, OrderedFields DEF Run
<1>3. ASSUME NEW a \in Nat, Within(a, 1, lo, hi), NEW i \in 1 .. Len(s), Covers(s[i], a, 1)
      PROVE  i \in f .. l
  <2>1. s[i].start \in Nat /\ s[i].end \in Nat
    BY OrderedFields
  <2>2. ~(s[i].end <= lo) /\ ~(hi <= s[i].start)
    BY <1>1, <1>3, <2>1 DEF Within, Covers
  <2>3. ~(i < f) /\ ~(i > l)
    BY <2>2 DEF Run
  <2>4. QED
    BY <1>1, <2>3
<1>4. ASSUME NEW a \in Nat
      PROVE  (\E x : Tracks(s, a, 1, x)) <=> \E i \in 1 .. Len(s) : Covers(s[i], a, 1)
  BY DEF Tracks
<1>5. \A i \in f .. l : i \in 1 .. Len(s)
  BY DEF Run
<1>6. ASSUME NEW a \in Nat
      PROVE  a \in Bytes(s, f, l, lo, hi) <=> Within(a, 1, lo, hi) /\ \E x : Tracks(s, a, 1, x)
  <2>1. a \in Bytes(s, f, l, lo, hi) <=> \E i \in f .. l : Covers(s[i], a, 1) /\ Within(a, 1, lo, hi)
    BY <1>2 DEF Bytes
  <2>2. QED
    BY <1>3, <1>4, <1>5, <2>1
<1>7. \A a : a \in Bytes(s, f, l, lo, hi) => a \in Nat
  BY DEF Bytes
<1>8. QED
  BY <1>6, <1>7

(* A place is tracked once. *)
LEMMA TracksOnce ==
    ASSUME NEW s, Ordered(s), NEW a \in Nat, NEW w \in {0, 1},
           NEW x, NEW y, Tracks(s, a, w, x), Tracks(s, a, w, y)
    PROVE  x = y
<1>1. PICK i \in 1 .. Len(s) : Covers(s[i], a, w) /\ Fields(s[i]) = x
  BY DEF Tracks
<1>2. PICK j \in 1 .. Len(s) : Covers(s[j], a, w) /\ Fields(s[j]) = y
  BY DEF Tracks
<1>3. /\ s[i].start \in Nat /\ s[i].end \in Nat /\ s[j].start \in Nat /\ s[j].end \in Nat
      /\ Len(s) \in Nat
  BY OrderedFields DEF Ordered
<1>4. /\ i < j => Earlier(s[i], s[j])
      /\ j < i => Earlier(s[j], s[i])
  BY DEF Ordered
<1>5. i = j
  BY <1>1, <1>2, <1>3, <1>4 DEF Covers, Width, Earlier
<1>6. QED
  BY <1>1, <1>2, <1>5

(* The pages of a range, and the addresses among them. *)
InRange(s, lo, hi) == {p \in PagesOf(s) : Pages!Meets(p, lo, hi)}
AddressesIn(s, lo, hi) == {p \in InRange(s, lo, hi) : p.width = 1}

(* There are as many tracked addresses in a range as the items cover bytes of
   it. *)
LEMMA PagesPerByte ==
    ASSUME NEW s, Ordered(s), NEW f, NEW l, NEW lo \in Address, NEW hi \in Address, lo <= hi,
           Run(s, f, l, lo, hi)
    PROVE  Cardinality(AddressesIn(s, lo, hi)) = Cardinality(Bytes(s, f, l, lo, hi))
<1> DEFINE S == Bytes(s, f, l, lo, hi)
           T == AddressesIn(s, lo, hi)
           Field(a) == CHOOSE x : Tracks(s, a, 1, x)
           g == [a \in S |-> Pages!Page(a, 1, Field(a))]
<1>1. \A a \in S : a \in Nat /\ Within(a, 1, lo, hi) /\ Tracks(s, a, 1, Field(a)) /\ Field(a) \in FieldSet
  <2>1. SUFFICES ASSUME NEW a \in S
                 PROVE  /\ a \in Nat /\ Within(a, 1, lo, hi)
                        /\ Tracks(s, a, 1, Field(a)) /\ Field(a) \in FieldSet
    OBVIOUS
  <2>2. a \in Nat /\ Within(a, 1, lo, hi) /\ \E x : Tracks(s, a, 1, x)
    BY BytesAre
  <2>3. Tracks(s, a, 1, Field(a))
    BY <2>2
  <2> HIDE DEF Field
  <2>4. QED
    BY <2>2, <2>3, TracksFields
<1>2. \A p \in T : \E a \in S : p = Pages!Page(a, 1, Field(a))
  <2>1. SUFFICES ASSUME NEW p \in T
                 PROVE  \E a \in S : p = Pages!Page(a, 1, Field(a))
    OBVIOUS
  <2>2. p \in PagesOf(s) /\ Pages!Meets(p, lo, hi) /\ p.width = 1
    BY DEF AddressesIn, InRange
  <2>3. PICK a \in Nat, w \in {0, 1}, x \in FieldSet : p = Pages!Page(a, w, x) /\ Tracks(s, a, w, x)
    BY <2>2, PagesAre
  <2>4. w = 1 /\ Within(a, 1, lo, hi)
    <3>1. p.width = w
      BY <2>3, PageFields
    <3>2. Pages!Meets(Pages!Page(a, w, x), lo, hi) <=> Within(a, w, lo, hi)
      BY PageMeets
    <3>3. QED
      BY <2>2, <2>3, <3>1, <3>2
  <2>5. a \in S
    BY <2>3, <2>4, BytesAre
  <2>6. x = Field(a)
    BY <1>1, <2>3, <2>4, <2>5, TracksOnce
  <2>7. QED
    BY <2>3, <2>4, <2>5, <2>6
<1>3. \A a \in S : Pages!Page(a, 1, Field(a)) \in T /\ Pages!Page(a, 1, Field(a)).addr = a
  <2>1. SUFFICES ASSUME NEW a \in S
                 PROVE  Pages!Page(a, 1, Field(a)) \in T /\ Pages!Page(a, 1, Field(a)).addr = a
    OBVIOUS
  <2>2. a \in Nat /\ Within(a, 1, lo, hi) /\ Tracks(s, a, 1, Field(a)) /\ Field(a) \in FieldSet
    BY <1>1
  <2> HIDE DEF Field, S
  <2>3. Pages!Page(a, 1, Field(a)).addr = a /\ Pages!Page(a, 1, Field(a)).width = 1
    BY <2>2, PageFields
  <2>4. Pages!Page(a, 1, Field(a)) \in PagesOf(s) /\ Pages!Meets(Pages!Page(a, 1, Field(a)), lo, hi)
    BY <2>2, PagesAre, PageMeets
  <2>5. QED
    BY <2>3, <2>4 DEF AddressesIn, InRange
<1> HIDE DEF S, T, Field
<1>4. g \in Injection(S, T)
  BY <1>3 DEF Injection, IsInjective
<1>5. g \in Surjection(S, T)
  BY <1>2, <1>3 DEF Surjection
<1>6. ExistsBijection(S, T)
  BY <1>4, <1>5 DEF ExistsBijection, Bijection
<1>7. IsFiniteSet(S)
  BY SumIsBytes DEF S
<1>8. Cardinality(T) = Cardinality(S)
  BY <1>6, <1>7, FS_Bijection
<1>9. QED
  BY <1>8 DEF S, T

(* No tracked place has flags 0. *)
Flagged(s) == \A a \in Nat, w \in {0, 1} : \A x : Tracks(s, a, w, x) => x.flags # 0

(* So no item has flags 0: each covers its own start. *)
LEMMA FlaggedItems ==
    ASSUME NEW s, Ordered(s), Flagged(s)
    PROVE  \A i \in 1 .. Len(s) : s[i].flags # 0
<1>1. SUFFICES ASSUME NEW i \in 1 .. Len(s)
               PROVE  s[i].flags # 0
  OBVIOUS
<1> DEFINE w == Width(s[i])
<1>2. s[i].start \in Nat /\ w \in {0, 1} /\ Covers(s[i], s[i].start, w)
  BY OrderedFields DEF Covers, Width
<1> HIDE DEF w
<1>3. Tracks(s, s[i].start, w, Fields(s[i]))
  BY <1>2 DEF Tracks
<1>4. Fields(s[i]).flags # 0
  BY <1>2, <1>3 DEF Flagged
<1>5. QED
  BY <1>4 DEF Fields

(* The flags of the lowest of the given pages. *)
FlagsOf(known) == IF known = {} THEN 0 ELSE (CHOOSE p \in Pages!Lowest(known) : TRUE).flags

(* There is one lowest page. *)
LEMMA LowestIs ==
    ASSUME NEW s, Ordered(s), NEW known, known \subseteq PagesOf(s), NEW p \in Pages!Lowest(known)
    PROVE  FlagsOf(known) = p.flags
<1>1. ASSUME NEW r \in Pages!Lowest(known)
      PROVE  r = p
  <2>1. /\ r \in PagesOf(s) /\ p \in PagesOf(s)
        /\ p = r \/ p.addr + p.width <= r.addr
        /\ p = r \/ r.addr + r.width <= p.addr
    BY DEF Pages!Lowest
  <2>2. PICK a \in Nat, w \in {0, 1}, x \in FieldSet : p = Pages!Page(a, w, x) /\ Tracks(s, a, w, x)
    BY <2>1, PagesAre
  <2>3. PICK b \in Nat, v \in {0, 1}, y \in FieldSet : r = Pages!Page(b, v, y) /\ Tracks(s, b, v, y)
    BY <2>1, PagesAre
  <2>4. p.addr = a /\ p.width = w
    BY <2>2, PageFields
  <2>5. r.addr = b /\ r.width = v
    BY <2>3, PageFields
  <2>6. p = r \/ (a = b /\ w = 0 /\ v = 0)
    BY <2>1, <2>4, <2>5
  <2>7. a = b /\ w = v => x = y
    BY <2>2, <2>3, TracksOnce
  <2>8. QED
    BY <2>2, <2>3, <2>6, <2>7
<1>2. known # {}
  BY DEF Pages!Lowest
<1>3. (CHOOSE r \in Pages!Lowest(known) : TRUE) = p
  BY <1>1
<1>4. QED
  BY <1>2, <1>3 DEF FlagsOf

(* mprotect returns the flags of the lowest tracked page of its range. *)
LEMMA HitFlagsAre ==
    ASSUME NEW s, Ordered(s), Flagged(s), NEW lo \in Address, NEW hi \in Address, lo < hi
    PROVE  HitFlags(s, lo, hi) = FlagsOf(InRange(s, lo, hi))
<1> DEFINE f == Find(s, lo)
           l == LastHit(s, f, lo, hi)
           I == InRange(s, lo, hi)
           hits == {i \in f .. l : s[i].flags # 0}
<1>1. lo \in Nat /\ hi \in Nat /\ Len(s) \in Nat
  BY Addresses DEF Ordered
<1>2. Run(s, f, l, lo, hi)
  BY RunOfRange
<1>3. HitFlags(s, lo, hi) = IF hits = {} THEN 0 ELSE s[Min(hits)].flags
  BY DEF HitFlags
<1> HIDE DEF l
<1>4. f \in Nat /\ l \in Nat /\ \A i \in f .. l : i \in 1 .. Len(s)
  BY <1>1, <1>2 DEF Run
<1>5. hits = f .. l
  BY <1>4, FlaggedItems
<1> HIDE DEF f, hits
<1>6. CASE f <= l
  <2>1. f \in f .. l /\ f \in 1 .. Len(s) /\ f <= Len(s)
    BY <1>1, <1>4, <1>6
  <2>2. Min(hits) = f
    <3>1. hits \in SUBSET Nat /\ hits # {} /\ f \in hits /\ \A n \in hits : f <= n
      <4>1. \A n \in f .. l : n \in Nat /\ f <= n
        BY <1>4
      <4>2. QED
        BY <1>5, <2>1, <4>1, Zenon
    <3>2. Min(hits) \in hits /\ \A n \in hits : Min(hits) <= n
      BY <3>1, MinIs
    <3>3. Min(hits) \in Nat /\ Min(hits) <= f /\ f <= Min(hits)
      BY <3>1, <3>2
    <3>4. QED
      BY <1>4, <3>3
  <2>3. HitFlags(s, lo, hi) = s[f].flags
    BY <1>3, <1>5, <2>1, <2>2
  <2> DEFINE from == {q \in PagesOf(s) : lo < q.addr + q.width}
  <2>4. PICK p \in Pages!Lowest(from) : p.flags = s[f].flags
    BY <2>1, LowestPage DEF f
  <2>5. PICK a \in Nat, w \in {0, 1} : Within(a, w, lo, hi) /\ Covers(s[f], a, w)
    <3>1. /\ s[f].start \in Nat /\ s[f].end \in Nat /\ s[f].start <= s[f].end
          /\ lo < s[f].end /\ s[f].start < hi
      BY <1>2, <2>1, OrderedFields DEF Run
    <3> DEFINE a == IF lo <= s[f].start THEN s[f].start ELSE lo
               w == Width(s[f])
    <3>2. a \in Nat /\ w \in {0, 1} /\ Within(a, w, lo, hi) /\ Covers(s[f], a, w)
      BY <1>1, <3>1 DEF Within, Covers, Width
    <3> HIDE DEF a, w
    <3>3. QED
      BY <3>2
  <2>6. PICK q \in PagesOf(s) : q.addr = a /\ q.width = w
    <3>1. Tracks(s, a, w, Fields(s[f]))
      BY <2>1, <2>5 DEF Tracks
    <3>2. Fields(s[f]) \in FieldSet
      BY <3>1, TracksFields
    <3>3. QED
      BY <3>1, <3>2, PagesAre, PageFields
  <2>7. \A r \in PagesOf(s) : r.addr \in Nat /\ r.width \in {0, 1}
    BY PagesAre, PageFields
  <2>8. p \in I
    <3>1. p \in PagesOf(s) /\ lo < p.addr + p.width /\ (p = q \/ p.addr + p.width <= q.addr)
      BY <2>5, <2>6 DEF Pages!Lowest, Within
    <3>2. p.addr < hi
      BY <1>1, <2>5, <2>6, <2>7, <3>1 DEF Within
    <3>3. QED
      BY <3>1, <3>2 DEF InRange, Pages!Meets
  <2>9. p \in Pages!Lowest(I)
    <3>1. I \subseteq from
      BY DEF InRange, Pages!Meets
    <3> HIDE DEF I, from
    <3>2. QED
      BY <2>8, <3>1 DEF Pages!Lowest
  <2>10. I \subseteq PagesOf(s)
    BY DEF InRange
  <2> HIDE DEF I
  <2>11. FlagsOf(I) = p.flags
    BY <2>9, <2>10, LowestIs
  <2>12. QED
    BY <2>3, <2>4, <2>11 DEF I
<1>7. CASE ~(f <= l)
  <2>1. hits = {}
    BY <1>4, <1>5, <1>7
  <2>2. I = {}
    <3>1. SUFFICES ASSUME NEW p \in I
                   PROVE  FALSE
      OBVIOUS
    <3>2. p \in PagesOf(s) /\ Pages!Meets(p, lo, hi)
      BY DEF InRange
    <3>3. PICK a \in Nat, w \in {0, 1}, x \in FieldSet : p = Pages!Page(a, w, x) /\ Tracks(s, a, w, x)
      BY <3>2, PagesAre
    <3>4. Pages!Meets(Pages!Page(a, w, x), lo, hi) <=> Within(a, w, lo, hi)
      BY PageMeets
    <3>5. PICK i \in 1 .. Len(s) : Covers(s[i], a, w)
      BY <3>3 DEF Tracks
    <3>6. s[i].start \in Nat /\ s[i].end \in Nat
      BY OrderedFields
    <3>7. ~(s[i].end <= lo) /\ ~(hi <= s[i].start)
      BY <1>1, <3>2, <3>3, <3>4, <3>5, <3>6 DEF Within, Covers
    <3>8. ~(i < f) /\ ~(i > l)
      BY <1>2, <3>7 DEF Run
    <3>9. QED
      BY <1>4, <1>7, <3>8
  <2>3. QED
    BY <1>3, <2>1, <2>2 DEF I, FlagsOf
<1>8. QED
  BY <1>6, <1>7

(* Of an empty range mprotect returns the flags of the address at it, or 0. *)
LEMMA HitFlagsOfNothing ==
    ASSUME NEW s, Ordered(s), NEW at \in Address
    PROVE  HitFlags(s, at, at) \in {0, FlagsOf(InRange(s, at, at + 1))}
<1> DEFINE f == Find(s, at)
           l == LastHit(s, f, at, at)
           I == InRange(s, at, at + 1)
           hits == {i \in f .. l : s[i].flags # 0}
<1>1. at \in Nat /\ Len(s) \in Nat
  BY Addresses DEF Ordered
<1>2. Run(s, f, l, at, at)
  BY <1>1, RunOfRange
<1>3. HitFlags(s, at, at) = IF hits = {} THEN 0 ELSE s[Min(hits)].flags
  BY DEF HitFlags
<1>4. hits \in SUBSET Nat /\ \A i \in hits : i \in f .. l /\ i \in 1 .. Len(s)
  BY <1>1, <1>2 DEF Run
<1> HIDE DEF f, l, hits
<1>5. CASE hits # {}
  <2> DEFINE i == Min(hits)
             x == Fields(s[i])
             p == Pages!Page(at, 1, x)
  <2>1. i \in f .. l /\ i \in 1 .. Len(s)
    BY <1>4, <1>5, MinIs
  <2> HIDE DEF i
  <2>2. s[i].start < at /\ at < s[i].end /\ s[i].start \in Nat /\ s[i].end \in Nat
    BY <1>2, <2>1, OrderedFields DEF Run
  <2>3. Tracks(s, at, 1, x)
    BY <1>1, <2>1, <2>2 DEF Tracks, Covers, Width
  <2>4. x \in FieldSet /\ x.flags = s[i].flags
    BY <2>3, TracksFields DEF Fields
  <2> HIDE DEF x
  <2>5. p \in PagesOf(s) /\ p.flags = x.flags /\ Pages!Meets(p, at, at + 1)
    <3>1. Within(at, 1, at, at + 1)
      BY <1>1 DEF Within
    <3>2. Pages!Meets(p, at, at + 1)
      BY <1>1, <2>4, <3>1, PageMeets
    <3>3. QED
      BY <1>1, <2>3, <2>4, <3>2, PagesAre, PageFields
  <2>6. ASSUME NEW q \in I
        PROVE  q = p
    <3>1. q \in PagesOf(s) /\ Pages!Meets(q, at, at + 1)
      BY DEF InRange
    <3>2. PICK a \in Nat, w \in {0, 1}, y \in FieldSet : q = Pages!Page(a, w, y) /\ Tracks(s, a, w, y)
      BY <3>1, PagesAre
    <3>3. Pages!Meets(Pages!Page(a, w, y), at, at + 1) <=> Within(a, w, at, at + 1)
      BY PageMeets
    <3>4. a = at /\ w = 1
      BY <1>1, <3>1, <3>2, <3>3 DEF Within
    <3>5. y = x
      BY <1>1, <2>3, <3>2, <3>4, TracksOnce
    <3>6. QED
      BY <3>2, <3>4, <3>5
  <2>7. p \in I
    BY <2>5 DEF InRange
  <2> HIDE DEF p
  <2>8. p \in Pages!Lowest(I)
    BY <2>6, <2>7 DEF Pages!Lowest
  <2>9. I \subseteq PagesOf(s)
    BY DEF InRange
  <2> HIDE DEF I
  <2>10. FlagsOf(I) = p.flags
    BY <2>8, <2>9, LowestIs
  <2>11. QED
    BY <1>3, <1>5, <2>4, <2>5, <2>10 DEF i, I
<1>6. QED
  BY <1>3, <1>5

(* The operations keep the flags away from 0: new ones come from mmap only. *)
LEMMA OperationsKeepFlags ==
    ASSUME NEW s, Ordered(s), Flagged(s), NEW lo \in Address, NEW hi \in Address, lo <= hi
    PROVE  /\ Flagged(DoMunmap(s, lo, hi))
           /\ \A prot \in Nat : Flagged(DoMprotect(s, lo, hi, prot))
           /\ \A new \in FieldSet : lo < hi /\ new.flags # 0 => Flagged(DoMmap(s, lo, hi, new))
<1>1. Flagged(DoMunmap(s, lo, hi))
  BY DoMunmapIs DEF Flagged
<1>2. ASSUME NEW prot \in Nat
      PROVE  Flagged(DoMprotect(s, lo, hi, prot))
  <2> DEFINE u == DoMprotect(s, lo, hi, prot)
  <2>1. SUFFICES ASSUME NEW a \in Nat, NEW w \in {0, 1}, NEW m, Tracks(u, a, w, m)
                 PROVE  m.flags # 0
    BY DEF Flagged
  <2>2. \/ Tracks(s, a, w, m)
        \/ \E b \in Nat, v \in {0, 1} : \E x : Tracks(s, b, v, x) /\ m = With(x, [prot |-> prot])
    <3>1. CASE lo < hi
      <4>1. Tracks(s, a, w, m) \/ \E x : Tracks(s, a, w, x) /\ m = With(x, [prot |-> prot])
        BY <2>1, <3>1, DoMprotectIs
      <4>2. QED
        BY <4>1
    <3>2. CASE lo = hi
      <4>1. \/ Tracks(s, a, w, m)
            \/ lo \in Nat /\ \E x : Tracks(s, lo, 1, x) /\ m = With(x, [prot |-> prot])
        BY <2>1, <3>2, ProtectNothingIs, Addresses
      <4>2. QED
        BY <4>1
    <3>3. QED
      BY <3>1, <3>2, Addresses
  <2> HIDE DEF u
  <2>3. CASE Tracks(s, a, w, m)
    BY <2>3 DEF Flagged
  <2>4. CASE \E b \in Nat, v \in {0, 1} : \E x : Tracks(s, b, v, x) /\ m = With(x, [prot |-> prot])
    <3>1. PICK b \in Nat, v \in {0, 1} : \E x : Tracks(s, b, v, x) /\ m = With(x, [prot |-> prot])
      BY <2>4
    <3>2. PICK x : Tracks(s, b, v, x) /\ m = With(x, [prot |-> prot])
      BY <3>1
    <3>3. x \in FieldSet /\ x.flags # 0
      BY <3>2, TracksFields DEF Flagged
    <3>4. With(x, [prot |-> prot]).flags = x.flags
      BY <3>3 DEF With, FieldSet
    <3>5. QED
      BY <3>2, <3>3, <3>4
  <2>5. QED
    BY <2>2, <2>3, <2>4
<1>3. ASSUME NEW new \in FieldSet, lo < hi, new.flags # 0
      PROVE  Flagged(DoMmap(s, lo, hi, new))
  <2>1. SUFFICES ASSUME NEW a \in Nat, NEW w \in {0, 1}, NEW m, Tracks(DoMmap(s, lo, hi, new), a, w, m)
                 PROVE  m.flags # 0
    BY DEF Flagged
  <2>2. Tracks(s, a, w, m) \/ m = new
    BY <1>3, <2>1, DoMmapIs
  <2>3. QED
    BY <1>3, <2>2 DEF Flagged
<1>4. QED
  BY <1>1, <1>2, <1>3

(* Every operation keeps the flags away from 0. *)
LEMMA StepKeepsFlags ==
    Ordered(mMmaps) /\ Flagged(mMmaps) /\ [Next]_mMmaps => Flagged(mMmaps)'
<1> SUFFICES ASSUME Ordered(mMmaps), Flagged(mMmaps), [Next]_mMmaps
             PROVE  Flagged(mMmaps')
  BY DEF Flagged, Tracks
<1>1. CASE UNCHANGED mMmaps
  BY <1>1
<1>2. ASSUME NEW lo \in Address, NEW hi \in Address, lo <= hi,
             NEW m \in Mappings, mmap(lo, hi, m)
      PROVE  Flagged(mMmaps')
  <2>1. lo < hi /\ m \in FieldSet /\ mMmaps' = DoMmap(mMmaps, lo, hi, m)
    BY <1>2, Operations
  <2>2. m.flags # 0
    BY TrackerAssumption DEF TrackerAssumption
  <2>3. QED
    BY <1>2, <2>1, <2>2, OperationsKeepFlags
<1>3. ASSUME NEW lo \in Address, NEW hi \in Address, lo <= hi, munmap(lo, hi)
      PROVE  Flagged(mMmaps')
  BY <1>3, OperationsKeepFlags DEF munmap
<1>4. ASSUME NEW lo \in Address, NEW hi \in Address, lo <= hi,
             NEW prot \in Protections, mprotect(lo, hi, prot)
      PROVE  Flagged(mMmaps')
  BY <1>4, Inputs, OperationsKeepFlags DEF mprotect
<1>5. ASSUME NEW lo \in Address, NEW hi \in Address, lo <= hi,
             NEW newLo \in Address, NEW newHi \in Address, NEW stack \in Stacks,
             mremap(lo, hi, newLo, newHi, stack)
      PROVE  Flagged(mMmaps')
  <2>1. /\ newLo < newHi /\ stack \in Nat /\ Find(mMmaps, lo) <= Len(mMmaps)
        /\ mMmaps' = DoMmap(DoMunmap(mMmaps, lo, hi), newLo, newHi, Moved(mMmaps, lo, stack))
    BY <1>5, Operations
  <2>2. Moved(mMmaps, lo, stack) \in FieldSet
    BY <2>1, MovedIs
  <2>3. Moved(mMmaps, lo, stack).flags # 0
    <3>1. Find(mMmaps, lo) \in 1 .. Len(mMmaps)
      <4>1. Len(mMmaps) \in Nat /\ lo \in Nat
        BY Addresses DEF Ordered
      <4>2. Find(mMmaps, lo) \in 1 .. Len(mMmaps) + 1
        BY <4>1, FindIs
      <4>3. QED
        BY <2>1, <4>1, <4>2
    <3>2. mMmaps[Find(mMmaps, lo)].flags # 0
      BY <3>1, FlaggedItems
    <3>3. QED
      BY <3>2 DEF Moved
  <2>4. Ordered(DoMunmap(mMmaps, lo, hi)) /\ Flagged(DoMunmap(mMmaps, lo, hi))
    BY <1>5, DoMunmapIs, OperationsKeepFlags
  <2>5. newLo <= newHi
    BY <2>1, Addresses
  <2>6. QED
    BY <2>1, <2>2, <2>3, <2>4, <2>5, OperationsKeepFlags
<1>6. QED
  BY <1>1, <1>2, <1>3, <1>4, <1>5 DEF Next

(* No tracked mapping ever has flags 0, the value that mprotect returns for
   none. *)
THEOREM AlwaysFlagged == Spec => []Flagged(mMmaps)
<1>1. Init => Flagged(mMmaps)
  BY None DEF Init, Flagged
<1>2. QED
  BY <1>1, AlwaysOrdered, StepKeepsFlags, PTL DEF Spec

(* Whatever the vector holds, munmap and madvise return the number of tracked
   bytes of their range and mprotect the flags of the lowest page there, an
   address or a seam. *)
THEOREM ReturnsAlwaysExact == Spec => []ReturnsExact
<1>1. Ordered(mMmaps) /\ Flagged(mMmaps) => ReturnsExact
  <2> SUFFICES ASSUME Ordered(mMmaps), Flagged(mMmaps),
                      NEW lo \in Address, NEW hi \in Address, lo <= hi
               PROVE  /\ Covered(mMmaps, lo, hi) =
                             Cardinality({p \in Pages!Inside(lo, hi) : p.width = 1})
                      /\ lo < hi => HitFlags(mMmaps, lo, hi) = Pages!LowestFlags(lo, hi)
                      /\ lo = hi => HitFlags(mMmaps, lo, hi) \in {0, Pages!LowestFlags(lo, lo + 1)}
    BY DEF ReturnsExact
  <2>1. \A from, to : Pages!Inside(from, to) = InRange(mMmaps, from, to)
    BY DEF Pages!Inside, InRange, PagesOf, trackedPages
  <2>2. Covered(mMmaps, lo, hi) = Cardinality({p \in Pages!Inside(lo, hi) : p.width = 1})
    <3> DEFINE f == Find(mMmaps, lo)
               l == LastHit(mMmaps, f, lo, hi)
    <3>1. Run(mMmaps, f, l, lo, hi)
      BY RunOfRange
    <3>2. Covered(mMmaps, lo, hi) = SumOf(Lengths(mMmaps, f, l, lo, hi), f .. l)
      BY CoveredIsSum
    <3>3. {p \in Pages!Inside(lo, hi) : p.width = 1} = AddressesIn(mMmaps, lo, hi)
      BY <2>1 DEF AddressesIn
    <3> HIDE DEF f, l
    <3>4. QED
      BY <3>1, <3>2, <3>3, SumIsBytes, PagesPerByte
  <2>3. \A from, to : Pages!LowestFlags(from, to) = FlagsOf(InRange(mMmaps, from, to))
    <3>1. \A from, to : Pages!LowestFlags(from, to) = FlagsOf(Pages!Inside(from, to))
      BY DEF Pages!LowestFlags, FlagsOf
    <3>2. QED
      BY <2>1, <3>1
  <2>4. lo < hi => HitFlags(mMmaps, lo, hi) = Pages!LowestFlags(lo, hi)
    BY <2>3, HitFlagsAre
  <2>5. lo = hi => HitFlags(mMmaps, lo, hi) \in {0, Pages!LowestFlags(lo, lo + 1)}
    <3>1. HitFlags(mMmaps, lo, lo) \in {0, FlagsOf(InRange(mMmaps, lo, lo + 1))}
      BY HitFlagsOfNothing
    <3>2. QED
      BY <2>3, <3>1
  <2>6. QED
    BY <2>2, <2>4, <2>5
<1>2. QED
  BY <1>1, AlwaysOrdered, AlwaysFlagged, PTL
=============================================================================
