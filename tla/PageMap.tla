------------------------------ MODULE PageMap ------------------------------
(***************************************************************************)
(* What a user of MmapTracker relies on, address by address: for every     *)
(* address the tracker knows at most one protection, flags and stack, and  *)
(* each operation changes exactly the addresses of its range.              *)
(*                                                                         *)
(* Two things may surprise.  Mapping a range of which a part is tracked    *)
(* updates that part and does NOT add the rest.  And protecting an empty   *)
(* range may leave something behind: a seam, which has no address of its   *)
(* own and stays until a range around it is unmapped.  A range around a    *)
(* seam counts as tracked in part, even if none of its addresses is.       *)
(***************************************************************************)
EXTENDS Integers, FiniteSets

CONSTANTS MaxAddr,      \* addresses are 0 .. MaxAddr - 1
          Mappings      \* the [prot, flags, stack] that mmap may be given

VARIABLE pages          \* what is tracked: addresses (width 1) and seams (width 0)

Protections == {m.prot : m \in Mappings}
Stacks      == {m.stack : m \in Mappings}

Page(a, w, m) == [addr |-> a, width |-> w, prot |-> m.prot, flags |-> m.flags, stack |-> m.stack]

\* An address in the range; a seam strictly between its ends.
Meets(p, lo, hi) == lo < p.addr + p.width /\ p.addr < hi

Inside(lo, hi)  == {p \in pages : Meets(p, lo, hi)}
Outside(lo, hi) == pages \ Inside(lo, hi)

\* A seam comes before the address it precedes.
Lowest(known) == {p \in known : \A q \in known : p = q \/ p.addr + p.width <= q.addr}

AfterUnmap(known, lo, hi) == {p \in known : ~Meets(p, lo, hi)}

AfterMap(known, lo, hi, m) ==
    LET hit == {p \in known : Meets(p, lo, hi)}
    IN  (known \ hit) \cup
            IF hit = {} THEN {Page(a, 1, m) : a \in lo .. hi - 1}
                        ELSE {Page(p.addr, p.width, m) : p \in hit}

\* The flags of the lowest page of the range, 0 if there is none.
LowestFlags(lo, hi) ==
    IF Inside(lo, hi) = {} THEN 0 ELSE (CHOOSE p \in Lowest(Inside(lo, hi)) : TRUE).flags

Map(lo, hi, m) == pages' = AfterMap(pages, lo, hi, m)

Unmap(lo, hi) == pages' = AfterUnmap(pages, lo, hi)

Protect(lo, hi, prot) ==
    pages' = Outside(lo, hi) \cup {[p EXCEPT !.prot = prot] : p \in Inside(lo, hi)}

\* Between two addresses of one mapping with another protection, an empty
\* range leaves a seam.
ProtectNothing(a, prot) ==
    \E p \in pages :
        /\ p.addr = a /\ p.width = 1 /\ p.prot # prot
        /\ Page(a - 1, 1, p) \in pages
        /\ \A q \in pages : q.addr = a => q.width = 1
        /\ pages' = pages \cup {Page(a, 0, [p EXCEPT !.prot = prot])}

\* The protection and flags of the lowest page tracked from lo on move to
\* another range.
Remap(lo, hi) ==
    \E p \in Lowest({q \in pages : lo < q.addr + q.width}), stack \in Stacks :
        LET left == AfterUnmap(pages, lo, hi)
            m    == [prot |-> p.prot, flags |-> p.flags, stack |-> stack]
        IN  \E newLo, newHi \in 0 .. MaxAddr :
                /\ newLo < newHi
                /\ newLo = lo \/ newHi <= lo \/ hi <= newLo
                /\ pages' = AfterMap(left, newLo, newHi, m)

PageInit == pages = {}

PageNext ==
    \E lo, hi \in 0 .. MaxAddr :
        /\ lo <= hi
        /\ \/ Unmap(lo, hi)
           \/ \E m \in Mappings : lo < hi /\ Map(lo, hi, m)
           \/ \E prot \in Protections :
                \/ Protect(lo, hi, prot)
                \/ lo = hi /\ ProtectNothing(lo, prot)
           \/ Remap(lo, hi)

PageSpec == PageInit /\ [][PageNext]_pages
=============================================================================
