------------------------------- MODULE Reader -------------------------------
(***************************************************************************)
(* Model.parse of the visualizer, which reads the parser's output: what    *)
(* each record does to the stacks and strings, for one application.        *)
(*                                                                         *)
(* A stack may come before the symbols of its addresses, or after, when    *)
(* another stack has the same ones.                                        *)
(***************************************************************************)
EXTENDS Integers, Sequences, SequencesExt

Unknown == <<>>         \* undefined: no frame

Empty == [stacks |-> <<>>, stackStrings |-> <<>>, ipToStacks |-> <<>>, ipToFrame |-> <<>>]

Lookup(map, key, default) == IF key \in DOMAIN map THEN map[key] ELSE default

\* The frames are appended to what the index already has.  The lists in
\* ipToStacks hold a stack as often as it has the address; here they are sets
\* of indices.
ReadStackUnfilled(m, r) ==
    LET frames  == [i \in DOMAIN r.ips |-> [ip |-> r.ips[i], frame |-> Unknown]]
        waiting == ToSet(r.ips)
    IN  [m EXCEPT !.stacks     = (r.idx :> (Lookup(@, r.idx, <<>>) \o frames)) @@ @,
                  !.ipToStacks = [ip \in waiting |-> Lookup(@, ip, {}) \cup {r.idx}] @@ @]

ReadStack(m, r) ==
    LET frames  == [i \in DOMAIN r.ips |-> [ip |-> r.ips[i], frame |-> Lookup(m.ipToFrame, r.ips[i], Unknown)]]
        waiting == {f.ip : f \in {f \in ToSet(frames) : f.frame = Unknown}}
    IN  [m EXCEPT !.stacks     = (r.idx :> (Lookup(@, r.idx, <<>>) \o frames)) @@ @,
                  !.ipToStacks = [ip \in waiting |-> Lookup(@, ip, {}) \cup {r.idx}] @@ @]

ReadString(m, r) == [m EXCEPT !.stackStrings = (r.idx :> r.str) @@ @]

ReadAddr(m, r) ==
    LET waiting == Lookup(m.ipToStacks, r.ip, {})
        Fill(f) == IF f.ip = r.ip THEN [f EXCEPT !.frame = r.frames] ELSE f
    IN  [m EXCEPT !.ipToFrame  = (r.ip :> r.frames) @@ @,
                  !.ipToStacks = [ip \in DOMAIN @ \ {r.ip} |-> @[ip]],
                  !.stacks     = [idx \in DOMAIN @ |->
                      IF idx \in waiting THEN [i \in DOMAIN @[idx] |-> Fill(@[idx][i])] ELSE @[idx]]]

Read(m, r) ==
    CASE r.type = "Stack"       -> ReadStack(m, r)
      [] r.type = "StackString" -> ReadString(m, r)
      [] r.type = "StackAddr"   -> ReadAddr(m, r)
      [] OTHER                  -> m

parse(file) == FoldLeft(Read, Empty, file)
=============================================================================
