---------------------------- MODULE ModuleTable ----------------------------
(***************************************************************************)
(* How the parser finds the module of an instruction pointer: the modules  *)
(* it makes of the libraries it is told of, the map of their ranges by     *)
(* start, and the look-up in that map.                                     *)
(*                                                                         *)
(* A library is a name, the address it is loaded at and the headers that   *)
(* came with it.  A module is made once per name, for all applications,    *)
(* and keeps the address it was made with.                                 *)
(***************************************************************************)
EXTENDS Integers, Sequences, SequencesExt

CONSTANT Skipped        \* names that get no module: linux-vdso.so, linux-gate.so

\* Module::create and addHeader for one library.  An existing module is used
\* as it is, and the headers are added at its address.
WithModule(acc, lib) ==
    LET module == IF lib.name \in DOMAIN acc.table THEN acc.table[lib.name]
                  ELSE [addr |-> lib.addr, ranges |-> <<>>]
        At(header) == [start |-> module.addr + header.addr,
                       end   |-> module.addr + header.addr + header.len]
        ranges == [i \in DOMAIN lib.headers |-> At(lib.headers[i])]
    IN  IF lib.name \in Skipped THEN acc
        ELSE [modules |-> Append(acc.modules, lib.name),
              table   |-> (lib.name :> [module EXCEPT !.ranges = @ \o ranges]) @@ acc.table]

\* The libraries that are past the number of modules get one each.  Since
\* skipped ones are not counted, some are visited again.
WithModules(modules, table, libraries) ==
    FoldLeft(WithModule, [modules |-> modules, table |-> table],
             SubSeq(libraries, Len(modules) + 1, Len(libraries)))

\* The map from starts to ends and modules.  The first of several with one
\* start stays.
CacheOf(modules, table) ==
    LET Entry(name, r) == r.start :> [end |-> r.end, module |-> name]
        Put(cache, name) ==
            FoldLeft(LAMBDA c, r : c @@ Entry(name, r), cache, table[name].ranges)
    IN  FoldLeft(Put, <<>>, modules)

StartsBelow(cache, ip) == {s \in DOMAIN cache : s <= ip}

FoundBelow(cache, ip) ==
    IF StartsBelow(cache, ip) = {} THEN {} ELSE {cache[Max(StartsBelow(cache, ip))].module}

\* The module of the last range that starts at or below ip, if ip is not past
\* its end, which counts as inside; as a set of at most one.
Found(cache, ip) ==
    IF StartsBelow(cache, ip) = {} THEN {}
    ELSE LET entry == cache[Max(StartsBelow(cache, ip))]
         IN  IF ip <= entry.end THEN {entry.module} ELSE {}
=============================================================================
