--------------------------- MODULE MCStackOutput ---------------------------
(* Small instance of StackOutput for TLC.  Library a has two segments, and the
   address just after the second one can be where the other is loaded; a file
   name of b is the name of a; frames share strings. *)
EXTENDS StackOutput, TLC

Seg(addr, len) == [addr |-> addr, len |-> len]

MCHeaders == ("a" :> <<Seg(0, 1), Seg(2, 1)>>) @@ ("b" :> <<Seg(0, 2)>>)
                @@ ("vdso" :> <<Seg(0, 1)>>)

F(fun, src) == [function |-> fun, file |-> src]

SymbolsAt == ("a" :> ((0 :> <<F("f", "x"), F("g", "")>>) @@ (2 :> <<F("", "x"), F("f", "b")>>)))
                @@ ("b" :> ((0 :> <<F("g", "a")>>) @@ (1 :> <<F("f", "")>>)))

\* Other offsets have no symbols.
MCSymbols == [name \in {"a", "b"} |->
                [offset \in -8 .. 8 |->
                    IF offset \in DOMAIN SymbolsAt[name] THEN SymbolsAt[name][offset] ELSE <<>>]]

MCStack == {<<1, 1>>, <<3, 1>>, <<4, 2>>}
=============================================================================
