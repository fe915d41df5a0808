----------------------------- MODULE MCTextSwap -----------------------------
(* Short strings, and offsets a hundredth of the real ones, for TLC *)
EXTENDS TextSwap

\* "%sp" -> "%sPk", "a%sb" -> "A%s", "q%s" -> longer than Cap, "ll" -> "LLL" -> "LL",
\* and the shipped table's "L%d" -> "L%d"
MCChar == {"p", "P", "k", "a", "A", "b", "q", "Q", "u", "i", "z", "l", "L", "K", "e", "n",
           "F", "h", "d", "1", "2", "v", "V", "o"}
MCFmt == {<<Pct, "p">>, <<"a", Pct, "b">>, <<"q", Pct>>, <<"l", "l">>, <<Pct, Pct>>, <<"L", Pct>>}
MCArg == {<<"k", "e", "n">>, <<"h", "i">>, <<"1", "2">>, <<"v", "v">>}
MCKey == (MCFmt \ {<<Pct, Pct>>}) \union (MCArg \ {<<"1", "2">>}) \union {<<"L", "L", "L">>}
MCEn == [s \in MCKey |->
  CASE s = <<Pct, "p">> -> <<Pct, "P", "k">>
    [] s = <<"a", Pct, "b">> -> <<"A", Pct>>
    [] s = <<"q", Pct>> -> <<"Q", "u", "i", Pct, "z">>
    [] s = <<"l", "l">> -> <<"L", "L", "L">>
    [] s = <<"L", Pct>> -> <<"L", Pct>>
    [] s = <<"L", "L", "L">> -> <<"L", "L">>
    [] s = <<"k", "e", "n">> -> <<"F">>
    [] s = <<"h", "i">> -> <<"L", "z", "d">>
    [] s = <<"v", "v">> -> <<"V", "V", "V", "V", "V">>]
MCTables == {MCKey, MCKey \ MCFmt, MCKey \ MCArg, {}}

\* No string of the table, one with English, a template, and the longer English
MCOther == {<<"n", "o">>, <<"h", "i">>, <<Pct, "p">>}

\* The stack holds a routine's locals, zeros or characters
MCStale == {[x \in 0 .. Top |-> c] : c \in {Junk, Nul, "K"}}

ASSUME TableFitsAssumption == TableFits
=============================================================================
