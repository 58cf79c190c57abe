--------------------------- MODULE MCRecursiveCopy --------------------------
(***************************************************************************)
(* RecursiveCopy on every tree with a directory or file /a of up to two    *)
(* entries and a destination /d that may hold an /a of its own, and links  *)
(* from it into the source or elsewhere.                                   *)
(***************************************************************************)
EXTENDS RecursiveCopy

None == [kind |-> "none"]
Choice == [p \in {<<>>, <<"a">>, <<"a", "a">>, <<"a", "b">>, <<"a", "c">>, <<"a", "a", "c">>,
                  <<"a", "b", "c">>, <<"d">>, <<"d", "a">>, <<"d", "a", "b">>, <<"d", "a", "c">>} |->
  CASE p = <<>> -> {Directory}
    [] p = <<"a">> -> {Directory, File("a")}
    [] p = <<"a", "a">> -> {None, Directory}
    [] p = <<"a", "a", "c">> -> {None, File("aac")}
    [] p = <<"a", "b">> -> {None, Directory, File("ab"), LinkTo(<<"a", "c">>)}
    [] p = <<"a", "c">> -> {None, File("ac")}
    [] p = <<"a", "b", "c">> -> {None, File("abc")}
    [] p = <<"d">> -> {None, Directory, File("d")}
    [] p = <<"d", "a">> -> {None, Directory, File("da"), LinkTo(<<"a">>), LinkTo(<<>>)}
    [] p = <<"d", "a", "b">> -> {None, Directory, File("dab"), LinkTo(<<"d", "a", "c">>)}
    [] OTHER -> {None, File("dac")}]

Trimmed(t) == [p \in {q \in DOMAIN t : t[q] # None} |-> t[p]]
Combined ==
  FoldLeft(LAMBDA ts, p :
             UNION {{[q \in DOMAIN t \cup {p} |-> IF q = p THEN n ELSE t[q]] :
                     n \in IF p = <<>> \/ t[Front(p)] = Directory THEN Choice[p] ELSE {None}} :
                    t \in ts},
           {[q \in {} |-> None]},
           << <<>>, <<"a">>, <<"a", "a">>, <<"a", "b">>, <<"a", "c">>, <<"a", "a", "c">>, <<"a", "b", "c">>, <<"d">>,
              <<"d", "a">>, <<"d", "a", "b">>, <<"d", "a", "c">> >>)
MCTrees == {Trimmed(t) : t \in Combined}

MCArguments ==
  {<< <<"a">>, <<"d">> >>, << <<"a">>, <<"d", "x">> >>, << <<"a">>, <<"a">> >>,
   << <<".", "a">>, <<"a">> >>, << <<"a">>, <<"/">> >>, << <<"a">>, <<"d", ".">> >>,
   << <<"a">>, <<"d", "a", "x">> >>, << <<"a", "b">>, <<"a">> >>, << <<"a", "b">>, <<"d">> >>,
   << <<"a", "b">>, <<"d", "a">> >>, << <<"d", "a", "b">>, <<"e">> >>,
   << <<"a", "/">>, <<"a", "x">> >>, << <<"a", "/">>, <<"d", "/">> >>, << <<"a">>, <<"x", "/">> >>,
   << <<"/">>, <<"d">> >>, << <<"d", "a", "/">>, <<"a">> >>}
=============================================================================
