----------------------------- MODULE MCSimTree -----------------------------
EXTENDS SimTree

(* One name from the current directory; the root, or two names that differ   *)
(* from there.                                                               *)
SomePaths ==
  [abs : {FALSE}, names : [1..1 -> Name]]
    \cup [abs : {TRUE}, names : {<<>>} \cup {names \in [1..2 -> Name] : names[1] # names[2]}]
Symmetry == Permutations(Name)
=============================================================================
