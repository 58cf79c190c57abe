----------------------------- MODULE MCMountRoot ----------------------------
(***************************************************************************)
(* MountRoot on a small tree: the root has five entries in two blocks, of *)
(* which one begins another; two directories below each other.             *)
(***************************************************************************)
EXTENDS MountRoot

Dots(i, p) == << [name |-> ".", inode |-> i], [name |-> "..", inode |-> p] >>
E(n, i) == [name |-> n, inode |-> i]
MCImage == [i \in 2..9 |->
  CASE i = 2 -> << Dots(2, 2) \o <<E("a", 3)>>, <<E("ab", 4), E("f", 5), E("h", 8), E("k", 9)>> >>
    [] i = 3 -> << Dots(3, 2) \o <<E("b", 6)>>, <<E("f", 5)>> >>
    [] i = 4 -> << Dots(4, 2) >>
    [] i = 6 -> << Dots(6, 3) \o <<E("f", 7)>> >>
    [] OTHER -> <<>>]

MCPaths == [abs : BOOLEAN, names : {<<"a">>, <<"ab">>, <<"f">>, <<"h">>, <<"k">>, <<"b">>, <<"..">>, <<"a", "b">>, <<"b", "f">>}]
MCBegins == {<<n, n>> : n \in {".", "..", "a", "ab", "f", "b", "h", "k"}} \cup {<<".", "..">>, <<"a", "ab">>}
=============================================================================
