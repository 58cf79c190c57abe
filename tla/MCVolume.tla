------------------------------ MODULE MCVolume ------------------------------
(***************************************************************************)
(* Volume on a device of 26 blocks of 4 integers, 3 of them direct; two    *)
(* files, one directory whose blocks hold three short names.               *)
(***************************************************************************)
EXTENDS Volume

CONSTANTS ShortA, ShortB, LongA, LongB, LongC   \* names

(* A file behind the doubly indirect block; a directory that outgrows its     *)
(* direct blocks beside a file of one block; one that grows and shrinks,     *)
(* with a kill; entries that are removed from the middle of a block.         *)
MCSetup == {
  [size |-> <<33, 1>>, others |-> {}, names |-> {}, kills |-> 1],
  [size |-> <<4, 0>>, others |-> 7..26, names |-> {ShortA, LongA, LongB, LongC}, kills |-> 0],
  [size |-> <<5, 1>>, others |-> 9..26, names |-> {LongA}, kills |-> 1],
  [size |-> <<1, 0>>, others |-> 5..26, names |-> {ShortA, ShortB, LongA}, kills |-> 0]}

(* The long names play the same part in every action. *)
Symmetry == Permutations(Long)
=============================================================================
