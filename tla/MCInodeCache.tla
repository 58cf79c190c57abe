---------------------------- MODULE MCInodeCache ----------------------------
(* InodeCache with one slot fewer than the inodes in use, so that slots are  *)
(* reused, refused and reloaded.  Contents are interchangeable.              *)
EXTENDS InodeCache, TLC

Symmetry == Permutations(Value)
=============================================================================
