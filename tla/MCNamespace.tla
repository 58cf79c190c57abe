----------------------------- MODULE MCNamespace -----------------------------
(* Namespace with two names of which one begins the other, and directory     *)
(* blocks that are full after two names.                                     *)
EXTENDS Namespace

TwoNames == {"a", "ab"}
Begins == {<<"a", "ab">>}
=============================================================================
