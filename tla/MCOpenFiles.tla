----------------------------- MODULE MCOpenFiles -----------------------------
(* OpenFiles three times: with more inodes than slots, so that slots are     *)
(* reused, and sizes left out; with sizes, the modes that matter to them and *)
(* more table entries than descriptors; and with the modes a cat may find in *)
(* its uninitialised variable.                                               *)
EXTENDS OpenFiles

RefModes == {READ, APPEND}
SizeModes == {WRITE, READ_WRITE, APPEND}
CatModes == {READ, GARBAGE}
=============================================================================
