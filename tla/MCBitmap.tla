------------------------------ MODULE MCBitmap ------------------------------
(* Bitmap on a device of three blocks and two inodes, with counters narrow   *)
(* enough to wrap around, two kills and one stray free.                      *)
EXTENDS Bitmap
=============================================================================
