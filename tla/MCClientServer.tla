--------------------------- MODULE MCClientServer ---------------------------
(* Two commands by one client, or by two one after the other, with buffers    *)
(* smaller than a file.                                                      *)
EXTENDS ClientServer
=============================================================================
