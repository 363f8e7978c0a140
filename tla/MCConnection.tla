---------------------------- MODULE MCConnection ----------------------------
(* Connection as it is: it has no sets to choose.                          *)
EXTENDS Connection
=============================================================================
