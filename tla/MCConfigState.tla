--------------------------- MODULE MCConfigState ----------------------------
(* ConfigState as it is: the cfg gives its sets.                           *)
EXTENDS ConfigState
=============================================================================
