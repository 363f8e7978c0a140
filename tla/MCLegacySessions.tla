-------------------------- MODULE MCLegacySessions --------------------------
(* LegacySessions as it is: the cfg gives its sets.                        *)
EXTENDS LegacySessions
=============================================================================
