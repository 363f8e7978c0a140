---------------------------- MODULE MCLegacyRead ----------------------------
(* LegacyRead as it is: the cfg gives its sets.                            *)
EXTENDS LegacyRead
=============================================================================
