--------------------------- MODULE MCDeviceCache ----------------------------
(* DeviceCache on small instances.                                         *)
EXTENDS DeviceCache, TLC

\* Neither points nor values are told apart.
Symmetry == Permutations(Points) \cup Permutations(Values)
=============================================================================
