--------------------------- MODULE MCVolumeGroups ---------------------------
(***************************************************************************)
(* Instances of VolumeGroups for TLC: an extent of 4 bytes, sizes that are *)
(* a whole number of extents and sizes that are not.                       *)
(***************************************************************************)
EXTENDS VolumeGroups, TLC

CONSTANTS c1, c2, d1, g1, n1, n2

Symmetry == Permutations({c1, c2}) \cup Permutations({n1, n2})

=============================================================================
