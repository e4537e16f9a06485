---------------------------- MODULE MCScanMerge ----------------------------
(* Small documents and muxes for TLC. *)
EXTENDS ScanMerge, TLC

Symmetry == Permutations(Keys)

=============================================================================
