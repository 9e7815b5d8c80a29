--------------------------- MODULE MCFirmwareQuery ---------------------------
(***************************************************************************)
(* FirmwareQuery for TLC: the callers are alike, and so are the versions.  *)
(***************************************************************************)
EXTENDS FirmwareQuery, TLC

Symmetry == Permutations(Caller) \cup Permutations(Version)

=============================================================================
