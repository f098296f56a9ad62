--------------------------- MODULE MCFsGsRuntime ---------------------------
(* Instances of FsGsRuntime for TLC.                                         *)
EXTENDS FsGsRuntime, TLC
CONSTANTS t1, t2, t3

ASSUME FsGsConstants == FsGsAssumption

Perms == Permutations(Regions)
=============================================================================
