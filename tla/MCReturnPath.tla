---------------------------- MODULE MCReturnPath ----------------------------
(* Instances of ReturnPath for TLC. *)
EXTENDS ReturnPath, TLC

Everywhere == AppCode \cup RerandCode
OutsideWindows == Everywhere \ Windows
Symmetric == Permutations(Sites) \cup Permutations(Bases)
=============================================================================
