--------------------------- MODULE MCGsRspRuntime ---------------------------
(* Instances of GsRspRuntime for TLC.  The workers are interchangeable.    *)
EXTENDS GsRspRuntime, TLC

Workers == Threads \ {Main}
WorkerSymmetry == Permutations(Workers)
=============================================================================
