----------------------------- MODULE MCRunTimes -----------------------------
(* The two run-time libraries that use gs, for the questions that fair        *)
(* scheduling answers.  A program is linked with one of them: library says    *)
(* which, and the variables of the other stay as they are.                    *)
EXTENDS GsRspOwners

CONSTANTS Regions, SignalPlaces, MaxSignals, Ratio, FsGsIterations

VARIABLES
    library,
    own, ro, stray, open, areas, reg, base, call, locals, rounds, entries, mutex, at, hooked, missed,
    signals, broken

FsGs == INSTANCE FsGsRuntime WITH
    Iterations <- FsGsIterations, Movers <- Threads \ {Main}, AnyRegion <- FALSE, None <- Free,
    meta <- areas, gs <- reg, loc <- locals, round <- rounds, info <- entries, lock <- mutex,
    scan <- at, hook <- hooked, lost <- missed, fault <- broken

ASSUME FsGs!FsGsAssumption

fsgsvars == <<own, ro, stray, open, areas, reg, base, call, locals, rounds, entries, mutex, at, hooked,
              missed, signals, broken>>
allvars == <<vars, fsgsvars, library>>

InitBoth == library \in {"gs.rsp", "fsgs"} /\ Init /\ FsGs!Init
GsRspStep == library = "gs.rsp" /\ Next /\ UNCHANGED <<library, fsgsvars>>
FsGsStep == library = "fsgs" /\ FsGs!Next /\ UNCHANGED <<library, vars>>

SpecBoth == InitBoth /\ [][GsRspStep \/ FsGsStep]_allvars
FairSpecBoth ==
    /\ SpecBoth
    /\ library = "gs.rsp" => Fairness
    /\ library = "fsgs" => FsGs!Fairness

-----------------------------------------------------------------------------
\* A region is unmapped some time after its thread began to exit, unless the table was
\* full, and a thread never stays busy with a move (gs.rsp.c 209-239 and 649-664, fsgs.c
\* 149-176, 584-665 and 706-719).
StacksReclaimed == Reclaimed /\ FsGs!Reclaimed /\ FsGs!BusyEnds

\* Both libraries move, retire and unmap shadow stacks only as ShadowOwners allows, a
\* failing mremap included (gs.rsp.c 209-239, 361-388, 515-645, fsgs.c 136-176, 570-667).
OwnersImplemented == ImplementsOwners /\ FsGs!ImplementsOwners
=============================================================================
