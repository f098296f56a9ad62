---------------------------- MODULE MCLibraries ----------------------------
(* The preloaded libraries: the hooks of pthread_create in init.c and fork.c, *)
(* and the hooks of rt_lib.c in a build of gs.rsp and in one of the buddy run *)
(* time.  A run is about one of the two: part says which.                     *)
EXTENDS ThreadCreate, Integers, TLC

CONSTANTS Hookers, Main, Enabled, Period, MaxTime, MaxCalls, MaxDepth

VARIABLES
    part,
    build, now, resolved, inited, prepared, calls, is_randomizing, cpu_cycles, moved, failed,
    moves, count, crashed

\* A hook that sends and one that receives, of each build.
MCEnabled == [b \in {"gs.rsp", "buddy"} |->
    IF b = "gs.rsp" THEN {"write", "read"} ELSE {"send", "recv"}]

Hooked == INSTANCE RtHooks WITH Threads <- Hookers

ASSUME HooksConstants == Hooked!HooksAssumption

hookvars == <<build, now, resolved, inited, prepared, calls, is_randomizing, cpu_cycles, moved,
              failed, moves, count, crashed>>
allvars == <<part, vars, hookvars>>

InitAll ==
    /\ part \in {"create", "hooks"}
    /\ Init /\ (part # "create" => library = "fork.c" /\ size = [a \in Attrs |-> BUDDY_STACK_SIZE])
    /\ Hooked!Init /\ (part # "hooks" => build = "gs.rsp")

Creating == part = "create" /\ Next /\ UNCHANGED <<part, hookvars>>
Hooking == part = "hooks" /\ Hooked!Next /\ UNCHANGED <<part, vars>>

SpecAll == InitAll /\ [][Creating \/ Hooking]_allvars

\* Creators and new threads are alike, and so are routines and objects.
Alike == Permutations(Creators) \cup Permutations(NewThreads) \cup Permutations(Cells)

-----------------------------------------------------------------------------
\* The hooks of both builds (rt_lib.c 258-746).
HooksInOrder == Hooked!HooksInOrder
=============================================================================
