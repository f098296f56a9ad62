----------------------------- MODULE GsRspOwners -----------------------------
(* The run time of the default build keeps the promise that it shares with    *)
(* that of the FS/GS build.                                                   *)
EXTENDS GsRspRuntime

\* Between mremap and ARCH_SET_GS the stack is where gs is about to lead.
StackOf(t) ==
    IF pc[t] = "setgs" THEN Cells(loc[t].new)
    ELSE IF pc[t] \in Standing THEN Cells(gs[t]) ELSE {}

RetiredPages ==
    (UNION {Cells(info[i].ss) : i \in {j \in Slots : info[j].valid /\ pc[info[j].tid] = "gone"}})
    \cup {g \in Granules : mem[g] \in lost /\ pc[mem[g]] = "gone"}

Owners == INSTANCE ShadowOwners
    WITH Pages <- Granules, stack <- [t \in Threads |-> StackOf(t)], retired <- RetiredPages

\* The library moves, retires and unmaps shadow stacks only as ShadowOwners allows, a
\* failing mremap included (gs.rsp.c 209-239, 361-388, 515-645).
ImplementsOwners == Owners!Spec
=============================================================================
