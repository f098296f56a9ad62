------------------------------- MODULE MCBuddy -------------------------------
(* The buddy builds: a stack that functions, handlers and changes of the      *)
(* random number work on, and the start of a program, which lays it out.  A   *)
(* run is about one of the two; the variables of the other stay as they are.  *)
EXTENDS BuddyStack

CONSTANTS Main, Others, Default, EnvSizes, Limits, Tops

VARIABLES part, env, code, limit, mask, maskPage, step, top, low, last, guard

Start == INSTANCE BuddyStart WITH high <- last

ASSUME StartConstants == Start!StartAssumption

startvars == <<env, code, limit, mask, maskPage, step, top, low, last, guard>>
allvars == <<part, vars, startvars>>

InitBoth ==
    /\ part \in {"stack", "start"}
    /\ Init /\ (part = "stack" \/ high = CHOOSE h \in Highs : TRUE)
    /\ Start!Init
    /\ part = "start" \/ (env = Start!Unset /\ code = Start!Unset
                          /\ limit = CHOOSE l \in Limits : TRUE)

OnStack == part = "stack" /\ Next /\ UNCHANGED <<part, startvars>>
Starting == part = "start" /\ Start!Next /\ UNCHANGED <<part, vars>>

SpecBoth == InitBoth /\ [][OnStack \/ Starting]_allvars

-----------------------------------------------------------------------------
\* The mask, the size in the code, the size asked for and the bounds that the thread library
\* reports fit together on every stack (init.c 40-118, buddy_tls.c 128-261).
StartsInOrder == Start!StartsInOrder
=============================================================================
