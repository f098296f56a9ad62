---------------------------- MODULE ShadowOwners ----------------------------
(* What both run-time libraries that use gs promise (gs.rsp.c, fsgs.c): at    *)
(* every moment a thread has at most one shadow stack, its pages are its own, *)
(* a stack is replaced at once by a fresh one, and the pages of an exited     *)
(* thread are kept from everybody until they are given back.                  *)
EXTENDS FiniteSets

CONSTANTS Threads, Pages

VARIABLES stack,    \* thread -> the pages its gs leads to
          retired   \* pages that wait to be unmapped
vars == <<stack, retired>>

Used == retired \cup UNION {stack[t] : t \in Threads}
Fresh == (SUBSET (Pages \ Used)) \ {{}}

Init == stack = [t \in Threads |-> {}] /\ retired = {}

Give(t) ==
    /\ stack[t] = {}
    /\ \E S \in Fresh : stack' = [stack EXCEPT ![t] = S]
    /\ UNCHANGED retired

Move(t) ==
    /\ stack[t] # {}
    /\ \E S \in Fresh : stack' = [stack EXCEPT ![t] = S]
    /\ UNCHANGED retired

Retire(t) ==
    /\ stack[t] # {}
    /\ stack' = [stack EXCEPT ![t] = {}]
    /\ retired' = retired \cup stack[t]

Reclaim ==
    /\ \E S \in SUBSET retired : S # {} /\ retired' = retired \ S
    /\ UNCHANGED stack

Next == (\E t \in Threads : Give(t) \/ Move(t) \/ Retire(t)) \/ Reclaim
Spec == Init /\ [][Next]_vars

\* No page serves two threads, and none is unmapped while a thread returns through it
\* (fsgs.c 149-176 and 638-654, gs.rsp.c 209-239 and 581-597).
Disjoint ==
    /\ \A t, u \in Threads : t # u => stack[t] \cap stack[u] = {}
    /\ \A t \in Threads : stack[t] \cap retired = {}

\* The pages are pages.
TypeOK == stack \in [Threads -> SUBSET Pages] /\ retired \subseteq Pages
=============================================================================
