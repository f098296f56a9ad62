----------------------------- MODULE BuddyStack -----------------------------
(* The run-time library of the buddy builds: buddy_tls.c, init.c and          *)
(* simd_rand.c.  A thread's stack of 4 * S bytes holds, from the top, the     *)
(* call stack, the shadow stack S below it and two pages of metadata, buddies *)
(* of each other, one for each value that rounding rsp down to S may give.    *)
(* A protected function stores its return address plus the number of the      *)
(* metadata; au_edu_unsw_randomize changes the number in both pages and adds  *)
(* the difference to the slots.  A handler may run between any two steps of   *)
(* it, and call it.                                                           *)
EXTENDS Integers, Sequences

CONSTANTS
    S,              \* BUDDY_CALL_STACK_SIZE, in words
    Page,           \* PAGE_SIZE, in words
    Vector,         \* words that avx2_64_x_4_add adds to at once
    Highs,          \* where a stack may end
    Offsets,        \* what random() returns
    FrameSizes,     \* words from one return address to the next
    SignalPlaces,   \* steps of au_edu_unsw_randomize in front of which handlers run
    MaxDepth,       \* bound on functions and calls of the library
    MaxRands        \* bound on randomizations

\* A power of two would follow from the mask; rounding needs S to be a multiple of the
\* page only.  set_stk_size_global_var (init.c 143-160) checks neither.
ASSUME BuddyAssumption ==
    /\ {S, Page, Vector} \subseteq Nat \ {0} /\ S % Page = 0 /\ Page % Vector = 0
    /\ \A h \in Highs : h \in Nat /\ h >= 4 * S /\ h % Page = 0
    /\ FrameSizes \subseteq Nat \ {0} /\ Offsets \subseteq Int
    /\ MaxDepth \in Nat /\ MaxRands \in Nat

VARIABLES
    high,       \* stack_top
    slot,       \* address in the shadow stack -> what is stored there
    info,       \* 2, 3 -> struct Buddy_TLS_Info at ptr2 and ptr3
    ro,         \* first words of the pages that are read-only
    stk,        \* what runs on the stack: functions and calls of the library
    rands,      \* randomizations so far
    fault       \* "none", "write" to a read-only page, "return" to a wrong place
vars == <<high, slot, info, ro, stk, rands, fault>>

-----------------------------------------------------------------------------
(* Layout.                                                                   *)

AlignedUp(x) == x - (x % S) + S
\* BUDDY_ALIGN_CALL_STACK_POINTER
Align(x) == x - (x % S)

\* buddy_init_tls_metadata
Ptr2(h) == Align(h) - 2 * S
Ptr3(h) == Align(h) - 3 * S
Address(h, k) == IF k = 2 THEN Ptr2(h) ELSE Ptr3(h)

\* buddy_get_tls_info and lines 27-39 of the prologue: the metadata for rsp.
TlsAddress(rsp) == Align(rsp) - 2 * S
Copy(rsp) == IF TlsAddress(rsp) = Ptr2(high) THEN 2 ELSE 3

ShadowStack(h) == h - 2 * S .. h - S - 1
GuardPage(h) == h - S
\* Return addresses can be anywhere above the guard page.
Usable(h) == h - S + Page .. h - 1
Slot(rsp) == rsp - S
PageOf(a) == a - (a % Page)
Writable(a) == PageOf(a) \notin ro

-----------------------------------------------------------------------------
(* The stack.                                                                *)

Func(rsp, ret) == [kind |-> "func", rsp |-> rsp, ret |-> ret, pc |-> "", k |-> 0, off |-> 0]
Rand(rsp, k) == [kind |-> "rand", rsp |-> rsp, ret |-> 0, pc |-> "check", k |-> k, off |-> 0]
Top == stk[Len(stk)]
Below == SubSeq(stk, 1, Len(stk) - 1)
Running(kind) == fault = "none" /\ stk # <<>> /\ Top.kind = kind
Rsp == IF stk = <<>> THEN high ELSE Top.rsp
Other(k) == 5 - k

\* A protected function is called: its prologue.
Enter ==
    /\ Len(stk) < MaxDepth
    /\ \E n \in FrameSizes :
          LET rsp == Rsp - n
              ret == Len(stk) + 1
          IN  /\ rsp \in Usable(high)
              /\ IF Writable(Slot(rsp))
                 THEN /\ stk' = Append(stk, Func(rsp, ret))
                      /\ slot' = [slot EXCEPT ![Slot(rsp)] = ret + info[Copy(rsp)].random]
                      /\ UNCHANGED fault
                 ELSE fault' = "write" /\ UNCHANGED <<stk, slot>>
    /\ UNCHANGED <<high, info, ro, rands>>

Call == fault = "none" /\ (stk # <<>> => Top.kind = "func") /\ Enter
Signal == Running("rand") /\ Top.pc \in SignalPlaces /\ Enter

\* The epilogue jumps to what it finds.
Return ==
    /\ Running("func")
    /\ fault' = IF slot[Slot(Top.rsp)] - info[Copy(Top.rsp)].random = Top.ret
                THEN "none" ELSE "return"
    /\ stk' = Below
    /\ UNCHANGED <<high, slot, info, ro, rands>>

-----------------------------------------------------------------------------
(* au_edu_unsw_randomize.                                                    *)

\* A hooked function finds the metadata by its own rsp (rt_lib.c 107-117).
Hooked ==
    /\ Running("func") /\ Len(stk) < MaxDepth /\ rands < MaxRands
    /\ \E n \in FrameSizes :
          /\ Rsp - n \in Usable(high)
          /\ stk' = Append(stk, Rand(Rsp - n, Copy(Rsp - n)))
    /\ rands' = rands + 1
    /\ UNCHANGED <<high, slot, info, ro, fault>>

At(pc) == Running("rand") /\ Top.pc = pc
Goto(pc) == stk' = Append(Below, [Top EXCEPT !.pc = pc])

BusyForgotten(i) == i
RefusedOnOwn(k) == ~info[k].inited \/ info[k].busy
\* Line 80: the buddy is looked at as well.
Refused(k) == ~info[k].inited \/ info[k].busy \/ info[Other(k)].busy

Check ==
    /\ At("check")
    /\ IF Refused(Top.k) THEN stk' = Below
       ELSE \E x \in Offsets : stk' = Append(Below, [Top EXCEPT !.pc = "open", !.off = x])
    /\ UNCHANGED <<high, slot, info, ro, rands, fault>>

\* Line 93.
Open ==
    /\ At("open")
    /\ ro' = ro \ {Address(high, Top.k)}
    /\ Goto("own")
    /\ UNCHANGED <<high, slot, info, rands, fault>>

Changed(i, x, busy) == [i EXCEPT !.random = @ + x, !.busy = busy]

\* Lines 94-96.
Own ==
    /\ At("own")
    /\ IF Writable(Address(high, Top.k))
       THEN info' = [info EXCEPT ![Top.k] = Changed(@, Top.off, TRUE)] /\ UNCHANGED fault
       ELSE fault' = "write" /\ UNCHANGED info
    /\ Goto("buddy")
    /\ UNCHANGED <<high, slot, ro, rands>>

BuddyForgotten(i, x) == i
\* Lines 100-103.
BuddyChanged(i, x) == Changed(i, x, FALSE)

Buddy ==
    /\ At("buddy")
    /\ info' = [info EXCEPT ![Other(Top.k)] = BuddyChanged(@, Top.off)]
    /\ ro' = ro \cup {Address(high, Other(Top.k))}
    /\ Goto("add")
    /\ UNCHANGED <<high, slot, rands, fault>>

RoundedUp(a) == a - (a % Vector) + Vector
\* avx2_64_x_4_add begins at a multiple of its vectors.
Rounded(a) == a - (a % Vector)

\* Lines 108-115.
Add ==
    /\ At("add")
    /\ slot' = [a \in DOMAIN slot |->
                  IF a \in Rounded(Top.rsp - S) .. high - S - 1 THEN slot[a] + Top.off
                  ELSE slot[a]]
    /\ Goto("clear")
    /\ UNCHANGED <<high, info, ro, rands, fault>>

\* Line 118.
Cleared(i) == [i EXCEPT !.busy = FALSE]

Clear ==
    /\ At("clear")
    /\ IF Writable(Address(high, Top.k))
       THEN info' = [info EXCEPT ![Top.k] = Cleared(@)] /\ UNCHANGED fault
       ELSE fault' = "write" /\ UNCHANGED info
    /\ Goto("close")
    /\ UNCHANGED <<high, slot, ro, rands>>

CloseShadow(k) == {Slot(GuardPage(high)) + Page}
\* Line 119.
Closed(k) == {Address(high, k)}

Close ==
    /\ At("close")
    /\ ro' = ro \cup Closed(Top.k)
    /\ stk' = Below
    /\ UNCHANGED <<high, slot, info, rands, fault>>

-----------------------------------------------------------------------------
\* The constructor: buddy_init_main_thread_tls makes the guard page read-only and
\* fills in both pages of metadata, which stay writable until the first move.
Init ==
    /\ high \in Highs
    /\ slot = [a \in ShadowStack(high) |-> 0]
    /\ \E x \in Offsets : info = [k \in {2, 3} |-> [random |-> x, busy |-> FALSE,
                                                   inited |-> TRUE]]
    /\ ro = {GuardPage(high)}
    /\ stk = <<>> /\ rands = 0 /\ fault = "none"

Next ==
    \/ Call \/ Return \/ Signal \/ Hooked
    \/ Check \/ Open \/ Own \/ Buddy \/ Add \/ Clear \/ Close

Spec == Init /\ [][Next]_vars

-----------------------------------------------------------------------------
(* Correctness.                                                              *)

\* Every variable has the type the code gives it.
TypeOK ==
    /\ high \in Highs
    /\ DOMAIN slot = ShadowStack(high) /\ \A a \in DOMAIN slot : slot[a] \in Int
    /\ info \in [{2, 3} -> [random : Int, busy : BOOLEAN, inited : BOOLEAN]]
    /\ \A i \in DOMAIN stk : stk[i].rsp \in Usable(high)
    /\ ro \subseteq {GuardPage(high), Ptr2(high), Ptr3(high)}
    /\ rands \in 0 .. MaxRands /\ fault \in {"none", "write", "return"}

\* Every function returns to its caller: also one that began before a change of the
\* number and ends after it, one whose frame is on the other side of a boundary, and a
\* handler in the middle of a change (simd_rand.c 65-119, afl-as.c 7027-7039, 7501-7516).
ReturnsHome == fault # "return"

\* Nothing is written into a page that mprotect has closed: not the slot of a function
\* deep in the stack, and not metadata that a handler has closed meanwhile.
NoWriteFault == fault # "write"

\* The number is the same in both pages whenever no call of the library is under way,
\* and none of the two is left busy: every path resets is_randomizing.
BuddiesAgree ==
    (\A i \in DOMAIN stk : stk[i].kind = "func") =>
        info[2].random = info[3].random /\ ~info[2].busy /\ ~info[3].busy

\* A call in a handler gives up when the call it has interrupted is past line 94, on
\* whichever page that one works.
OneAtATime ==
    \A i, j \in DOMAIN stk :
        i # j /\ {stk[i].kind, stk[j].kind} = {"rand"}
            => {stk[i].pc, stk[j].pc} \cap {"check", "open", "own", "close"} # {}

\* Every number that a live function will subtract is in its slot once the slots have
\* been changed (lines 108-115 reach all of them).
SlotsMatch ==
    (\A i \in DOMAIN stk : stk[i].kind = "func") =>
        \A i \in DOMAIN stk :
            slot[Slot(stk[i].rsp)] = stk[i].ret + info[Copy(stk[i].rsp)].random

\* The metadata that a function or the library finds by rounding rsp is one of the two
\* pages the constructor filled in, inside the stack, and no slot lies in either
\* (buddy_tls.c 123-126, 261: nothing checks that they fit).
FindsMetadata ==
    /\ \A k \in {2, 3} : Address(high, k) \in high - 4 * S .. high - 2 * S
    /\ \A i \in DOMAIN stk :
          /\ TlsAddress(stk[i].rsp) = Address(high, Copy(stk[i].rsp))
          /\ \A k \in {2, 3} :
                Slot(stk[i].rsp) \notin Address(high, k) .. Address(high, k) + Page - 1

\* A change of the number is whole: no call nests in another, none leaves the two pages
\* different or busy, and none misses the slot of a live function or writes to a closed
\* page, whatever handlers interrupt, but for one that changes the number itself between
\* the mprotect of line 93 and the flag of line 94: SignalPlaces leaves that place out
\* (simd_rand.c 65-119, buddy_tls.c 82-126).
ChangesAreWhole ==
    TypeOK /\ NoWriteFault /\ BuddiesAgree /\ OneAtATime /\ SlotsMatch
=============================================================================
