------------------------------ MODULE ShadowLayout -----------------------------
(***************************************************************************)
(* The arithmetic of src/FlashStack/gs.rsp.c and src/FlashStack/spa.h that *)
(* places the shadow stack of one thread and finds its metadata.           *)
(*                                                                         *)
(*   base          base + Region        base + Region + MetaIn             *)
(*    |  shadow of the call  |  shadow of what is    | struct              *)
(*    |  stack below `start' |  above `start'        | gs_rsp_metadata     *)
(*    |<----- 8 MB --------->|<------------- 2 MB (Extra) -------->|        *)
(*                                                                         *)
(* `start' is rsp where do_init_shadow_stack reads it.  The word at rsp    *)
(* has its shadow at rsp + gs - SPA_USER_SPACE_SIZE (the instructions let  *)
(* the sum wrap in the 48-bit address space), and the metadata is found by *)
(* rounding that address down to 8 MB.  Addresses are numbers of units; the *)
(* constants keep the order of the code's sizes.  The system calls of a    *)
(* move do not fail here: GsRspRuntime has them fail.                      *)
(***************************************************************************)
EXTENDS Integers, FiniteSets

CONSTANTS
    Region,         \* DEF_BUDDY_CALL_STACK_SIZE: 8 MB
    Extra,           \* what REAL_SHADOW_STACK_SIZE adds to it: 2 MB
    MetaIn,         \* METADATA_OFFSET_ON_SHADOW_STACK less Region: 1.5 MB
    UserSpace,      \* SPA_USER_SPACE_SIZE
    MaxAddr,        \* SPA_MAX_SHADOW_STACK_ADDR
    MaxGs,          \* MAX_GS_BASE_ADDR
    MaxAttempts,    \* SPA_MAX_MMAP_ATTEMPTS
    Starts,         \* where a thread's stack may be
    Depth,          \* how far below `start' the thread's rsp goes
    Above,          \* and how far above: the frames that called the constructor
    Randoms         \* values of SPA_GEN_RANDOM_VAL

RealSize   == Region + Extra
NoBase == -1

ASSUME SizesAssumption ==
    /\ {Region, Extra, MetaIn, Depth, Above, MaxAttempts, UserSpace, MaxGs} \subseteq Nat
    /\ 0 < MetaIn /\ MetaIn < Extra /\ Extra <= Region
    /\ MaxAddr \in Nat \ {0} /\ Randoms \subseteq Nat
    /\ UserSpace - Region <= MaxGs

\* A call stack is no longer than a region, and 20 MB of addresses are below it.
ASSUME StacksAssumption ==
    /\ Depth < Region /\ Above < MetaIn
    /\ \A s \in Starts : s \in Nat /\ s - Depth > 2 * RealSize /\ s + Above < UserSpace

VARIABLES
    start,      \* rsp when the shadow stack was set up
    rsp,
    ss,         \* the shadow stack
    gs,         \* the register, and metadata->diff
    mapped,     \* bases of the mappings that the library has made for this thread
    tries,      \* i of get_memory_at_random
    fresh,      \* what it returns
    pc          \* "init" and "move" are in get_memory_at_random, "set" and "go" after it

vars == <<start, rsp, ss, gs, mapped, tries, fresh, pc>>

-----------------------------------------------------------------------------
(* get_memory_at_random.                                                   *)

RoundDown(x) == x - (x % Region)

Adjusted == rsp - 2 * RealSize

\* A random multiple of 8 MB below both limits.
Hint(r) == RoundDown((r % MaxAddr) % Adjusted)

Cells(b, n)  == b .. b + n - 1
CallStack    == start - Depth .. start + Above
InUse        == CallStack \cup UNION {Cells(b, RealSize) : b \in mapped}
Fits(b)      == b > 0 /\ b + RealSize <= UserSpace /\ Cells(b, RealSize) \cap InUse = {}

\* mmap() takes the hint when that range is free; else it takes a range of its own.
Results(x) == IF Fits(x) THEN {x} ELSE {b \in 0 .. UserSpace : Fits(b)}

AnyPlace(b) == b % Region = 0
\* Lines 275 to 281: 8 MB-aligned, and not above adjusted_rsp.
Accepted(b) == b % Region = 0 /\ b <= Adjusted

Forgotten(b) == mapped \cup {b}
\* munmap(addr, size)
Refused(b) == mapped

NoLimit == FALSE
\* Line 267: the attempt after the last one is not made.
OutOfAttempts == tries > MaxAttempts

Attempt(after) ==
    /\ ~OutOfAttempts
    /\ tries' = tries + 1
    /\ \/ UNCHANGED <<mapped, fresh, pc>>               \* MAP_FAILED
       \/ \E r \in Randoms : \E b \in Results(Hint(r)) :
             IF Accepted(b)
             THEN mapped' = mapped \cup {b} /\ fresh' = b /\ pc' = after
             ELSE mapped' = Refused(b) /\ UNCHANGED <<fresh, pc>>
    /\ UNCHANGED <<start, rsp, ss, gs>>

-----------------------------------------------------------------------------
(* do_init_shadow_stack.                                                   *)

InitAttempt == pc = "init" /\ Attempt("set")

\* while(shadow_stack == MAP_FAILED)
InitAgain ==
    /\ pc = "init" /\ OutOfAttempts
    /\ tries' = 0
    /\ UNCHANGED <<start, rsp, ss, gs, mapped, fresh, pc>>

AtRegionStart == 0
\* INIT_SHADOW_STACK_OFFSET
InitOffset == Region

InitSet ==
    /\ pc = "set"
    /\ ss' = fresh
    /\ gs' = fresh + InitOffset + UserSpace - rsp
    /\ fresh' = NoBase /\ tries' = 0 /\ pc' = "run"
    /\ UNCHANGED <<start, rsp, mapped>>

-----------------------------------------------------------------------------
(* The thread runs and its stack is moved.                                 *)

Shadow(p)  == p + gs - UserSpace
MetaOf(b)  == b + Region + MetaIn

\* get_gs_rsp_metadata_by_rsp
Found == MetaOf(RoundDown(Shadow(rsp)))

Call ==
    /\ pc = "run" /\ rsp > start - Depth
    /\ rsp' = rsp - 1
    /\ UNCHANGED <<start, ss, gs, mapped, tries, fresh, pc>>

Return ==
    /\ pc = "run" /\ rsp < start + Above
    /\ rsp' = rsp + 1
    /\ UNCHANGED <<start, ss, gs, mapped, tries, fresh, pc>>

\* A move needs the metadata: where it is not found, reading it is a fault.
MoveBegin ==
    /\ pc = "run" /\ Found = MetaOf(ss)
    /\ pc' = "move"
    /\ UNCHANGED <<start, rsp, ss, gs, mapped, tries, fresh>>

MoveAttempt == pc = "move" /\ Attempt("go")

TriesOnceMore == "move"
\* gsrsp_total_fail_rand_cnt; the stack stays where it is.
AfterGivingUp == "run"

MoveGivesUp ==
    /\ pc = "move" /\ OutOfAttempts
    /\ tries' = 0 /\ pc' = AfterGivingUp
    /\ UNCHANGED <<start, rsp, ss, gs, mapped, fresh>>

NotMoved == gs
\* diff of the new place
NewDiff == gs + (fresh - ss)

InRange(d) == d >= 0 /\ d <= MaxGs

\* The range check, mremap onto the new mapping, arch_prctl.
MoveFinish ==
    /\ pc = "go"
    /\ fresh' = NoBase /\ tries' = 0 /\ pc' = "run"
    /\ IF InRange(NewDiff)
       THEN ss' = fresh /\ gs' = NewDiff /\ mapped' = mapped \ {ss}
       ELSE mapped' = mapped \ {fresh} /\ UNCHANGED <<ss, gs>>
    /\ UNCHANGED <<start, rsp>>

-----------------------------------------------------------------------------
Init ==
    /\ start \in Starts /\ rsp = start
    /\ ss = NoBase /\ gs = 0 /\ mapped = {} /\ tries = 0 /\ fresh = NoBase
    /\ pc = "init"

Next ==
    \/ InitAttempt \/ InitAgain \/ InitSet
    \/ Call \/ Return
    \/ MoveBegin \/ MoveAttempt \/ MoveGivesUp \/ MoveFinish

\* A thread that is in a move goes on with it.
Fairness == WF_vars(MoveAttempt \/ MoveGivesUp \/ MoveFinish)

Spec == Init /\ [][Next]_vars /\ Fairness

-----------------------------------------------------------------------------
\* The variables have the types of the code's.
TypeOK ==
    /\ start \in Starts /\ rsp \in CallStack
    /\ {ss, fresh} \subseteq 0 .. UserSpace \cup {NoBase}
    /\ gs \in Nat
    /\ mapped \subseteq 0 .. UserSpace
    /\ tries \in 0 .. MaxAttempts + 1
    /\ pc \in {"init", "set", "run", "move", "go"}

Running == pc \notin {"init", "set"}

\* Below `start' the rounding of get_gs_rsp_metadata_by_rsp finds this thread's
\* metadata, wherever the stack was moved to.  At `start' and above it does not.
MetadataFound == Running => (Found = MetaOf(ss) <=> rsp < start)

\* The shadow of every word of the call stack, those above `start' as well, is in the
\* thread's own mapping and clear of the metadata.
ShadowIsOwn == Running => \A p \in CallStack : Shadow(p) \in ss .. MetaOf(ss) - 1

\* gs stays a legal value of the register.  do_init_shadow_stack does not test it and
\* relies on get_memory_at_random; the test that a move makes never fails for the
\* same reason.
GsInRange == (Running => InRange(gs)) /\ (pc = "go" => InRange(NewDiff))

\* Every mapping that was refused is unmapped: a thread that runs has its shadow stack
\* and nothing else, whatever its moves went through.
NothingLeaks == pc = "run" => mapped = {ss}

\* A move makes a bounded number of attempts and ends.
MoveEnds == (pc = "move") ~> (pc = "run")

\* What every state keeps beside that: a thread's shadow words, its gs and its mappings are
\* in order before, in and after a move that succeeds or fails (gs.rsp.c 253-345, 515-645).
ShadowSafe == TypeOK /\ ShadowIsOwn /\ GsInRange /\ NothingLeaks

=============================================================================
