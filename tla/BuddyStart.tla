------------------------------- MODULE BuddyStart ------------------------------
(***************************************************************************)
(* How a buddy build gets the layout that module BuddyStack starts from:   *)
(* the constructor of init.c, the set-up of a stack in buddy_tls.c, and    *)
(* the page of weak_stack_size.s with the mask that spa.h's macros read.   *)
(*                                                                         *)
(* The size S of a call stack is decided at start-up: 8 MB, or what the    *)
(* environment asks for.  The protected code knows it in one of two ways:  *)
(* it reads the mask, or it has it as a constant that code_rewriter.py or  *)
(* data_rewriter.py has changed in the binary.  The run time finds the     *)
(* bounds of a stack by asking the thread library.  Addresses are numbers  *)
(* of pages; size(mask) is the size that belongs to a mask, -mask.         *)
(***************************************************************************)
EXTENDS Integers, FiniteSets

CONSTANTS
    Main,           \* the main thread
    Others,         \* threads that pthread_create makes
    Default,        \* DEF_BUDDY_CALL_STACK_SIZE
    EnvSizes,       \* __SPA_CALL_STACK_SIZE, where it is set
    Limits,         \* `ulimit -s'
    Tops            \* where a stack may end

Threads == Others \cup {Main}
Unset   == -1
Nowhere == -1

\* code_rewriter.py lines 211 to 215 ask for a limit of four times the size.
StartAssumption ==
    /\ Main \notin Others /\ Default \in Nat \ {0, 1} /\ EnvSizes \subseteq Nat \ {0}
    /\ Limits \subseteq Nat /\ Tops \subseteq Nat
    /\ \A l \in Limits, s \in EnvSizes \cup {Default} : l >= 4 * s
    /\ \A x \in Tops, l \in Limits : x >= l

VARIABLES
    env,        \* the environment variable, or Unset
    code,       \* size that is a constant of the code, or Unset: it reads the mask
    limit,      \* `ulimit -s' of the process
    mask,       \* the first word of .BUDDY.CALL_STACK_SIZE_MASK, as a size
    maskPage,   \* protection of that page
    step,       \* step of au_edu_unsw_SPA_init
    top,        \* thread -> the end of its stack, or Nowhere
    low,        \* thread -> the first page of its stack
    high,       \* thread -> stack_high, where its metadata was made for
    guard       \* thread -> the page that was made read-only

vars == <<env, code, limit, mask, maskPage, step, top, low, high, guard>>
world == <<env, code, limit>>
stacks == <<top, low, high, guard>>

-----------------------------------------------------------------------------
(* spa.h: what follows from the mask.                                      *)

\* BUDDY_CALL_STACK_SIZE, through GET_BUDDY_CALL_STACK_SIZE_MASK.
CallStackSize == mask

\* SET_BUDDY_CALL_STACK_SIZE_MASK
SetCallStackSize(s) == mask' = s

\* BUDDY_STACK_SIZE
StackSize(s) == 4 * s

\* BUDDY_ALIGN_CALL_STACK_POINTER
Align(x, s) == x - (x % s)

\* buddy_init_tls_metadata
Ptrs(t) ==
    {Align(high[t], CallStackSize) - n * CallStackSize : n \in {2, 3}}

\* The size that the prologues and epilogues of the program use.
SizeInCode == IF code = Unset THEN mask ELSE code

\* Where they look for the random value of a frame whose return address is at rsp.
LooksAt(rsp) == Align(rsp, SizeInCode) - 2 * SizeInCode

-----------------------------------------------------------------------------
(* au_edu_unsw_SPA_init.                                                   *)

At(s) == step = s

SizeForgotten == "main"
\* buddy_init_rt_lib_hooker, then set_stk_size_global_var, then the main thread.
AfterHooker == "size"

Hooker ==
    /\ At("hooker")
    /\ step' = AfterHooker
    /\ UNCHANGED <<world, stacks, mask, maskPage>>

Executable == "rwx"
\* The mprotect in front of the write.
Opened == "rw"

OpenMask ==
    /\ At("size")
    /\ IF env = Unset
       THEN step' = "main" /\ UNCHANGED maskPage
       ELSE step' = "write" /\ maskPage' = Opened
    /\ UNCHANGED <<world, stacks, mask>>

\* A write to a page that is read-only kills the process.
WriteMask ==
    /\ At("write")
    /\ IF maskPage = "rw" THEN SetCallStackSize(env) /\ step' = "close" ELSE step' = "fault" /\ UNCHANGED mask
    /\ UNCHANGED <<world, stacks, maskPage>>

LeftOpen == "rw"
\* The mprotect after it.
Closed == "r"

CloseMask ==
    /\ At("close")
    /\ maskPage' = Closed
    /\ step' = "main"
    /\ UNCHANGED <<world, stacks, mask>>

-----------------------------------------------------------------------------
(* buddy_init_main_thread_tls: the set-up of any thread's stack.           *)

\* Lines 223 to 239: the top may be above what is reported, not below.
StackHigh(l, size) ==
    IF l + size < l + StackSize(CallStackSize) THEN l + StackSize(CallStackSize) ELSE l + size

GuardBelowShadow(h) == h - 2 * mask
\* The page between the call stack and the shadow stack.
GuardPage(h) == h - CallStackSize

\* The stack ends at x and starts at l; pthread_getattr_np reports l and size.
InitTls(t, x, l, size) ==
    /\ top'   = [top EXCEPT ![t] = x]
    /\ low'   = [low EXCEPT ![t] = l]
    /\ high'  = [high EXCEPT ![t] = StackHigh(l, size)]
    /\ guard' = [guard EXCEPT ![t] = GuardPage(StackHigh(l, size))]

\* The main thread's stack grows down to the limit.
InitMain ==
    /\ At("main")
    /\ \E x \in Tops : InitTls(Main, x, x - limit, limit)
    /\ step' = "done"
    /\ UNCHANGED <<world, mask, maskPage>>

DefaultSize == StackSize(Default)
\* Line 109 of init.c: the size is that of the mask when the thread is made.
ThreadStackSize == StackSize(CallStackSize)

\* A thread that pthread_create makes: its stack has the size that was asked for.  The
\* thread library may put the guard page of its own inside it, and reports the rest.
InitOther(t) ==
    /\ At("done") /\ high[t] = Nowhere
    /\ \E x \in Tops, own \in {0, 1} :
          InitTls(t, x, x - ThreadStackSize + own, ThreadStackSize - own)
    /\ UNCHANGED <<world, mask, maskPage, step>>

-----------------------------------------------------------------------------
\* A program whose code has the size as a constant is run with the environment
\* variable of that size, or with none when the binary was not rewritten.
Init ==
    /\ env \in EnvSizes \cup {Unset}
    /\ code \in {Unset, IF env = Unset THEN Default ELSE env}
    /\ limit \in Limits
    /\ mask = Default /\ maskPage = "rw"
    /\ step = "hooker"
    /\ top = [t \in Threads |-> Nowhere] /\ low = top /\ high = top /\ guard = top

Next ==
    \/ Hooker \/ OpenMask \/ WriteMask \/ CloseMask \/ InitMain
    \/ \E t \in Others : InitOther(t)

Spec == Init /\ [][Next]_vars

-----------------------------------------------------------------------------
\* The variables have the types of the code's.
TypeOK ==
    /\ env \in EnvSizes \cup {Unset} /\ code \in EnvSizes \cup {Unset, Default}
    /\ limit \in Limits /\ mask \in Nat \ {0}
    /\ maskPage \in {"r", "rw"}
    /\ step \in {"hooker", "size", "write", "close", "main", "done", "fault"}
    /\ {top, low, high, guard} \subseteq [Threads -> Int]

Started == {t \in Threads : high[t] # Nowhere}

\* Where return addresses of t can be: above the guard page, below the end.
Frames(t) == guard[t] + 1 .. top[t] - 1

\* The code that runs on a stack looks for the random value on one of the two pages
\* that the run time made for that stack, wherever rsp is.  The code's size, the mask,
\* the size asked of the thread library and the bounds it reports all come together
\* here.
CodeFindsMetadata ==
    \A t \in Started : \A rsp \in Frames(t) : LooksAt(rsp) \in Ptrs(t)

\* A thread has (nearly) the whole size for its frames: at most the page that the
\* thread library took is missing.
WholeSizeUsable ==
    \A t \in Started : Cardinality(Frames(t)) \in {SizeInCode - 1, SizeInCode - 2}

\* The guard page, the metadata pages and the shadow of every frame are different pages
\* of the thread's own stack.
PagesApart ==
    \A t \in Started :
        LET pages   == Ptrs(t) \cup {guard[t]}
            shadows == {r - SizeInCode : r \in Frames(t)}
        IN  /\ Cardinality(pages) = 3
            /\ pages \cap (shadows \cup Frames(t)) = {}
            /\ pages \cup shadows \subseteq low[t] .. top[t] - 1

\* The constructor does not end with the mask in reach of the program's writes.
MaskIsClosed == step = "done" /\ env # Unset => maskPage = "r"

\* A stack starts in the layout that BuddyStack begins with (init.c 40-118, buddy_tls.c
\* 128-261, spa.h 94-140).
StartsInOrder ==
    TypeOK /\ CodeFindsMetadata /\ WholeSizeUsable /\ PagesApart /\ MaskIsClosed
================================================================================
