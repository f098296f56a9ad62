------------------------------ MODULE AllocInl ------------------------------
(* The allocator of the wrappers, alloc-inl.h: blocks with a size and a      *)
(* canary on either side, and, with DEBUG_BUILD, tables of what has been     *)
(* allocated.  A client allocates, fills, grows, copies and frees blocks; it *)
(* may also write one byte too far and use what it has freed.                *)
EXTENDS Integers, Sequences, FiniteSets

CONSTANTS
    Ptrs, Null,     \* what malloc returns
    Hash,           \* TRKH: the bucket of a pointer
    Wrap,           \* number of values of u32
    MaxAlloc,       \* MAX_ALLOC
    BlockInc,       \* ALLOC_BLK_INC
    Sizes,          \* sizes the client asks for
    Operations      \* debug -> functions the client calls and what else it does

AllocAssumption ==
    /\ Null \notin Ptrs /\ DOMAIN Hash = Ptrs /\ DOMAIN Operations = BOOLEAN
    /\ {Wrap, MaxAlloc, BlockInc} \subseteq Nat \ {0} /\ MaxAlloc < Wrap
    /\ Sizes \subseteq 0 .. Wrap - 1

VARIABLES
    debug,      \* DEBUG_BUILD
    heap,       \* pointer -> its block
    wants,      \* pointer -> the bytes its client has a right to
    TRK,        \* bucket -> the table of the pointers in it
    end,        \* why the program has aborted
    bad,        \* a canary was overwritten, by the client or by ck_memdup_str
    slipped     \* whether the library has taken a block it should have refused
vars == <<debug, heap, wants, TRK, end, bad, slipped>>

-----------------------------------------------------------------------------
(* Blocks: size bytes and, behind them, the canary of the tail.              *)

Bytes == {"0", "data", "canary", "junk"}
Fill(n, byte) == [i \in 1 .. n |-> byte]
Tail1 == <<"canary">>
Block(mem) == [live |-> TRUE, c1 |-> "used", size |-> Len(mem) - 1, mem |-> mem]
\* The head of a freed block is what ck_free leaves there or what free puts in its place.
Freed == {[live |-> FALSE, c1 |-> c, size |-> 0, mem |-> <<>>] : c \in {"freed", "junk"}}

Live == {p \in Ptrs : heap[p].live}
TailOK(p) == heap[p].mem[heap[p].size + 1] = "canary"
Sound(p) == p \in Live /\ TailOK(p)

HeadOnly(p) == heap[p].c1 = "used"
\* CHECK_PTR
Checks(p) == heap[p].c1 = "used" /\ TailOK(p)

AnySize(size) == FALSE
\* ALLOC_CHECK_SIZE
TooBig(size) == size > MaxAlloc

Abort(why) == end' = why /\ UNCHANGED <<debug, heap, wants, TRK, bad, slipped>>

-----------------------------------------------------------------------------
(* The tables of DEBUG_BUILD.                                                *)

SlotsOf(t, p) == {i \in DOMAIN t[Hash[p]] : t[Hash[p]][i] = p}
FirstSlot(t, p, x) == CHOOSE i \in DOMAIN t[Hash[p]] :
    t[Hash[p]][i] = x /\ \A j \in 1 .. i - 1 : t[Hash[p]][j] # x

TrackFirst(p, t) == [t EXCEPT ![Hash[p]] = IF @ = <<>> THEN <<p>> ELSE [@ EXCEPT ![1] = p]]
\* TRK_alloc_buf
Track(p, t) ==
    IF \E i \in DOMAIN t[Hash[p]] : t[Hash[p]][i] = Null
    THEN [t EXCEPT ![Hash[p]][FirstSlot(t, p, Null)] = p]
    ELSE [t EXCEPT ![Hash[p]] = Append(@, p)]

\* TRK_free_buf
Untrack(p, t) ==
    IF SlotsOf(t, p) = {} THEN t ELSE [t EXCEPT ![Hash[p]][FirstSlot(t, p, p)] = Null]

TrackIf(p, t) == IF debug THEN Track(p, t) ELSE t
UntrackIf(p, t) == IF debug THEN Untrack(p, t) ELSE t

-----------------------------------------------------------------------------
(* New blocks.                                                               *)

\* malloc returns null or anything that is not in use, also a block that was freed.
NewBlock(size, promised, mem) ==
    IF TooBig(size) THEN Abort("bad request")
    ELSE \/ Abort("out of memory")
         \/ \E p \in Ptrs \ Live :
               /\ heap' = [heap EXCEPT ![p] = Block(mem)]
               /\ wants' = [wants EXCEPT ![p] = promised]
               /\ TRK' = TrackIf(p, TRK)
               /\ bad' = (bad \/ mem[Len(mem)] # "canary")
               /\ UNCHANGED <<debug, end, slipped>>

Calls(f) == end = "" /\ f \in Operations[debug]

\* DFL_ck_alloc over DFL_ck_alloc_nozero; for size 0 nothing changes.  A ck_realloc or
\* ck_realloc_block of a null pointer does the same.
ck_alloc ==
    /\ Calls("alloc")
    /\ \E n \in Sizes \ {0} : NewBlock(n, Fill(n, "0"), Fill(n, "0") \o Tail1)

\* DFL_ck_strdup (alloc_printf does the same) and DFL_ck_memdup.
ck_memdup ==
    /\ Calls("memdup")
    /\ \E n \in Sizes \ {0} : NewBlock(n, Fill(n, "data"), Fill(n, "data") \o Tail1)

\* DFL_ck_memdup_str: its terminator is written to ret[size], where ALLOC_C2 is.
ck_memdup_str ==
    /\ Calls("memdup_str")
    /\ \E n \in Sizes \ {0} : NewBlock(n, Fill(n, "data"), Fill(n, "data") \o <<"0">>)

-----------------------------------------------------------------------------
(* Old blocks.                                                               *)

\* DFL_ck_free on a pointer that is not null, in its tracking wrapper.
Release(p) ==
    IF ~Checks(p) THEN Abort("canary")
    ELSE /\ \E b \in Freed : heap' = [heap EXCEPT ![p] = b]
         /\ wants' = [wants EXCEPT ![p] = <<>>]
         /\ TRK' = UntrackIf(p, TRK)
         /\ slipped' = (slipped \/ ~Sound(p))
         /\ UNCHANGED <<debug, end, bad>>

\* The client frees what it has, or, wrongly, what it no longer has.
ck_free == Calls("free") /\ \E p \in Live : Release(p)
FreeAgain ==
    /\ Calls("free again")
    /\ \E p \in Ptrs \ Live : IF Checks(p) THEN Release(p) ELSE Abort("refused")

NotZeroed(mem, old, n) == [i \in 1 .. n + 1 |-> IF i = n + 1 THEN "canary"
                             ELSE IF i <= old + 1 THEN mem[i] ELSE "junk"]
NoCanary(mem, old, n) == [i \in 1 .. n + 1 |-> IF i <= old THEN mem[i] ELSE "0"]
\* Lines 194-225: the bytes kept, zeros for the new ones (the old canary is among them) and
\* the canary at its new place.
Resized(mem, old, n) ==
    [i \in 1 .. n + 1 |-> IF i = n + 1 THEN "canary" ELSE IF i <= old THEN mem[i] ELSE "0"]

\* DFL_ck_realloc of p to n bytes, for a client that asked for asked of them.  The block may
\* move, and with DEBUG_BUILD it does.
Realloc(p, n, asked) ==
    IF ~Checks(p) THEN Abort("canary")
    ELSE IF TooBig(n) THEN Abort("bad request")
    ELSE \/ Abort("out of memory")
         \/ \E q \in (Ptrs \ Live) \cup (IF debug THEN {} ELSE {p}), b \in Freed :
               /\ heap' = [[heap EXCEPT ![p] = b]
                             EXCEPT ![q] = Block(Resized(heap[p].mem, heap[p].size, n))]
               /\ wants' = [[wants EXCEPT ![p] = <<>>]
                              EXCEPT ![q] = [i \in 1 .. asked |->
                                 IF i <= Len(wants[p]) THEN wants[p][i]
                                 ELSE IF i > heap[p].size THEN "0" ELSE "any"]]
               /\ TRK' = TrackIf(q, UntrackIf(p, TRK))
               /\ slipped' = (slipped \/ ~Sound(p))
               /\ UNCHANGED <<debug, end, bad>>

ck_realloc ==
    /\ Calls("realloc")
    /\ \E p \in Live, n \in Sizes : IF n = 0 THEN Release(p) ELSE Realloc(p, n, n)
ReallocAgain ==
    /\ Calls("realloc again")
    /\ \E p \in Ptrs \ Live, n \in Sizes \ {0} :
          IF Checks(p) THEN Realloc(p, n, n) ELSE Abort("refused")

FitsAlmost(p, n) == heap[p].size + 1 >= n
\* Line 243.
Fits(p, n) == heap[p].size >= n

\* DFL_ck_realloc_block: without DEBUG_BUILD it keeps a block that is large enough, and
\* asks for more than it needs of one that is not.  The sum is a u32.
ck_realloc_block ==
    /\ Calls("realloc_block")
    /\ \E p \in Live, n \in Sizes :
          IF debug THEN IF n = 0 THEN Release(p) ELSE Realloc(p, n, n)
          ELSE IF ~Checks(p) THEN Abort("canary")
          ELSE IF Fits(p, n)
               THEN /\ wants' = [wants EXCEPT ![p] = [i \in 1 .. n |->
                                   IF i <= Len(wants[p]) THEN wants[p][i] ELSE "any"]]
                    /\ slipped' = (slipped \/ ~Sound(p))
                    /\ UNCHANGED <<debug, heap, TRK, end, bad>>
               ELSE LET m == (n + BlockInc) % Wrap
                    IN  IF m = 0 THEN Release(p) ELSE Realloc(p, m, n)

\* The client writes into its block, or just behind it.
Write ==
    /\ end = ""
    /\ \E p \in Live : \E i \in DOMAIN wants[p] :
          /\ i <= heap[p].size
          /\ heap' = [heap EXCEPT ![p].mem[i] = "data"]
          /\ wants' = [wants EXCEPT ![p][i] = "data"]
    /\ UNCHANGED <<debug, TRK, end, bad, slipped>>

Overrun ==
    /\ Calls("overrun")
    /\ \E p \in Live : heap' = [heap EXCEPT ![p].mem[heap[p].size + 1] = "data"]
    /\ bad' = TRUE
    /\ UNCHANGED <<debug, wants, TRK, end, slipped>>

-----------------------------------------------------------------------------

Init ==
    /\ debug \in BOOLEAN
    /\ heap = [p \in Ptrs |-> [live |-> FALSE, c1 |-> "junk", size |-> 0, mem |-> <<>>]]
    /\ wants = [p \in Ptrs |-> <<>>]
    /\ TRK = [b \in {Hash[p] : p \in Ptrs} |-> <<>>]
    /\ end = "" /\ bad = FALSE /\ slipped = FALSE

Next ==
    \/ ck_alloc \/ ck_memdup \/ ck_memdup_str \/ ck_free \/ ck_realloc \/ ck_realloc_block
    \/ Write \/ Overrun \/ FreeAgain \/ ReallocAgain

Spec == Init /\ [][Next]_vars

-----------------------------------------------------------------------------
(* Correctness.                                                              *)

\* Every variable has the type the code gives it; no block is larger than MAX_ALLOC.
TypeOK ==
    /\ \A p \in Ptrs :
          /\ heap[p].size \in 0 .. MaxAlloc
          /\ heap[p].live => Len(heap[p].mem) = heap[p].size + 1
    /\ \A b \in DOMAIN TRK : \A i \in DOMAIN TRK[b] : TRK[b][i] \in Ptrs \cup {Null}
    /\ end \in {"", "canary", "refused", "out of memory", "bad request"}
    /\ debug \in BOOLEAN /\ bad \in BOOLEAN /\ slipped \in BOOLEAN

\* A client that keeps to its blocks is never told that it has spoilt one: every function
\* but ck_memdup_str leaves both canaries where the next one looks for them (alloc-inl.h
\* 79-89).
NoFalseAlarm == end = "canary" => bad

\* A block that was freed, or whose tail was overwritten, is never freed or resized
\* (alloc-inl.h 136, 159: "checking for double free and corrupted heap").
NothingSlips == ~slipped

\* What a client has written, and what it was promised to be zero, is still there, through
\* every move and every change of the size (alloc-inl.h 159, 122).
ContentsKept ==
    \A p \in Live : \A i \in 1 .. Len(wants[p]) :
        i <= heap[p].size /\ wants[p][i] # "any" => heap[p].mem[i] = wants[p][i]

\* A block is as large as the last request for it.
EnoughRoom == \A p \in Live : Len(wants[p]) <= heap[p].size

\* With DEBUG_BUILD the tables name every block in use once and nothing else, so that the
\* report of line 455 is the list of the leaks.
TablesExact ==
    debug => \A p \in Ptrs : Cardinality(SlotsOf(TRK, p)) = IF p \in Live THEN 1 ELSE 0

\* What every client sees: its blocks whole and its mistakes refused (alloc-inl.h 79-455).
BlocksAreWhole ==
    TypeOK /\ NoFalseAlarm /\ NothingSlips /\ ContentsKept /\ EnoughRoom /\ TablesExact
================================================================================
