------------------------------ MODULE SpaCode ------------------------------
(* What the code that afl-as.c writes does when it runs: the prologues of   *)
(* lines 7011-7256, the epilogues of 7486-7651 and the rewritten calls of   *)
(* 7276-7478, instruction by instruction, for every build that spa.h can    *)
(* choose.  A machine word is one unit of an address, so "8" of the source  *)
(* is 1 here.  A signal handler may move the shadow stack, or change the    *)
(* number that masks it, between any two instructions.                      *)
EXTENDS Integers, Sequences

CONSTANTS
    Builds,        \* the builds under test
    Size,          \* DEF_BUDDY_CALL_STACK_SIZE in words, a power of two
    User,          \* SPA_USER_SPACE_SIZE in words
    Masks,         \* random numbers
    Rets,          \* return addresses
    MaxMoves       \* bound on moves

AllBuilds == {"shadow_stack", "via_reg", "buddy_tls", "buddy_size", "gs_rsp", "fs_gs",
              "fs_gs_msr", "shadesmar", "global", "init", "count"}
BuildAssumption == Builds \subseteq AllBuilds
SizeAssumption == Size \in Nat /\ Size >= 2 /\ User \in Nat /\ User > 100 * Size
WordAssumption == Masks \cup Rets \subseteq Nat /\ MaxMoves \in Nat

(* Memory: the call stack is [2*Size, 3*Size), so rounding rsp down gives     *)
(* 2*Size; Size below it lie its copies in the builds that use a fixed        *)
(* distance, and 2*Size below it the word with the mask.  The builds that     *)
(* use gs have their copies in one of two areas above, and the metadata of    *)
(* fs_gs behind them.                                                         *)
Area(k) == (3 + k) * Size
Meta == 6 * Size
MaskVar == Meta + 5        \* .BUDDY.CALL_STACK_SIZE_MASK, reached through the GOT
RandomVal == 777           \* the address of .unsw.randomval that the GOT holds
Addresses == 0 .. Meta + 5
Unmapped == -1
Junk == 555
Result == 333

VARIABLES build, at, i, reg, mem, gs, area, entry, target, fault, hit, moves, linked
vars == <<build, at, i, reg, mem, gs, area, entry, target, fault, hit, moves, linked>>

-----------------------------------------------------------------------------
(* Instructions.                                                             *)

Mem(b, o) == [base |-> b, off |-> o, index |-> "zero", scale |-> 0, seg |-> 0]
Idx(b, o, x, k) == [base |-> b, off |-> o, index |-> x, scale |-> k, seg |-> 0]
Gs(m) == [m EXCEPT !.seg = 1]

NoMem == Mem("zero", 0)
Ins(op, m, s, r, n, len) == [op |-> op, m |-> m, s |-> s, r |-> r, n |-> n, len |-> len]
Load(m, r, len)  == Ins("load", m, "zero", r, 0, len)
Store(s, m, len) == Ins("store", m, s, "zero", 0, len)
AddM(m, r, len)  == Ins("addm", m, "zero", r, 0, len)
SubM(m, r)       == Ins("subm", m, "zero", r, 0, 0)
Mov(s, r)        == Ins("mov", NoMem, s, r, 0, 0)
Sub(s, r)        == Ins("sub", NoMem, s, r, 0, 0)
And(s, r)        == Ins("and", NoMem, s, r, 0, 0)
AndI(n, r)       == Ins("andi", NoMem, "zero", r, n, 0)
AddI(n, r)       == Ins("addi", NoMem, "zero", r, n, 0)
SubI(n, r)       == Ins("addi", NoMem, "zero", r, -n, 0)
MovI(n, r, len)  == Ins("movi", NoMem, "zero", r, n, len)
Jump(r)          == Ins("jump", NoMem, r, "zero", 0, 0)
JumpM(m)         == Ins("jumpm", m, "zero", "zero", 0, 0)
PopM(m)          == Ins("popm", m, "zero", "zero", 0, 0)
Push(s)          == Ins("push", NoMem, s, "zero", 0, 0)
Pop(r)           == Ins("pop", NoMem, "zero", r, 0, 0)
CallC            == Ins("callc", NoMem, "zero", "zero", 0, 0)
Return           == Ins("ret", NoMem, "zero", "zero", 0, 0)

Round(x, m) == (x \div (-m)) * (-m)     \* x & m for the mask m of a power of two

-----------------------------------------------------------------------------
(* The code that is written.                                                 *)

\* USE_SPA_SHADOW_STACK: popq finds its operand with rsp already moved.
\* Mutant: the pop is not undone.
ShadowInPopped == <<PopM(Mem("rsp", -Size))>>
ShadowIn  == <<PopM(Mem("rsp", -Size)), SubI(1, "rsp")>>
ShadowOut == <<AddI(1, "rsp"), Load(Mem("rsp", -Size), "r11", 0), Jump("r11")>>

\* USE_SPA_SHADOW_STACK_VIA_REG
RegIn  == <<Load(Mem("rsp", 0), "rax", 0), Store("rax", Mem("rsp", -Size), 0)>>
RegOut == <<Load(Mem("rsp", -Size), "r11", 0), AddI(1, "rsp"), Jump("r11")>>

\* USE_SPA_BUDDY_STACK_TLS: the mask is found by rounding rsp.
BuddyIn ==
    <<Mov("rsp", "r11"), AndI(-Size, "r11"), Load(Mem("r11", -2 * Size), "r11", 0),
      AddM(Mem("rsp", 0), "r11", 0), Store("r11", Mem("rsp", -Size), 0)>>
BuddyOut ==
    <<Mov("rsp", "r10"), AndI(-Size, "r10"), Load(Mem("rsp", -Size), "r11", 0),
      SubM(Mem("r10", -2 * Size), "r11"), AddI(1, "rsp"), Jump("r11")>>

\* USE_SPA_BUDDY_STACK_TLS_WITH_STK_SIZE: the size comes from a variable.
SizeIn ==
    <<Mov("rsp", "r11"), MovI(MaskVar, "r10", 0), Load(Mem("r10", 0), "r10", 0),
      And("r10", "r11"), Load(Idx("r11", 0, "r10", 2), "r11", 0),
      AddM(Mem("rsp", 0), "r11", 0), Store("r11", Idx("rsp", 0, "r10", 1), 0)>>
SizeOut ==
    <<Mov("rsp", "r11"), MovI(MaskVar, "r10", 0), Load(Mem("r10", 0), "r10", 0),
      And("r10", "r11"), Load(Idx("r11", 0, "r10", 2), "r11", 0),
      Load(Idx("rsp", 0, "r10", 1), "r10", 0), Sub("r11", "r10"), AddI(1, "rsp"),
      Jump("r10")>>

\* USE_SPA_GS_RSP, with the lengths of spa.h 130-134; GsRspLink is a direct call.
GsRspIn ==
    <<Load(Mem("rsp", 0), "r11", 4), MovI(-User, "r10", 10),
      Store("r11", Gs(Idx("rsp", 0, "r10", 1)), 5)>>
\* Mutant: the displacement forgets that rsp has moved.
GsRspOutAbove ==
    <<MovI(-User, "r10", 10), AddI(1, "rsp"), JumpM(Gs(Idx("rsp", 0, "r10", 1)))>>
GsRspOut ==
    <<MovI(-User, "r10", 10), AddI(1, "rsp"), JumpM(Gs(Idx("rsp", -1, "r10", 1)))>>
GsRspLink ==
    <<MovI(-User, "r10", 10), Store("r11", Gs(Idx("rsp", -1, "r10", 1)), 5)>>

\* USE_SPA_FS_GS_TLS without and with SPA_ENABLE_GS_MSR: the distance is the second
\* word of the metadata, the mask the third.
FsGsIn ==
    <<Load(Mem("rsp", 0), "r11", 4), Load(Gs(Mem("zero", 1)), "r10", 9),
      Store("r11", Idx("rsp", 0, "r10", 1), 4)>>
FsGsOut ==
    <<Load(Gs(Mem("zero", 1)), "r11", 0), Load(Idx("rsp", 0, "r11", 1), "r11", 0),
      AddI(1, "rsp"), Jump("r11")>>
FsGsLink ==
    <<Load(Gs(Mem("zero", 1)), "r10", 9), Store("r11", Idx("rsp", -1, "r10", 1), 0)>>
MsrIn ==
    <<Load(Mem("rsp", 0), "r11", 4), AddM(Gs(Mem("zero", 2)), "r11", 9),
      Load(Gs(Mem("zero", 1)), "r10", 9), Store("r11", Idx("rsp", 0, "r10", 1), 4)>>
MsrOut ==
    <<Load(Gs(Mem("zero", 1)), "r11", 0), Load(Idx("rsp", 0, "r11", 1), "r11", 0),
      SubM(Gs(Mem("zero", 2)), "r11"), AddI(1, "rsp"), Jump("r11")>>
MsrLink == <<AddM(Gs(Mem("zero", 2)), "r11", 0)>> \o FsGsLink

\* USE_SPA_SHADOW_STACK_PLUS_GLOBAL_RANDVAR: the operand is the entry of the GOT,
\* so the address of the variable is what masks.
GlobalIn ==
    <<MovI(RandomVal, "rax", 0), AddM(Mem("rsp", 0), "rax", 0),
      Store("rax", Mem("rsp", -Size), 0)>>
GlobalOut ==
    <<Load(Mem("rsp", -Size), "r11", 0), SubI(RandomVal, "r11"), AddI(1, "rsp"),
      Jump("r11")>>

\* Mutant: the registers come back in the order they went.
CallInSwapped ==
    <<Push("rdi"), Push("rsi"), Push("rdx"), CallC, Pop("rdi"), Pop("rsi"), Pop("rdx")>>
\* The prologue of malloc and its relatives, and of handlers: a call of the run time
\* between pushes and pops of three registers of arguments.
CallIn ==
    <<Push("rdi"), Push("rsi"), Push("rdx"), CallC, Pop("rdx"), Pop("rsi"), Pop("rdi")>>

PrologueOf ==
    [shadow_stack |-> ShadowIn, via_reg |-> RegIn, buddy_tls |-> BuddyIn,
     buddy_size |-> SizeIn, gs_rsp |-> GsRspIn, fs_gs |-> FsGsIn, fs_gs_msr |-> MsrIn,
     shadesmar |-> <<>>, global |-> GlobalIn, init |-> CallIn, count |-> CallIn]
EpilogueOf ==
    [shadow_stack |-> ShadowOut, via_reg |-> RegOut, buddy_tls |-> BuddyOut,
     buddy_size |-> SizeOut, gs_rsp |-> GsRspOut, fs_gs |-> FsGsOut, fs_gs_msr |-> MsrOut,
     shadesmar |-> <<Return>>, global |-> GlobalOut, init |-> <<Return>>,
     count |-> <<Return>>]
LinkOf == [gs_rsp |-> GsRspLink, fs_gs |-> FsGsLink, fs_gs_msr |-> MsrLink]

\* SPA_LENGTH_OF_PROTECTED_PROLOGUE.  Mutant: the length of the other build.
LengthOfProtectedPrologueMsr == [gs_rsp |-> 19, fs_gs |-> 26, fs_gs_msr |-> 26]
LengthOfProtectedPrologue == [gs_rsp |-> 19, fs_gs |-> 17, fs_gs_msr |-> 26]

\* The registers a prologue may change: the scratch registers of the calling
\* convention, and rax in the builds that need it, whose callers must not pass
\* anything in it.
Scratch ==
    CASE build \in {"via_reg", "global"} -> {"rax"}
      [] build \in {"init", "count"} -> {"rax", "rcx", "r10", "r11"}
      [] OTHER -> {"r10", "r11"}

Code == CASE at = "prologue" -> PrologueOf[build]
          [] at = "link" -> LinkOf[build]
          [] OTHER -> EpilogueOf[build]

-----------------------------------------------------------------------------
(* The processor.                                                            *)

Where(m) == reg[m.base] + m.off + m.scale * reg[m.index] + m.seg * gs
Mapped(a) == a \in Addresses /\ mem[a] # Unmapped

Reads(c)  == c.op \in {"load", "addm", "subm", "jumpm"}
Touches(c) == IF Reads(c) \/ c.op = "store" THEN {Where(c.m)}
              ELSE IF c.op = "popm" THEN {reg["rsp"] + 1 + c.m.off} ELSE {}

\* What an instruction leaves in its register.
Value(c) ==
    CASE c.op = "load" -> mem[Where(c.m)]
      [] c.op = "addm" -> reg[c.r] + mem[Where(c.m)]
      [] c.op = "subm" -> reg[c.r] - mem[Where(c.m)]
      [] c.op = "mov"  -> reg[c.s]
      [] c.op = "sub"  -> reg[c.r] - reg[c.s]
      [] c.op = "and"  -> Round(reg[c.r], reg[c.s])
      [] c.op = "andi" -> Round(reg[c.r], c.n)
      [] c.op = "addi" -> reg[c.r] + c.n
      [] c.op = "movi" -> c.n
      [] c.op = "pop"  -> mem[reg["rsp"]]

Registers(c) ==
    CASE c.op \in {"load", "addm", "subm", "mov", "sub", "and", "andi", "addi", "movi"}
            -> [reg EXCEPT ![c.r] = Value(c)]
      [] c.op = "pop"  -> [reg EXCEPT ![c.r] = Value(c), !["rsp"] = @ + 1]
      [] c.op = "push" -> [reg EXCEPT !["rsp"] = @ - 1]
      [] c.op \in {"popm", "ret"} -> [reg EXCEPT !["rsp"] = @ + 1]
      \* a C function keeps none of these
      [] c.op = "callc" -> [reg EXCEPT !["rdi"] = Junk, !["rsi"] = Junk, !["rdx"] = Junk,
                                       !["rcx"] = Junk, !["rax"] = Junk, !["r10"] = Junk,
                                       !["r11"] = Junk]
      [] OTHER -> reg

Memory(c) ==
    CASE c.op = "store" -> [mem EXCEPT ![Where(c.m)] = reg[c.s]]
      [] c.op = "popm"  -> [mem EXCEPT ![reg["rsp"] + 1 + c.m.off] = mem[reg["rsp"]]]
      [] c.op = "push"  -> [mem EXCEPT ![reg["rsp"] - 1] = reg[c.s]]
      [] OTHER -> mem

Target(c) ==
    CASE c.op = "jump"  -> reg[c.s]
      [] c.op = "jumpm" -> mem[Where(c.m)]
      [] c.op = "ret"   -> mem[reg["rsp"]]
      [] OTHER -> target

Leaves(c) == c.op \in {"jump", "jumpm", "ret"}

-----------------------------------------------------------------------------
(* The life of one call.                                                     *)

Init ==
    \E b \in Builds, r \in Rets, x \in Masks, sp \in 2 * Size + 3 .. 3 * Size - 2 :
        /\ build = b
        /\ gs = IF b = "gs_rsp" THEN User + Size ELSE Meta
        /\ area = 0
        /\ mem = [a \in Addresses |->
                     CASE a = sp -> r
                       [] a = 0 -> x
                       [] a = Meta + 1 -> Size
                       [] a = Meta + 2 -> x
                       [] a = MaskVar -> -Size
                       [] a \in Area(1) .. Area(1) + Size - 1 -> Unmapped
                       [] OTHER -> 0]
        /\ \E l \in {FALSE} \cup (IF b \in DOMAIN LinkOf THEN {TRUE} ELSE {}) :
              /\ linked = l
              /\ at = IF l THEN "link" ELSE "prologue"
              /\ reg = [rsp |-> IF l THEN sp + 1 ELSE sp, rax |-> 11, r10 |-> Junk,
                        r11 |-> IF l THEN r ELSE Junk, rdi |-> 1, rsi |-> 2, rdx |-> 3,
                        rcx |-> 4, zero |-> 0]
        /\ entry = [rsp |-> sp, ret |-> r]
        /\ i = 1 /\ target = 0 /\ fault = FALSE /\ hit = FALSE /\ moves = 0

\* One instruction of the prologue, of the epilogue or in front of a call.
Step ==
    /\ at \in {"prologue", "epilogue", "link"} /\ ~fault
    /\ i <= Len(Code)
    /\ LET c == Code[i] IN
       IF \A a \in Touches(c) : Mapped(a)
       THEN /\ reg' = Registers(c) /\ mem' = Memory(c) /\ target' = Target(c)
            /\ i' = i + 1
            /\ at' = IF Leaves(c) THEN "returned" ELSE at
            /\ UNCHANGED fault
       ELSE fault' = TRUE /\ UNCHANGED <<reg, mem, target, i, at>>
    /\ UNCHANGED <<build, gs, area, entry, hit, moves, linked>>

\* How many bytes the first n instructions of p take.
Bytes(p) ==
    LET size[n \in 0 .. Len(p)] == IF n = 0 THEN 0 ELSE size[n - 1] + p[n].len
    IN  size

\* A rewritten call enters behind the prologue, as far as its length says.
SkipCall ==
    /\ at = "link" /\ ~fault /\ i > Len(Code)
    /\ reg' = [reg EXCEPT !["rsp"] = @ - 1]
    /\ LET p == PrologueOf[build]
           skipped == {n \in 0 .. Len(p) : Bytes(p)[n] = LengthOfProtectedPrologue[build]}
       IN  IF skipped = {} THEN fault' = TRUE /\ UNCHANGED <<at, i>>
           ELSE /\ at' = "prologue" /\ i' = 1 + CHOOSE n \in skipped : TRUE
                /\ UNCHANGED fault
    /\ UNCHANGED <<build, mem, gs, area, entry, target, hit, moves, linked>>

\* The body begins, uses what it may and leaves a result.
Body ==
    /\ at = "prologue" /\ ~fault /\ i > Len(Code)
    /\ at' = "body"
    /\ UNCHANGED <<build, i, reg, mem, gs, area, entry, target, fault, hit, moves, linked>>

Finish ==
    /\ at = "body" /\ ~fault
    /\ at' = "epilogue" /\ i' = 1
    /\ reg' = [reg EXCEPT !["rax"] = Result, !["r10"] = Junk, !["r11"] = Junk,
                          !["rdi"] = Junk, !["rsi"] = Junk, !["rdx"] = Junk,
                          !["rcx"] = Junk]
    /\ UNCHANGED <<build, mem, gs, area, entry, target, fault, hit, moves, linked>>

\* A mask or a distance has been read, or a masked address, and is not used up yet.
Window ==
    \/ build = "buddy_tls" /\ at = "prologue" /\ i \in {4, 5}
    \/ build = "buddy_tls" /\ at = "epilogue" /\ i = 4
    \/ build = "buddy_size" /\ at = "prologue" /\ i \in {6, 7}
    \/ build = "buddy_size" /\ at = "epilogue" /\ i \in {6}
    \/ build = "fs_gs" /\ at = "prologue" /\ i = 3
    \/ build = "fs_gs" /\ at = "epilogue" /\ i = 2
    \/ build = "fs_gs" /\ at = "link" /\ i = 2
    \/ build = "fs_gs_msr" /\ at = "prologue" /\ i \in {3, 4}
    \/ build = "fs_gs_msr" /\ at = "epilogue" /\ i \in {2, 3}
    \/ build = "fs_gs_msr" /\ at = "link" /\ i \in {2, 3}

\* The slot of this call holds its copy.
Copied == at \in {"body", "epilogue"} \/ (at = "prologue" /\ i > Len(Code))
          \/ (linked /\ (at = "prologue" \/ i > Len(Code)))

Slot == CASE build \in {"gs_rsp", "fs_gs", "fs_gs_msr"} -> entry.rsp + (1 + area) * Size
          [] OTHER -> entry.rsp - Size

\* A handler calls the run time: the copies move (gs_rsp, fs_gs), and the mask and
\* the copies under it change (buddy, fs_gs_msr).
Move ==
    /\ at # "returned" /\ ~fault /\ moves < MaxMoves
    /\ moves' = moves + 1
    /\ hit' = (hit \/ Window)
    /\ \/ /\ build \in {"gs_rsp", "fs_gs", "fs_gs_msr"}
          /\ area' = 1 - area
          /\ gs' = IF build = "gs_rsp" THEN User + (2 - area) * Size ELSE gs
          /\ mem' = [a \in Addresses |->
                IF a \in Area(1 - area) .. Area(1 - area) + Size - 1
                THEN mem[a - Area(1 - area) + Area(area)]
                ELSE IF a \in Area(area) .. Area(area) + Size - 1 THEN Unmapped
                ELSE IF a = Meta + 1 /\ build # "gs_rsp" THEN (2 - area) * Size
                ELSE mem[a]]
       \/ /\ build \in {"buddy_tls", "buddy_size", "fs_gs_msr"}
          /\ \E x \in Masks :
                LET at0 == IF build = "fs_gs_msr" THEN Meta + 2 ELSE 0 IN
                mem' = [a \in Addresses |->
                          IF a = at0 THEN x
                          ELSE IF a = Slot /\ Copied THEN mem[a] + x - mem[at0]
                          ELSE mem[a]]
          /\ UNCHANGED <<area, gs>>
    /\ UNCHANGED <<build, at, i, reg, entry, target, fault, linked>>

Next == Step \/ SkipCall \/ Body \/ Finish \/ Move
Spec == Init /\ [][Next]_vars

-----------------------------------------------------------------------------
(* Properties.                                                               *)

TypeOK ==
    /\ build \in Builds
    /\ at \in {"link", "prologue", "body", "epilogue", "returned"}
    /\ i \in 1..10 /\ reg["rsp"] \in 2 * Size .. entry.rsp + 1
    /\ DOMAIN reg = {"rsp", "rax", "r10", "r11", "rdi", "rsi", "rdx", "rcx", "zero"}
    /\ DOMAIN mem = Addresses
    /\ area \in {0, 1} /\ moves \in 0..MaxMoves
    /\ {fault, hit, linked} \subseteq BOOLEAN

\* A function that nothing disturbed between the reading of a mask or a distance and
\* its use returns to its caller, with its result and rsp behind the return address;
\* in the default build nothing disturbs it anywhere (lines 7011-7256, 7486-7651).
ReturnsHome == ~hit /\ at = "returned" =>
    /\ target = entry.ret
    /\ reg["rsp"] = entry.rsp + 1
    /\ reg["rax"] = Result

\* Nothing is read or written where no memory is, and a call that passes over a
\* prologue enters at the first instruction behind it, for every build with such
\* calls (spa.h 106-137).
NoStrayAccess == ~hit => ~fault

\* The body finds the stack and the registers of its arguments as the caller left
\* them; the exceptions are named by Scratch (lines 7045-7085: "no more than 3
\* arguments").
PrologueTransparent == at = "body" =>
    /\ reg["rsp"] = entry.rsp
    /\ \A r \in {"rax", "rdi", "rsi", "rdx", "rcx"} \ Scratch :
          reg[r] = [rax |-> 11, rdi |-> 1, rsi |-> 2, rdx |-> 3, rcx |-> 4][r]

\* One call of a protected function in any build and with a move between any two of its
\* instructions (afl-as.c 7011-7256, 7309-7371, 7486-7651, spa.h 106-137).
CodeIsSound == TypeOK /\ ReturnsHome /\ NoStrayAccess /\ PrologueTransparent
=============================================================================
