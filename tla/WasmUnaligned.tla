---------------------------- MODULE WasmUnaligned ----------------------------
(* The floating-point accesses of WebAssembly on 32-bit ARM, where the       *)
(* hardware refuses an unaligned VLDR or VSTR with SIGBUS: HandleUnalignedTrap *)
(* of WasmSignalHandlers.cpp decodes the instruction and performs it on the  *)
(* saved context.  FlashStack itself runs on x86-64; this is the rest of the *)
(* handler in the file it changes.  An instruction word is a pair of halves, *)
(* registers and memory are made of bytes.                                   *)
EXTENDS Integers

CONSTANTS
    AddressSpace,               \* 2^32
    MemoryFirst, MemoryEnd,     \* the memory of the instance
    BaseRegisters, Pointers,            \* registers used as a base, and their values
    Offsets,                    \* values of the offset field
    Registers,                  \* numbers of double or single registers
    MaxAccesses                 \* bound: how many accesses happen

UnalignedAssumption ==
    /\ AddressSpace \in Nat \ {0}
    /\ MemoryFirst \in Nat /\ MemoryEnd \in MemoryFirst .. AddressSpace
    /\ BaseRegisters \subseteq 0 .. 14 /\ Pointers \subseteq 0 .. AddressSpace - 1
    /\ Offsets \subseteq 0 .. 255 /\ Registers \subseteq 0 .. 31 /\ MaxAccesses \in Nat

VARIABLES
    gpr,            \* the integer registers that hold addresses
    fpregs, memory, \* the bytes of the registers of the VFP, and of the address space
    counter,        \* the pc, as an offset in the code
    instr,          \* the word at the pc that SIGBUS is about
    lookup,         \* what lookupTrap finds for that pc
    frame, debug,   \* the kernel saves the VFP registers in the frame; a DEBUG build
    outcome,        \* what the handler has made of the last signal
    ideal           \* the machine whose hardware performs the accesses

kept == <<gpr, frame, debug>>
unalignedvars == <<kept, fpregs, memory, counter, instr, lookup, outcome, ideal>>

Addresses == 0 .. AddressSpace - 1
NoInstr == <<0, 0>>

-----------------------------------------------------------------------------
(* The instructions, as the architecture defines them.                       *)

Access == [load : BOOLEAN, size : {4, 8}, up : BOOLEAN, base : BaseRegisters, offset : Offsets,
           register : Registers]

\* VLDR and VSTR, always executed: a double register has the high bit of its number apart, a
\* single one the low bit.
Encode(a) ==
    LET apart == IF a.size = 8 THEN a.register \div 16 ELSE a.register % 2
        rest  == IF a.size = 8 THEN a.register % 16 ELSE a.register \div 2
    IN  <<60672 + (IF a.up THEN 128 ELSE 0) + 64 * apart + (IF a.load THEN 16 ELSE 0) + a.base,
          4096 * rest + (IF a.size = 8 THEN 2816 ELSE 2560) + a.offset>>

\* What else may raise the signal: LDRD.
OtherInstr == <<57796, 208>>

\* Two single registers are the halves of a double one.
FirstByte(a) == IF a.size = 8 THEN 8 * a.register
                ELSE 8 * (a.register \div 2) + 4 * (a.register % 2)
Target(a) == (gpr[a.base] + (IF a.up THEN 4 * a.offset ELSE -(4 * a.offset))) % AddressSpace

Copied(to, at, from, first, size) ==
    [b \in DOMAIN to |-> IF b \in at .. at + size - 1 THEN from[first + b - at] ELSE to[b]]

\* Instance::memoryAccessInBounds.
memoryAccessInBounds(p, size) == MemoryFirst <= p /\ p + size <= MemoryEnd

-----------------------------------------------------------------------------
(* The decoding of HandleUnalignedTrap.                                      *)

Field(half, unit, width) == (half \div unit) % width

\* instr & 0x0F300E00.
Masked(w) == <<Field(w[1], 256, 16), Field(w[1], 16, 4), Field(w[2], 512, 8)>>
isVLDR(w) == Masked(w) = <<13, 1, 5>>
isVSTR(w) == Masked(w) = <<13, 0, 5>>
isUnconditional(w) == Field(w[1], 4096, 16) = 14
isDouble(w) == Field(w[2], 256, 2) = 1
isAdd(w) == Field(w[1], 128, 2) = 1
dBit(w) == Field(w[1], 64, 2)
offs(w) == 4 * Field(w[2], 1, 256)
rn(w) == Field(w[1], 1, 16)

SizeOf(w) == IF isDouble(w) THEN 8 ELSE 4
DoubleNumber(w) == Field(w[2], 4096, 16) + 16 * dBit(w)
SingleNumber(w) == 2 * Field(w[2], 4096, 16) + dBit(w)
vd(w) == IF isDouble(w) THEN DoubleNumber(w) ELSE SingleNumber(w)

ReadGPR(r) == gpr[r]

\* Addresses wrap.
Address(w) == (ReadGPR(rn(w)) + (IF isAdd(w) THEN offs(w) ELSE -offs(w))) % AddressSpace

\* The first word of uc_regspace says whether the kernel has saved the registers.
GetVFPFrame == frame

\* ReadFPR64 to WriteFPR32 index fpregs as an array of doubles or of floats.
FPR(w) == SizeOf(w) * vd(w)

-----------------------------------------------------------------------------

\* Compiled code makes an access that is not aligned, or some other instruction that the
\* hardware refuses; the module has the pc in its table of traps, or does not.
Bus(w, found) ==
    /\ outcome = "run" /\ instr = NoInstr /\ counter < 4 * MaxAccesses
    /\ instr' = w /\ lookup' = found
    /\ UNCHANGED <<kept, fpregs, memory, counter, outcome>>

UnalignedAccess(a) ==
    LET p == Target(a)
    IN  /\ p % 4 # 0
        /\ \E found \in {"none", "other", "OutOfBounds"} : Bus(Encode(a), found)
        /\ ideal' =
              IF ~memoryAccessInBounds(p, a.size) THEN [ideal EXCEPT !.trapped = TRUE]
              ELSE IF a.load
              THEN [ideal EXCEPT !.counter = @ + 4,
                        !.fpregs = Copied(@, FirstByte(a), ideal.memory, p, a.size)]
              ELSE [ideal EXCEPT !.counter = @ + 4,
                        !.memory = Copied(@, p, ideal.fpregs, FirstByte(a), a.size)]

OtherAccess ==
    /\ \E found \in {"none", "other", "OutOfBounds"} : Bus(OtherInstr, found)
    /\ UNCHANGED ideal

Finish(result) == outcome' = result /\ UNCHANGED <<fpregs, memory, counter, instr>>

\* Anything that cannot be performed goes on as the trap that the table names.
GiveUp == Finish(IF debug THEN "assertion" ELSE "trap")

\* memcpy and the functions of the VFP registers, and SetContextPC.
Perform(w) ==
    /\ IF isVLDR(w)
       THEN fpregs' = Copied(fpregs, FPR(w), memory, Address(w), SizeOf(w)) /\ UNCHANGED memory
       ELSE memory' = Copied(memory, Address(w), fpregs, FPR(w), SizeOf(w)) /\ UNCHANGED fpregs
    /\ counter' = counter + 4 /\ instr' = NoInstr /\ UNCHANGED outcome

HandleUnalignedTrap(w) ==
    IF counter % 4 # 0 THEN Finish("assertion")
    ELSE IF ~isVLDR(w) /\ ~isVSTR(w) THEN GiveUp
    ELSE IF ~isUnconditional(w) \/ rn(w) = 15 THEN Finish("assertion")
    ELSE IF ~memoryAccessInBounds(Address(w), SizeOf(w)) THEN Finish("trap")
    ELSE IF GetVFPFrame THEN Perform(w) ELSE GiveUp

\* HandleTrap for a SIGBUS, which only an access of memory may raise.
HandleTrap ==
    /\ outcome = "run" /\ instr # NoInstr
    /\ IF lookup # "OutOfBounds" THEN Finish("forward") ELSE HandleUnalignedTrap(instr)
    /\ UNCHANGED <<kept, lookup, ideal>>

AnyGpr == CHOOSE g \in [BaseRegisters -> Pointers] : TRUE

Init ==
    /\ gpr \in [BaseRegisters -> Pointers]
    /\ fpregs = [b \in 0 .. 255 |-> <<"register", b>>]
    /\ memory = [b \in Addresses |-> <<"memory", b>>]
    /\ counter = 0 /\ instr = NoInstr /\ lookup = "none"
    /\ frame \in BOOLEAN /\ debug \in BOOLEAN /\ outcome = "run"
    /\ ideal = [fpregs |-> fpregs, memory |-> memory, counter |-> 0, trapped |-> FALSE]

UnalignedNext == (\E a \in Access : UnalignedAccess(a)) \/ OtherAccess \/ HandleTrap

-----------------------------------------------------------------------------
(* Correctness.                                                              *)

\* The code that was emitted goes on as on hardware that performs the access, with the same
\* registers, memory and pc; an access out of bounds becomes a trap with nothing changed, and
\* so does nothing else unless the kernel hides the registers (lines 638-683).
AsIfAligned ==
    /\ outcome = "run" /\ instr = NoInstr =>
          /\ fpregs = ideal.fpregs /\ memory = ideal.memory /\ counter = ideal.counter
          /\ ~ideal.trapped
    /\ outcome = "trap" /\ instr # OtherInstr => ideal.trapped \/ ~frame
    /\ ideal.trapped => fpregs = ideal.fpregs /\ memory = ideal.memory

\* The handler never writes a byte that is not of the instance, and asserts only in a DEBUG
\* build (lines 604, 635-643).
StaysInBounds ==
    /\ \A b \in Addresses \ (MemoryFirst .. MemoryEnd - 1) : memory[b] = <<"memory", b>>
    /\ outcome = "assertion" => debug

\* What every state keeps (lines 480-684, 712-719).
FaultsAreSorted == AsIfAligned /\ StaysInBounds

=============================================================================
