------------------------------ MODULE MCProcess ------------------------------
(* What surrounds the run time in a process: the address space a stack moves  *)
(* in, fork, and in Firefox the two handlers of faults and the filter of      *)
(* system calls.  A run is about one of them: part says which, and the        *)
(* variables of the others stay as they are.  No fair action is enabled in an *)
(* initial state, so that the fairness of a part that rests asks for nothing. *)
EXTENDS ShadowLayout

CONSTANTS Processes, Main, Capacity, Grace, Skew, Modulus,
          Threads, Kinds, MaxFaults, MaxBugs,
          SYS_SENDMMSG, SYS_RECVFROM, SYS_RECVMSG, DIPC, Versions,
          AddressSpace, MemoryFirst, MemoryEnd, BaseRegisters, Pointers, Offsets, Registers,
          MaxAccesses

VARIABLES
    part,
    lock, table, stacks, hook, where, slot, age,
    eager, disposition, tried, have, code, again, frames, sAlreadyHandlingTrap, faults, end,
    port, server, lazy, mtried, mhave, threadPort, mcode, fault, started, written, queue, at,
    request, bugs, mend,
    system, sockets, ipcs, move, died,
    gpr, fpregs, memory, counter, instr, lookup, frame, debug, outcome, ideal

\* A handler for SIGSEGV was there before, none for SIGILL.
Previous == [sig \in {"SEGV", "ILL"} |-> IF sig = "SEGV" THEN "handler" ELSE "dfl"]

\* x86-64; 32-bit x86 with old headers, and with new ones on an old and on a new kernel.
Systems ==
    {[socketcall |-> FALSE, socket |-> TRUE, kernel |-> TRUE],
     [socketcall |-> TRUE, socket |-> FALSE, kernel |-> FALSE],
     [socketcall |-> TRUE, socket |-> TRUE, kernel |-> FALSE],
     [socketcall |-> TRUE, socket |-> TRUE, kernel |-> TRUE]}

Fork == INSTANCE ForkRuntime WITH Threads <- Processes, mapped <- stacks, pc <- where
Signals == INSTANCE WasmSignals
Mach == INSTANCE WasmMach
    WITH tried <- mtried, have <- mhave, code <- mcode, end <- mend
Filter == INSTANCE SandboxFilter
Arm == INSTANCE WasmUnaligned

ASSUME ForkAssumption == Fork!ThreadsAssumption /\ Fork!TimeAssumption
ASSUME WasmAssumption ==
    Signals!WasmAssumption /\ Mach!MachAssumption /\ Arm!UnalignedAssumption
ASSUME FilterAssumption == Filter!FilterAssumption

forkvars == <<lock, table, stacks, hook, where, slot, age>>
signalvars == <<eager, disposition, tried, have, code, again, frames, sAlreadyHandlingTrap,
                faults, end>>
machvars == <<port, server, lazy, mtried, mhave, threadPort, mcode, fault, started, written,
              queue, at, request, bugs, mend>>
filtervars == <<system, sockets, ipcs, move, died>>
armvars == <<gpr, fpregs, memory, counter, instr, lookup, frame, debug, outcome, ideal>>
allvars == <<part, vars, forkvars, signalvars, machvars, filtervars, armvars>>

InitAll ==
    /\ part \in {"layout", "fork", "signals", "mach", "filter", "unaligned"}
    /\ Init /\ (part = "layout" \/ start = CHOOSE s \in Starts : TRUE)
    /\ Fork!Init /\ Signals!Init
    /\ Mach!Init /\ (part = "mach" \/ request = CHOOSE t \in Threads : TRUE)
    /\ IF part = "filter" THEN Filter!Init
       ELSE /\ system = CHOOSE s \in Systems : TRUE
            /\ sockets = [n \in Filter!SocketCalls |-> "None"]
            /\ ipcs = [n \in Filter!IpcCalls |-> "None"]
            /\ move = "none" /\ died = Filter!NoCall
    /\ Arm!Init /\ (part = "unaligned" \/ (gpr = Arm!AnyGpr /\ ~frame /\ ~debug))

Layout ==
    part = "layout" /\ Next /\ UNCHANGED <<part, forkvars, signalvars, machvars, filtervars, armvars>>
Forks ==
    part = "fork" /\ Fork!Next /\ UNCHANGED <<part, vars, signalvars, machvars, filtervars, armvars>>
Handlers ==
    part = "signals" /\ Signals!Next
    /\ UNCHANGED <<part, vars, forkvars, machvars, filtervars, armvars>>
Exceptions ==
    part = "mach" /\ Mach!MachNext
    /\ UNCHANGED <<part, vars, forkvars, signalvars, filtervars, armvars>>
Filtered ==
    part = "filter" /\ Filter!Next
    /\ UNCHANGED <<part, vars, forkvars, signalvars, machvars, armvars>>
Unaligned ==
    part = "unaligned" /\ Arm!UnalignedNext
    /\ UNCHANGED <<part, vars, forkvars, signalvars, machvars, filtervars>>

NextAll == Layout \/ Forks \/ Handlers \/ Exceptions \/ Filtered \/ Unaligned

SpecAll ==
    /\ InitAll /\ [][NextAll]_allvars
    /\ Fairness /\ Fork!Fairness /\ Signals!Fairness /\ Mach!Fairness

-----------------------------------------------------------------------------
\* A parent and its children agree with the kernel about what is mapped (gs.rsp.c 197-239
\* and 361-437).
ForkSafe == Fork!ForkSafe

\* Each fault of WebAssembly is a trap that is resumed as a whole or reaches the handler
\* behind it, once, and an unaligned access on ARM is performed as the hardware would
\* (WasmSignalHandlers.cpp 436-684, 688-910, 924-1090).
FaultsAreSorted == Signals!FaultsAreSorted /\ Mach!FaultsAreSorted /\ Arm!FaultsAreSorted

\* No policy stops a move, and the change for the run time opens nothing else
\* (SandboxFilterUtil.cpp 31-153).
FilterSafe == Filter!FilterSafe

\* Moves, exits, handlers and suspended threads come to their end; a stack is unmapped, but
\* not early; only a trap is resumed as one (gs.rsp.c 209-239, 253-290 and 361-388,
\* WasmSignalHandlers.cpp 450, 874-875 and 948-959).
Progress ==
    /\ MoveEnds
    /\ Fork!UnmappedWhenOld /\ Fork!ExitEnds /\ Fork!Reclaimed
    /\ Signals!OnlyTrapsTrap /\ Signals!HandlersEnd
    /\ Mach!NeverHangs
=============================================================================
