---------------------------- MODULE WasmSignals ----------------------------
(* The signal handlers of WebAssembly in Firefox, WasmSignalHandlers.cpp, on *)
(* Linux: how they are installed, how a fault is told from an expected trap, *)
(* and how what is no trap reaches the handler that was there before.  In    *)
(* the version built with FlashStack they run on the stack of the thread.    *)
EXTENDS Integers, Sequences, FiniteSets

CONSTANTS
    Threads,        \* threads with a JSContext
    Previous,       \* signal -> its disposition before: "dfl", "ign" or "handler"
    Kinds,          \* what makes a thread fault
    MaxFaults       \* bound: how many faults that are bugs happen

Signals == {"SEGV", "ILL"}

WasmAssumption ==
    /\ Previous \in [Signals -> {"dfl", "ign", "handler"}]
    /\ Kinds \subseteq {"trap", "bug", "overflow"} /\ MaxFaults \in Nat

VARIABLES
    eager,          \* sEagerInstallState, and how far the installation is
    disposition,    \* signal -> what the kernel does with it
    tried, have,    \* cx -> wasmTriedToInstallSignalHandlers, wasmHaveSignalHandlers
    code,           \* thread -> what it runs
    again,          \* thread -> a fault that is about to happen again
    frames,         \* thread -> its handlers, the innermost last
    sAlreadyHandlingTrap,
    faults,
    end             \* how the process has ended: by an assertion, a report or a signal
installVars == <<eager, tried, have>>
threadVars == <<code, again, frames, sAlreadyHandlingTrap>>
vars == <<installVars, disposition, threadVars, faults, end>>

NoFault == [sig |-> "none", kind |-> "none"]
Fault == [sig : Signals, kind : {"trap", "bug", "overflow"}]
Frame == [sig : Signals, kind : {"trap", "bug", "overflow"},
          at : {"entry", "trap", "forward", "previous"}]

Running == end = ""
Top(t) == frames[t][Len(frames[t])]
Active(t) == Running /\ frames[t] # <<>> /\ again[t] = NoFault
At(t, where) == Active(t) /\ Top(t).at = where
Without(t) == [frames EXCEPT ![t] = SubSeq(@, 1, Len(@) - 1)]
GoTo(t, where) == [frames EXCEPT ![t][Len(frames[t])].at = where]

-----------------------------------------------------------------------------
(* Installation.                                                             *)

\* EnsureEagerProcessSignalHandlers, with its lock held throughout; one sigaction after the
\* other, and MOZ_CRASH when one fails.
Sigaction(sig, from, to) ==
    /\ Running /\ eager = from
    /\ \/ /\ disposition' = [disposition EXCEPT ![sig] = "wasm"]
          /\ eager' = to /\ UNCHANGED end
       \/ end' = "assertion" /\ UNCHANGED <<disposition, eager>>
    /\ UNCHANGED <<tried, have, threadVars, faults>>

InstallSegv == Sigaction("SEGV", "untried", "segv")
InstallTrap == Sigaction("ILL", "segv", "success")

\* There is no JIT, or signal handling is broken on this system.
InstallNothing ==
    /\ Running /\ eager = "untried" /\ eager' = "failed"
    /\ UNCHANGED <<tried, have, disposition, threadVars, faults, end>>

HadWhenTried(t) == eager # "untried"
\* What EnsureFullSignalHandlers finds out; EnsureLazyProcessSignalHandlers has nothing to
\* do on this system.
HadWhenInstalled(t) == eager = "success"

\* EnsureFullSignalHandlers, after JS_Init; it waits for the lock of the installation.
EnsureFullSignalHandlers(t) ==
    /\ Running /\ ~tried[t] /\ eager \notin {"untried", "segv"}
    /\ tried' = [tried EXCEPT ![t] = TRUE]
    /\ have' = [have EXCEPT ![t] = HadWhenInstalled(t)]
    /\ UNCHANGED <<eager, disposition, threadVars, faults, end>>

RunWasm(t) ==
    /\ Running /\ have[t] /\ code[t] = "native" /\ frames[t] = <<>> /\ again[t] = NoFault
    /\ code' = [code EXCEPT ![t] = "wasm"]
    /\ UNCHANGED <<installVars, disposition, again, frames, sAlreadyHandlingTrap, faults, end>>

-----------------------------------------------------------------------------
(* The kernel delivers a fault.                                              *)

Deferring == {"SA_SIGINFO"}
\* The flags of faultHandler and wasmTrapHandler.
sa_flags == {"SA_SIGINFO", "SA_NODEFER"}

\* A handler of the same signal is running, and the flags do not let it be entered again.
Blocked(t, sig) == "SA_NODEFER" \notin sa_flags /\ \E i \in DOMAIN frames[t] : frames[t][i].sig = sig

AsInstalled(sig) == disposition[sig]
\* Where the thread is after the kernel has called the handler of a signal.
Called(sig) == IF disposition[sig] = "wasm" THEN "entry" ELSE "previous"

Deliver(t, f) ==
    IF disposition[f.sig] \in {"dfl", "ign"} \/ Blocked(t, f.sig)
    THEN end' = f.sig /\ UNCHANGED frames
    ELSE IF f.kind = "overflow" /\ "SA_ONSTACK" \notin sa_flags /\ disposition[f.sig] = "wasm"
    THEN end' = f.sig /\ UNCHANGED frames
    ELSE /\ frames' = [frames EXCEPT ![t] = Append(@,
                        [sig |-> f.sig, kind |-> f.kind, at |-> Called(f.sig)])]
         /\ UNCHANGED end

\* Wasm code traps where it may; anything else may also go wrong where it should not, the
\* handler too.
Trap(t) ==
    /\ Running /\ "trap" \in Kinds /\ code[t] = "wasm" /\ frames[t] = <<>> /\ again[t] = NoFault
    /\ \E sig \in Signals : Deliver(t, [sig |-> sig, kind |-> "trap"])
    /\ UNCHANGED <<installVars, disposition, code, again, sAlreadyHandlingTrap, faults>>

Bug(t) ==
    /\ Running /\ again[t] = NoFault /\ faults < MaxFaults
    /\ frames[t] # <<>> => Top(t).at \in {"trap", "previous"}
    /\ \E sig \in Signals, kind \in Kinds \cap {"bug", "overflow"} :
          Deliver(t, [sig |-> sig, kind |-> kind])
    /\ faults' = faults + 1
    /\ UNCHANGED <<installVars, disposition, code, again, sAlreadyHandlingTrap>>

\* The instruction a handler has returned to without a remedy faults once more.
Refault(t) ==
    /\ Running /\ again[t] # NoFault
    /\ Deliver(t, again[t])
    /\ again' = [again EXCEPT ![t] = NoFault]
    /\ UNCHANGED <<installVars, disposition, code, sAlreadyHandlingTrap, faults>>

-----------------------------------------------------------------------------
(* WasmTrapHandler.                                                          *)

MayHandle(t) == TRUE
\* Only the first handler of a thread looks at what has happened.
NotYetHandling(t) == ~sAlreadyHandlingTrap[t]

Enter(t) ==
    /\ At(t, "entry")
    /\ IF NotYetHandling(t)
       THEN /\ sAlreadyHandlingTrap' = [sAlreadyHandlingTrap EXCEPT ![t] = TRUE]
            /\ frames' = GoTo(t, "trap")
       ELSE frames' = GoTo(t, "forward") /\ UNCHANGED sAlreadyHandlingTrap
    /\ UNCHANGED <<installVars, disposition, code, again, faults, end>>

AnyTrap(t) == TRUE
\* lookupTrap, for a pc in the code of a module.
ExpectedTrap(t) == Top(t).kind = "trap"

StillHandling(t) == UNCHANGED sAlreadyHandlingTrap
\* ~AutoHandlingTrap.
NoLongerHandling(t) == sAlreadyHandlingTrap' = [sAlreadyHandlingTrap EXCEPT ![t] = FALSE]

\* HandleTrap; after startWasmTrap the thread goes on in the trap code of the module.
HandleTrap(t) ==
    /\ At(t, "trap")
    /\ NoLongerHandling(t)
    /\ IF ExpectedTrap(t)
       THEN frames' = Without(t) /\ code' = [code EXCEPT ![t] = "trap code"]
       ELSE frames' = GoTo(t, "forward") /\ UNCHANGED code
    /\ UNCHANGED <<installVars, disposition, again, faults, end>>

\* The trap code unwinds, and finishWasmTrap is called.
finishWasmTrap(t) ==
    /\ Running /\ code[t] = "trap code" /\ frames[t] = <<>> /\ again[t] = NoFault
    /\ code' = [code EXCEPT ![t] = "native"]
    /\ UNCHANGED <<installVars, disposition, again, frames, sAlreadyHandlingTrap, faults, end>>

\* Neither SA_SIGINFO nor a function is there to call.
NoNextHandler(t) == Previous[Top(t).sig] \in {"dfl", "ign"}

JustReturn(sig) == disposition[sig]
\* What sigaction puts back.
Original(sig) == Previous[sig]

\* What is no trap is forwarded; with no handler to forward it to, the signal gets its old
\* disposition and the instruction is executed again.
Forward(t) ==
    /\ At(t, "forward")
    /\ IF NoNextHandler(t)
       THEN /\ disposition' = [disposition EXCEPT ![Top(t).sig] = Original(Top(t).sig)]
            /\ frames' = Without(t)
            /\ again' = [again EXCEPT ![t] = [sig |-> Top(t).sig, kind |-> Top(t).kind]]
       ELSE frames' = GoTo(t, "previous") /\ UNCHANGED <<disposition, again>>
    /\ UNCHANGED <<installVars, code, sAlreadyHandlingTrap, faults, end>>

\* The handler that was there before: it reports a crash and ends the process, or mends
\* what has faulted, or takes itself away and lets the instruction fault.
PreviousHandler(t) ==
    /\ At(t, "previous")
    /\ \/ end' = "reported" /\ UNCHANGED <<disposition, frames, again>>
       \/ frames' = Without(t) /\ UNCHANGED <<disposition, again, end>>
       \/ /\ disposition' = [disposition EXCEPT ![Top(t).sig] = "dfl"]
          /\ frames' = Without(t)
          /\ again' = [again EXCEPT ![t] = [sig |-> Top(t).sig, kind |-> Top(t).kind]]
          /\ UNCHANGED end
    /\ UNCHANGED <<installVars, code, sAlreadyHandlingTrap, faults>>

-----------------------------------------------------------------------------

Init ==
    /\ eager = "untried" /\ disposition = Previous
    /\ tried = [t \in Threads |-> FALSE] /\ have = [t \in Threads |-> FALSE]
    /\ code = [t \in Threads |-> "native"] /\ again = [t \in Threads |-> NoFault]
    /\ frames = [t \in Threads |-> <<>>]
    /\ sAlreadyHandlingTrap = [t \in Threads |-> FALSE]
    /\ faults = 0 /\ end = ""

Handler(t) == Refault(t) \/ Enter(t) \/ HandleTrap(t) \/ Forward(t) \/ PreviousHandler(t)

Next ==
    \/ InstallSegv \/ InstallTrap \/ InstallNothing
    \/ \E t \in Threads :
          \/ EnsureFullSignalHandlers(t) \/ RunWasm(t)
          \/ Trap(t) \/ Bug(t) \/ finishWasmTrap(t)
          \/ Refault(t) \/ Enter(t) \/ HandleTrap(t) \/ Forward(t) \/ PreviousHandler(t)

\* A thread in a handler goes on.
Fairness == \A t \in Threads : WF_vars(Handler(t))

Spec == Init /\ [][Next]_vars /\ Fairness

-----------------------------------------------------------------------------
(* Correctness.                                                              *)

\* Every variable has the type the code gives it.
TypeOK ==
    /\ eager \in {"untried", "failed", "segv", "success"}
    /\ disposition \in [Signals -> {"dfl", "ign", "handler", "wasm"}]
    /\ tried \in [Threads -> BOOLEAN] /\ have \in [Threads -> BOOLEAN]
    /\ code \in [Threads -> {"native", "wasm", "trap code"}]
    /\ again \in [Threads -> Fault \cup {NoFault}]
    /\ \A t \in Threads : \A i \in DOMAIN frames[t] : frames[t][i] \in Frame
    /\ sAlreadyHandlingTrap \in [Threads -> BOOLEAN]
    /\ faults \in 0 .. MaxFaults /\ end \in {"", "assertion", "reported"} \cup Signals

InHandleTrap(t) == {i \in DOMAIN frames[t] : frames[t][i].at = "trap"}

\* A thread is in HandleTrap at most once, however often it crashes there, and it has its
\* flag set exactly then (lines 456-458, "and so we prevent recursion"): a flag that stays
\* would turn every later trap into a crash.
NoRecursion ==
    \A t \in Threads :
        /\ Cardinality(InHandleTrap(t)) <= 1
        /\ sAlreadyHandlingTrap[t] <=> InHandleTrap(t) # {}

\* A bug is never silently converted to a trap (line 450): the module's trap code is entered
\* by the handler of a trap of wasm code that no other handler of the thread is below.
OnlyTrapsTrap ==
    [][\A t \in Threads : code[t] # "trap code" /\ code'[t] = "trap code" =>
          code[t] = "wasm" /\ Len(frames[t]) = 1 /\ Top(t).kind = "trap"]_vars

\* A signal kills the process without a report only where no handler was installed before,
\* or where that handler has taken itself away: a crash, in the handler of a trap too, is
\* never lost (lines 454-458, 948-959).
NextHandlerIsCalled == end \in Signals => disposition[end] \in {"dfl", "ign"}

\* WebAssembly runs only with both handlers installed, as long as the process is not on its
\* way to crash.
HaveMeansInstalled ==
    \A t \in Threads : have[t] /\ faults = 0 => \A sig \in Signals : disposition[sig] = "wasm"

\* A trap that wasm code was expected to take is never forwarded by a thread that has not
\* crashed, and never ends the process.
TrapsAreHandled ==
    faults = 0 => end \in {"", "assertion"} /\ \A t \in Threads : \A i \in DOMAIN frames[t] :
        frames[t][i].at \in {"entry", "trap"}

\* A fault is over at some time: its instruction does not fault and get handled for ever
\* (lines 948-959).
HandlersEnd ==
    \A t \in Threads : frames[t] # <<>> ~> (frames[t] = <<>> /\ again[t] = NoFault) \/ end # ""

\* What every state keeps: a fault is a trap or goes to the next handler, once (lines
\* 436-479, 924-963, 1017-1090).
FaultsAreSorted ==
    TypeOK /\ NoRecursion /\ NextHandlerIsCalled /\ HaveMeansInstalled /\ TrapsAreHandled

=============================================================================
