------------------------------ MODULE WasmMach ------------------------------
(* The traps of WebAssembly on macOS, WasmSignalHandlers.cpp: a thread of a  *)
(* JSContext that faults is suspended by the kernel, which sends a message   *)
(* to sMachDebugPort; one thread handles the messages, writes the registers  *)
(* of the suspended thread and replies.  Without a thread port, or when the  *)
(* reply is KERN_FAILURE, the exception goes to the port of the process,     *)
(* where the crash is reported.                                              *)
EXTENDS Integers, Sequences, FiniteSets

CONSTANTS
    Threads,        \* threads with a JSContext
    MaxBugs         \* bound: how many faults that are bugs happen

MachAssumption == IsFiniteSet(Threads) /\ MaxBugs \in Nat

VARIABLES
    port, server,   \* sMachDebugPort is there; MachExceptionHandlerThread runs
    lazy,           \* sLazyInstallState
    tried, have,    \* cx -> wasmTriedToInstallSignalHandlers, wasmHaveSignalHandlers
    threadPort,     \* the threads whose exceptions go to sMachDebugPort
    code,           \* thread -> what it runs
    fault,          \* thread -> the fault the kernel has suspended it for
    started,        \* the threads of an activation with startWasmTrap
    written,        \* thread -> the parts of its state written since it was suspended
    queue,          \* the messages of sMachDebugPort
    at, request,    \* where the handler thread is, and the thread its message is about
    bugs,
    end             \* how the process has ended
installVars == <<port, server, lazy, tried, have, threadPort>>
threadVars == <<code, fault, started, written>>
serverVars == <<at, request>>
vars == <<installVars, threadVars, serverVars, queue, bugs, end>>

Running == end = ""
Suspended(t) == fault[t] # "none"

-----------------------------------------------------------------------------
(* Installation.                                                             *)

IgnoreThread(created) == TRUE
\* handlerThread.init, whose result is looked at.
CheckThread(created) == created

\* EnsureLazyProcessSignalHandlers, under its lock: the port, its send right and the thread.
EnsureLazyProcessSignalHandlers ==
    /\ Running /\ lazy = "untried"
    /\ \E allocated, right, created \in BOOLEAN :
          /\ port' = allocated
          /\ server' = (allocated /\ right /\ created)
          /\ lazy' = IF allocated /\ right /\ CheckThread(created) THEN "success" ELSE "failed"
    /\ UNCHANGED <<tried, have, threadPort, threadVars, serverVars, queue, bugs, end>>

\* EnsureFullSignalHandlers, where thread_set_exception_ports may fail.
EnsureFullSignalHandlers(t) ==
    /\ Running /\ ~tried[t] /\ lazy # "untried" /\ ~Suspended(t)
    /\ tried' = [tried EXCEPT ![t] = TRUE]
    /\ \E set \in BOOLEAN :
          LET ready == lazy = "success" /\ set
          IN  /\ threadPort' = IF ready THEN threadPort \cup {t} ELSE threadPort
              /\ have' = [have EXCEPT ![t] = ready]
    /\ UNCHANGED <<port, server, lazy, threadVars, serverVars, queue, bugs, end>>

RunWasm(t) ==
    /\ Running /\ have[t] /\ code[t] = "native" /\ ~Suspended(t)
    /\ code' = [code EXCEPT ![t] = "wasm"]
    /\ UNCHANGED <<installVars, fault, started, written, serverVars, queue, bugs, end>>

\* The trap code unwinds, and finishWasmTrap is called.
finishWasmTrap(t) ==
    /\ Running /\ code[t] = "trap code" /\ ~Suspended(t)
    /\ code' = [code EXCEPT ![t] = "native"]
    /\ started' = started \ {t}
    /\ UNCHANGED <<installVars, fault, written, serverVars, queue, bugs, end>>

\* EXC_BAD_ACCESS or EXC_BAD_INSTRUCTION, which alone are sent to the port of a thread.
Raise(t, kind) ==
    IF t \in threadPort
    THEN /\ fault' = [fault EXCEPT ![t] = kind]
         /\ written' = [written EXCEPT ![t] = {}]
         /\ queue' = Append(queue, t)
         /\ UNCHANGED end
    ELSE end' = "reported" /\ UNCHANGED <<fault, written, queue>>

Trap(t) ==
    /\ Running /\ code[t] = "wasm" /\ ~Suspended(t)
    /\ Raise(t, "trap")
    /\ UNCHANGED <<installVars, code, started, serverVars, bugs>>

Bug(t) ==
    /\ Running /\ ~Suspended(t) /\ bugs < MaxBugs
    /\ Raise(t, "bug")
    /\ bugs' = bugs + 1
    /\ UNCHANGED <<installVars, code, started, serverVars>>

-----------------------------------------------------------------------------
(* MachExceptionHandlerThread.                                               *)

WaitForTheNext == at' = "receive" /\ UNCHANGED end
\* Rather than hanging the faulting thread, crash.
CrashTheProcess == end' = "assertion" /\ UNCHANGED at

\* mach_msg fails, or the message is none of EXCEPTION_MSG_ID.
ReceiveFails ==
    /\ Running /\ server /\ at = "receive" /\ queue # <<>>
    /\ queue' = Tail(queue)
    /\ CrashTheProcess
    /\ UNCHANGED <<installVars, threadVars, request, bugs>>

Receive ==
    /\ Running /\ server /\ at = "receive" /\ queue # <<>>
    /\ request' = Head(queue) /\ queue' = Tail(queue) /\ at' = "get state"
    /\ UNCHANGED <<installVars, threadVars, bugs, end>>

AnyTrap(t) == TRUE
\* A pc in the code of a module, where lookupTrap finds a trap.
ExpectedTrap(t) == fault[t] = "trap"

\* HandleMachException up to HandleTrap: both thread_get_state may fail.
GetState ==
    /\ Running /\ at = "get state"
    /\ at' \in {"handle", "failure"}
    /\ UNCHANGED <<installVars, threadVars, request, queue, bugs, end>>

\* HandleTrap, for which the flag of the handler thread is set; a crash in it goes to the
\* port of the process.
HandleTrap ==
    /\ Running /\ at = "handle"
    /\ \/ /\ IF ExpectedTrap(request)
             THEN started' = started \cup {request} /\ at' = "set float"
             ELSE at' = "failure" /\ UNCHANGED started
          /\ UNCHANGED <<bugs, end>>
       \/ /\ bugs < MaxBugs /\ bugs' = bugs + 1
          /\ end' = "reported"
          /\ UNCHANGED <<started, at>>
    /\ UNCHANGED <<installVars, code, fault, written, request, queue>>

ReturnCode(from) == "KERN_FAILURE"
IgnoreFailure(from) == IF from = "set float" THEN "set thread" ELSE "success"
\* Where HandleMachException goes on when thread_set_state fails.
ReturnFalse(from) == "failure"

SetState(part, from, to) ==
    /\ Running /\ at = from
    /\ \/ /\ written' = [written EXCEPT ![request] = @ \cup {part}]
          /\ at' = to
       \/ at' = ReturnFalse(from) /\ UNCHANGED written
    /\ UNCHANGED <<installVars, code, fault, started, request, queue, bugs, end>>

SetFloatState == SetState("float", "set float", "set thread")
SetThreadState == SetState("thread", "set thread", "success")

KeepSilent == at' = "receive" /\ UNCHANGED <<fault, end>>
\* KERN_FAILURE: the kernel continues at the level of the process.
ReplyFailure == end' = "reported" /\ UNCHANGED <<fault, at>>

\* The reply; the kernel resumes the thread with the state it has now.
Reply ==
    /\ Running
    /\ \/ /\ at = "success"
          /\ fault' = [fault EXCEPT ![request] = "none"]
          /\ at' = "receive"
          /\ code' = IF "thread" \in written[request]
                     THEN [code EXCEPT ![request] = "trap code"] ELSE code
          /\ UNCHANGED end
       \/ at = "failure" /\ ReplyFailure /\ UNCHANGED code
    /\ UNCHANGED <<installVars, started, written, request, queue, bugs>>

-----------------------------------------------------------------------------

Init ==
    /\ port = FALSE /\ server = FALSE /\ lazy = "untried"
    /\ tried = [t \in Threads |-> FALSE] /\ have = [t \in Threads |-> FALSE]
    /\ threadPort = {}
    /\ code = [t \in Threads |-> "native"] /\ fault = [t \in Threads |-> "none"]
    /\ started = {} /\ written = [t \in Threads |-> {}]
    /\ queue = <<>> /\ at = "receive" /\ request \in Threads
    /\ bugs = 0 /\ end = ""

HandlerThread ==
    ReceiveFails \/ Receive \/ GetState \/ HandleTrap \/ SetFloatState \/ SetThreadState \/ Reply

MachNext ==
    \/ EnsureLazyProcessSignalHandlers
    \/ \E t \in Threads : \/ EnsureFullSignalHandlers(t) \/ RunWasm(t)
                          \/ finishWasmTrap(t) \/ Trap(t) \/ Bug(t)
    \/ ReceiveFails \/ Receive \/ GetState \/ HandleTrap
    \/ SetFloatState \/ SetThreadState \/ Reply

\* The handler thread is scheduled, and its calls return.
Fairness == WF_vars(HandlerThread)

Spec == Init /\ [][MachNext]_vars /\ Fairness

-----------------------------------------------------------------------------
(* Correctness.                                                              *)

\* Every variable has the type the code gives it.
TypeOK ==
    /\ port \in BOOLEAN /\ server \in BOOLEAN /\ lazy \in {"untried", "failed", "success"}
    /\ tried \in [Threads -> BOOLEAN] /\ have \in [Threads -> BOOLEAN]
    /\ threadPort \subseteq Threads /\ started \subseteq Threads
    /\ code \in [Threads -> {"native", "wasm", "trap code"}]
    /\ fault \in [Threads -> {"none", "trap", "bug"}]
    /\ written \in [Threads -> SUBSET {"float", "thread"}]
    /\ queue \in Seq(Threads) /\ request \in Threads
    /\ at \in {"receive", "get state", "handle", "set float", "set thread", "success", "failure"}
    /\ bugs \in 0 .. MaxBugs /\ end \in {"", "assertion", "reported"}

\* Every suspended thread has exactly one message, unread or at the handler thread, so that
\* it gets one reply and never two (lines 888-910).
OneReplyEach ==
    end = "" => \A t \in Threads :
        Cardinality({i \in DOMAIN queue : queue[i] = t})
            + (IF at # "receive" /\ request = t THEN 1 ELSE 0)
        = (IF Suspended(t) THEN 1 ELSE 0)

\* A thread is resumed only with all its registers written and the trap recorded in its
\* activation, whichever of the calls in between has failed; one that runs wasm code has no
\* trap recorded (lines 727-732, 847-859).
ResumedAsAWhole ==
    /\ \A t \in Threads : ~Suspended(t) => (t \in started <=> code[t] = "trap code")
    /\ \A t \in Threads : code[t] = "trap code" /\ ~Suspended(t) => written[t] = {"float", "thread"}

\* What goes to the debug port is read: a thread sends its exceptions there only when the
\* handler thread runs (lines 1099-1106, 1126-1147).
PortIsServed ==
    /\ threadPort # {} => port /\ server
    /\ \A t \in Threads : have[t] => t \in threadPort

\* A real bug is never resumed as a trap; the crash is reported instead (lines 450-451).
BugsAreReported == \A t \in Threads : fault[t] = "bug" => t \notin started \/ code[t] = "trap code"

\* The kernel never waits for ever: a suspended thread is resumed or the process ends, on
\* every path of the handler thread (lines 874-875).
NeverHangs == \A t \in Threads : Suspended(t) ~> ~Suspended(t) \/ end # ""

\* What every state keeps: the kernel gets one true answer for each fault (lines 688-910).
FaultsAreSorted ==
    TypeOK /\ OneReplyEach /\ ResumedAsAWhole /\ PortIsServed /\ BugsAreReported

=============================================================================
