--------------------------- MODULE SandboxFilter ---------------------------
(* The sandbox of Firefox with the run time in it, SandboxFilterUtil.cpp:    *)
(* what the filter answers to a system call, under any policy of a subclass, *)
(* and a thread whose stack gs.rsp.c moves while the filter is installed.    *)
EXTENDS Integers

CONSTANTS
    SYS_SENDMMSG,   \* the last call of socketcall; the first is SYS_SOCKET = 1
    SYS_RECVFROM, SYS_RECVMSG,
    DIPC,           \* the last call of ipc; the first is SEMOP = 1
    Versions,       \* what the upper half of callAndVersion may be
    Systems         \* what the headers define, and whether the kernel has socket calls

\* Only a system with socketcall may lack the separate calls.
FilterAssumption ==
    /\ {SYS_SENDMMSG, DIPC} \subseteq Nat \ {0} /\ Versions \subseteq Nat
    /\ {SYS_RECVFROM, SYS_RECVMSG} \subseteq 1 .. SYS_SENDMMSG
    /\ Systems \subseteq [socketcall : BOOLEAN, socket : BOOLEAN, kernel : BOOLEAN]
    /\ \A s \in Systems : ~s.socketcall => s.socket /\ s.kernel

SocketCalls == 1 .. SYS_SENDMMSG
IpcCalls == 1 .. DIPC
Verdicts == {"None", "Allow", "Error"}

VARIABLES
    system,
    sockets, ipcs,  \* what EvaluateSocketCall and EvaluateIpcCall of the subclass return
    move,           \* the system call the move of the stack makes next
    died            \* the system call that the thread has not survived
vars == <<system, sockets, ipcs, move, died>>
policyVars == <<system, sockets, ipcs>>

NoCall == [nr |-> "none", arg |-> 0, version |-> 0]
Plain(nr) == [nr |-> nr, arg |-> 0, version |-> 0]
SocketSyscall(n) == [nr |-> "socket", arg |-> n, version |-> 0]
SysVSyscall(n) == [nr |-> "sysv", arg |-> n, version |-> 0]
ViaSocketcall(n) == [nr |-> "socketcall", arg |-> n, version |-> 0]
ViaIpc(n, v) == [nr |-> "ipc", arg |-> n, version |-> v]

\* System calls a program can make; a call number may be any.
Syscalls ==
    {Plain(nr) : nr \in {"arch_prctl", "mmap", "mremap", "munmap", "other"}}
        \cup (IF system.socket THEN {SocketSyscall(n) : n \in SocketCalls} ELSE {})
        \cup (IF system.socketcall
              THEN {ViaSocketcall(n) : n \in 0 .. SYS_SENDMMSG + 1}
                       \cup {ViaIpc(n, v) : n \in 0 .. DIPC + 1, v \in Versions}
              ELSE {SysVSyscall(n) : n \in IpcCalls})

-----------------------------------------------------------------------------
(* SandboxPolicyBase.                                                        *)

\* Without mremap and arch_prctl, which are new to Firefox.
MemoryIsAllowed == {Plain(nr) : nr \in {"mmap", "munmap"}}
\* What is allowed before any policy is asked.
AllowedForRunTime ==
    {Plain(nr) : nr \in {"arch_prctl", "mmap", "mremap", "munmap"}}
        \cup {SocketSyscall(SYS_RECVFROM), SocketSyscall(SYS_RECVMSG)}

AllowByDefault(maybe) == IF maybe = "None" THEN "Allow" ELSE maybe
ValueOr(maybe) == IF maybe = "None" THEN "InvalidSyscall" ELSE maybe

AllButTheLast == 1 .. SYS_SENDMMSG - 1
\* for (int i = SYS_SOCKET; i <= SYS_SENDMMSG; ++i)
SocketCases == 1 .. SYS_SENDMMSG

WholeWord(s) == s.arg + 65536 * s.version
\* callAndVersion & 0xFFFF
CallOf(s) == s.arg

\* EvaluateSyscall: a case for every call with an answer, and the default otherwise.
EvaluateSyscall(s) ==
    CASE s \in AllowedForRunTime -> "Allow"
      [] s \notin AllowedForRunTime /\ s.nr = "socketcall" /\ system.socketcall ->
            IF s.arg \in SocketCases THEN ValueOr(sockets[s.arg]) ELSE "InvalidSyscall"
      [] s \notin AllowedForRunTime /\ s.nr = "ipc" /\ system.socketcall ->
            IF CallOf(s) \in IpcCalls THEN ValueOr(ipcs[CallOf(s)]) ELSE "InvalidSyscall"
      [] s \notin AllowedForRunTime /\ s.nr = "socket" /\ system.socket -> ValueOr(sockets[s.arg])
      [] s \notin AllowedForRunTime /\ s.nr = "sysv" /\ ~system.socketcall -> ValueOr(ipcs[s.arg])
      [] OTHER -> "InvalidSyscall"

DefinedByHeaders(sys) == sys.socket
\* Tries a socket where both ways are defined; no error but ENOSYS is expected.
HasSeparateSocketCalls(sys) == sys.socket /\ (sys.socketcall => sys.kernel)

-----------------------------------------------------------------------------
(* A thread in the sandbox.                                                  *)

\* Anything but Allow is an error or the end of the process.
Make(s) == died' = IF EvaluateSyscall(s) = "Allow" THEN NoCall ELSE s

\* gs_rsp_runtime_rerandomize: memory for the stack, then the move and gs, or munmap when one
\* of them is not possible.
Then(nr) ==
    CASE nr = "mmap" -> {"mremap", "munmap", "none"}
      [] nr = "mremap" -> {"arch_prctl", "munmap"}
      [] nr = "arch_prctl" -> {"none", "munmap"}
      [] OTHER -> {"none"}

BeginMove ==
    /\ died = NoCall /\ move = "none"
    /\ move' = "mmap"
    /\ UNCHANGED <<policyVars, died>>

StepOfMove ==
    /\ died = NoCall /\ move # "none"
    /\ Make(Plain(move))
    /\ move' \in Then(move)
    /\ UNCHANGED policyVars

\* The program itself makes a system call.
OtherCall ==
    /\ died = NoCall /\ move = "none"
    /\ \E s \in Syscalls : Make(s)
    /\ UNCHANGED <<policyVars, move>>

Init ==
    /\ system \in Systems
    /\ sockets \in [SocketCalls -> Verdicts] /\ ipcs \in [IpcCalls -> Verdicts]
    /\ move = "none" /\ died = NoCall

Next == BeginMove \/ StepOfMove \/ OtherCall

Spec == Init /\ [][Next]_vars

-----------------------------------------------------------------------------
(* Correctness.                                                              *)

\* No policy stops a move of the stack: each of its system calls is let through (lines 40-47).
MovesAreAllowed == died \notin {Plain(nr) : nr \in {"arch_prctl", "mmap", "mremap", "munmap"}}

\* Where a socket call can be made in two ways the answer is the same, but for the two calls
\* that are let through as system calls only; an IPC call gets the same answer from every
\* version and on every system (lines 50-76, 80-108 and 110-129).
SameAnswer ==
    /\ system.socket /\ system.socketcall =>
          \A n \in SocketCalls \ {SYS_RECVFROM, SYS_RECVMSG} :
             EvaluateSyscall(ViaSocketcall(n)) = EvaluateSyscall(SocketSyscall(n))
    /\ \A s \in Syscalls : s.nr \in {"ipc", "sysv"} /\ s.arg \in IpcCalls =>
          EvaluateSyscall(s) = ValueOr(ipcs[s.arg])

\* The change for the run time opens nothing else: a call that is not one of the six is
\* allowed only by the policy.
NothingElseIsOpened ==
    \A s \in Syscalls \ AllowedForRunTime :
        EvaluateSyscall(s) = "Allow" =>
            \/ s.nr \in {"socket", "socketcall"} /\ s.arg \in SocketCalls /\ sockets[s.arg] = "Allow"
            \/ s.nr \in {"sysv", "ipc"} /\ s.arg \in IpcCalls /\ ipcs[s.arg] = "Allow"

\* A policy that is told to use the separate calls runs on a kernel that has them, and one
\* that is not has socketcall (lines 136-153).
SeparateCallsExist ==
    IF HasSeparateSocketCalls(system) THEN system.kernel ELSE system.socketcall

\* What every policy keeps (lines 31-153).
FilterSafe == MovesAreAllowed /\ SameAnswer /\ NothingElseIsOpened /\ SeparateCallsExist

=============================================================================
