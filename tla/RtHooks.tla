------------------------------ MODULE RtHooks ------------------------------
(* The library functions that rt_lib.c hooks, for a run time built with its  *)
(* hooks enabled.  A hook looks up the function it stands for, and moves the *)
(* stack of its thread, after what sends data out and before what takes data *)
(* in, if the last move was a period ago.  Handlers interrupt a hook between *)
(* any two of its steps and call hooks.  DO_RANDOMIZATION is that of the     *)
(* build: gs_rsp_runtime_rerandomize, or that of the buddy run time.         *)
EXTENDS Integers, Sequences, FiniteSets

CONSTANTS
    Threads, Main,
    Enabled,        \* build -> the hooks that are compiled in
    Period,         \* CPU_CYCLES_PER_RANDOMIZATION
    MaxTime,        \* bound on the clock
    MaxCalls,       \* bound on calls of hooks
    MaxDepth        \* bound on hooks of a thread inside each other

\* Which function the hook calls first, and then moves the stack.
Writers == {"write", "puts"}
EventHooks == {"epoll_wait", "sendto", "sendmsg", "sendfile"}
SendHooks == {"send", "writev"}
CallFirst == Writers \cup EventHooks \cup SendHooks
\* Which moves the stack first.
Askers == {"gets", "getppid", "getpid", "pthread_self"}
Readers == {"read", "recvfrom", "recvmsg", "recv"}
MoveFirst == Askers \cup Readers
Hooks == CallFirst \cup MoveFirst \cup {"fork"}

HooksAssumption ==
    /\ Main \in Threads
    /\ DOMAIN Enabled \subseteq {"gs.rsp", "buddy"}
    /\ \A b \in DOMAIN Enabled : Enabled[b] \subseteq Hooks
    /\ Period \in Nat \ {0} /\ {MaxTime, MaxCalls, MaxDepth} \subseteq Nat

VARIABLES
    build,          \* the build of the run time
    now,            \* the time stamp counter
    resolved,       \* the hooks whose static pointer is set: _write, _read ...
    inited,         \* the metadata of the main thread is there
    prepared,       \* buddy_init_rt_lib_hooker has ended
    calls,          \* thread -> its hooks, the innermost last
    is_randomizing, \* thread -> its metadata says that its stack is being moved
    cpu_cycles,     \* thread -> the clock its metadata holds
    moved,          \* thread -> the clock that its last move began with
    failed,         \* thread -> that of its last move for which no memory was found
    moves,          \* thread -> how often its stack has been moved
    count,
    crashed         \* a hook has called a NULL pointer, or has written a page that is not there
stackVars == <<is_randomizing, cpu_cycles>>
moveVars == <<moved, failed, moves>>
initVars == <<inited, prepared>>
vars == <<build, now, resolved, initVars, calls, stackVars, moveVars, count, crashed>>

\* Longer ago than any period: cpu_cycles of new metadata is 0.
LongAgo == -2 * Period

\* What a hook does next.  The places after the call of the macro are those of the move.
Looking == {"look", "real", "done"}
Deciding == {"find", "last", "cur", "test", "open", "set"}
Marked == {"clock", "stamp", "quit", "moving"}

Call == [f : Hooks, at : Looking \cup Deciding \cup Marked,
         time : Nat,        \* when it was called, and then when it has sent something
         early : BOOLEAN,   \* called before the metadata was there
         last : Int,        \* last_clocks
         cur : Nat,         \* cur_clocks
         seen : Nat]        \* the move its pointer, or its right to write, dates from
Top(t) == calls[t][Len(calls[t])]
At(t, where) == crashed = "no" /\ calls[t] # <<>> /\ Top(t).at = where
Becomes(t, c) == calls' = [calls EXCEPT ![t][Len(calls[t])] = c]

-----------------------------------------------------------------------------
(* A hook.                                                                   *)

NewCall(f) == [f |-> f, at |-> "look", time |-> now, early |-> ~inited, last |-> LongAgo,
               cur |-> 0, seen |-> 0]

\* Handlers call hooks, and so do the constructors of other libraries, before that of the run
\* time; the metadata of a thread is there before its start routine is called.
Enter(t) ==
    /\ crashed = "no" /\ count < MaxCalls /\ Len(calls[t]) < MaxDepth
    /\ t = Main \/ (inited /\ prepared)
    /\ \E f \in Enabled[build] : calls' = [calls EXCEPT ![t] = Append(@, NewCall(f))]
    /\ count' = count + 1
    /\ UNCHANGED <<build, now, resolved, initVars, stackVars, moveVars, crashed>>

\* DO_RANDOMIZATION of the buddy build reads two clocks before it calls anything.
MacroBegins == IF build = "buddy" THEN "last" ELSE "find"

BeforeTheCall(f) == IF f \in MoveFirst THEN MacroBegins ELSE "real"

\* if(!_f) _f = dlsym(RTLD_NEXT, f)
Look(t) ==
    /\ At(t, "look")
    /\ resolved' = resolved \cup {Top(t).f}
    /\ Becomes(t, [Top(t) EXCEPT !.at = BeforeTheCall(Top(t).f)])
    /\ UNCHANGED <<build, now, initVars, stackVars, moveVars, count, crashed>>

AfterTheRealCall(f) == IF f \in CallFirst THEN MacroBegins ELSE "done"

AfterReal(c) == [c EXCEPT !.at = AfterTheRealCall(c.f),
                          !.time = IF c.f \in CallFirst THEN now ELSE c.time]

\* The function itself, which may block for any time; what it sends is out now.
Real(t) ==
    /\ At(t, "real")
    /\ IF Top(t).f \in resolved
       THEN Becomes(t, AfterReal(Top(t))) /\ UNCHANGED crashed
       ELSE crashed' = "null" /\ UNCHANGED calls
    /\ UNCHANGED <<build, now, resolved, initVars, stackVars, moveVars, count>>

Return(t) ==
    /\ At(t, "done")
    /\ calls' = [calls EXCEPT ![t] = SubSeq(@, 1, Len(@) - 1)]
    /\ UNCHANGED <<build, now, resolved, initVars, stackVars, moveVars, count, crashed>>

-----------------------------------------------------------------------------
(* DO_RANDOMIZATION, read by read and write by write.                        *)

AfterTheMove(f) == IF f \in MoveFirst THEN "real" ELSE "done"

\* The macro is over.
Over(c) == [c EXCEPT !.at = AfterTheMove(c.f), !.last = LongAgo, !.cur = 0, !.seen = 0]

\* A step of the macro that writes nothing.
OnlyReads == UNCHANGED <<build, now, resolved, initVars, stackVars, moveVars, count, crashed>>

Doubled(clock, last) == clock - last >= 2 * Period
\* The buddy build compares with >, gs.rsp.c returns if <.
PeriodIsOver(clock, last) ==
    IF build = "buddy" THEN clock - last > Period ELSE clock - last >= Period

\* The buddy build: last_clocks.  Below the metadata that is not there yet are zeros.
ReadLast(t) ==
    /\ At(t, "last")
    /\ Becomes(t, [Top(t) EXCEPT !.at = "cur", !.last = cpu_cycles[t]])
    /\ OnlyReads

\* cur_clocks, and whether it is worth calling au_edu_unsw_randomize.
ReadCur(t) ==
    /\ At(t, "cur")
    /\ Becomes(t, IF PeriodIsOver(now, Top(t).last)
                  THEN [Top(t) EXCEPT !.at = "test", !.last = LongAgo, !.cur = now]
                  ELSE Over(Top(t)))
    /\ OnlyReads

\* gs.rsp.c: pMetadata points to where the metadata is now.
Find(t) ==
    /\ At(t, "find")
    /\ Becomes(t, IF inited THEN [Top(t) EXCEPT !.at = "test", !.seen = moves[t]]
                            ELSE Over(Top(t)))
    /\ OnlyReads

\* A hook in a handler has moved the metadata since, or has made its page read-only.
Faults(t) ==
    /\ At(t, "set") \/ (build # "buddy" /\ At(t, "test"))
    /\ Top(t).seen # moves[t]
    /\ crashed' = "gone"
    /\ UNCHANGED <<build, now, resolved, initVars, calls, stackVars, moveVars, count>>

\* state and is_randomizing, in both copies of the metadata or in the only one.
Test(t) ==
    /\ At(t, "test") /\ (build # "buddy" => Top(t).seen = moves[t])
    /\ Becomes(t, IF inited /\ ~is_randomizing[t]
                  THEN [Top(t) EXCEPT !.at = IF build = "buddy" THEN "open" ELSE "set"]
                  ELSE Over(Top(t)))
    /\ OnlyReads

\* The buddy build makes the page of the metadata writable.
Open(t) ==
    /\ At(t, "open")
    /\ Becomes(t, [Top(t) EXCEPT !.at = "set", !.seen = moves[t]])
    /\ OnlyReads

Set(t) ==
    /\ At(t, "set") /\ Top(t).seen = moves[t]
    /\ is_randomizing' = [is_randomizing EXCEPT ![t] = TRUE]
    /\ Becomes(t, [Top(t) EXCEPT !.at = IF build = "buddy" THEN "stamp" ELSE "clock",
                                  !.seen = 0])
    /\ UNCHANGED <<build, now, resolved, initVars, cpu_cycles, moveVars, count, crashed>>

\* gs.rsp.c reads both clocks only now, and compares them.
Clock(t) ==
    /\ At(t, "clock")
    /\ Becomes(t, IF PeriodIsOver(now, cpu_cycles[t])
                  THEN [Top(t) EXCEPT !.at = "stamp", !.cur = now]
                  ELSE [Top(t) EXCEPT !.at = "quit"])
    /\ OnlyReads

ClearMark(t) == is_randomizing' = [is_randomizing EXCEPT ![t] = FALSE]

\* The last move is less than a period ago.
Quit(t) ==
    /\ At(t, "quit")
    /\ ClearMark(t)
    /\ Becomes(t, Over(Top(t)))
    /\ UNCHANGED <<build, now, resolved, initVars, cpu_cycles, moveVars, count, crashed>>

Stamp(t) ==
    /\ At(t, "stamp")
    /\ cpu_cycles' = [cpu_cycles EXCEPT ![t] = Top(t).cur]
    /\ Becomes(t, [Top(t) EXCEPT !.at = "moving", !.cur = 0])
    /\ UNCHANGED <<build, now, resolved, initVars, is_randomizing, moveVars, count, crashed>>

\* The stack is somewhere else, or its slots hold another number.
Moved(t) ==
    /\ At(t, "moving")
    /\ ClearMark(t)
    /\ moved' = [moved EXCEPT ![t] = cpu_cycles[t]]
    /\ moves' = [moves EXCEPT ![t] = @ + 1]
    /\ Becomes(t, Over(Top(t)))
    /\ UNCHANGED <<build, now, resolved, initVars, cpu_cycles, failed, count, crashed>>

\* gs.rsp.c: no memory was found, or not where gs reaches, or mremap failed.  The stack is
\* where it was, and the next period has begun all the same.
Failed(t) ==
    /\ build # "buddy" /\ At(t, "moving")
    /\ ClearMark(t)
    /\ failed' = [failed EXCEPT ![t] = cpu_cycles[t]]
    /\ Becomes(t, Over(Top(t)))
    /\ UNCHANGED <<build, now, resolved, initVars, cpu_cycles, moved, moves, count, crashed>>

-----------------------------------------------------------------------------

\* The constructor, on the main thread, looks up every function, before it makes the metadata
\* in the buddy build and afterwards in the other.
buddy_init_rt_lib_hooker ==
    /\ crashed = "no" /\ calls[Main] = <<>>
    /\ ~prepared /\ (inited <=> build # "buddy")
    /\ resolved' = resolved \cup Enabled[build]
    /\ prepared' = TRUE
    /\ UNCHANGED <<build, now, inited, calls, stackVars, moveVars, count, crashed>>

InitMain ==
    /\ crashed = "no" /\ calls[Main] = <<>>
    /\ ~inited /\ (prepared <=> build = "buddy")
    /\ inited' = TRUE
    /\ UNCHANGED <<build, now, resolved, prepared, calls, stackVars, moveVars, count, crashed>>

Tick ==
    /\ now < MaxTime
    /\ now' = now + 1
    /\ UNCHANGED <<build, resolved, initVars, calls, stackVars, moveVars, count, crashed>>

Init ==
    /\ build \in DOMAIN Enabled
    /\ now = 0 /\ resolved = {} /\ inited = FALSE /\ prepared = FALSE
    /\ calls = [t \in Threads |-> <<>>]
    /\ is_randomizing = [t \in Threads |-> FALSE]
    /\ cpu_cycles = [t \in Threads |-> LongAgo]
    /\ moved = cpu_cycles /\ failed = cpu_cycles /\ moves = [t \in Threads |-> 0]
    /\ count = 0 /\ crashed = "no"

Hook(t) == Enter(t) \/ Look(t) \/ Real(t) \/ Return(t)
Macro(t) ==
    \/ ReadLast(t) \/ ReadCur(t) \/ Find(t) \/ Test(t) \/ Open(t) \/ Set(t) \/ Faults(t)
    \/ Clock(t) \/ Quit(t) \/ Stamp(t) \/ Moved(t) \/ Failed(t)

Next ==
    \/ \E t \in Threads : Hook(t) \/ Macro(t)
    \/ buddy_init_rt_lib_hooker \/ InitMain \/ Tick

Spec == Init /\ [][Next]_vars

-----------------------------------------------------------------------------
(* Correctness.                                                              *)

\* Every variable has the type the code gives it.
TypeOK ==
    /\ build \in DOMAIN Enabled
    /\ now \in 0 .. MaxTime /\ resolved \subseteq Hooks
    /\ inited \in BOOLEAN /\ prepared \in BOOLEAN /\ crashed \in {"no", "null", "gone"}
    /\ \A t \in Threads : /\ Len(calls[t]) <= MaxDepth
                          /\ \A i \in DOMAIN calls[t] : calls[t][i] \in Call
    /\ is_randomizing \in [Threads -> BOOLEAN]
    /\ {cpu_cycles, moved, failed} \subseteq [Threads -> {LongAgo} \cup 0 .. MaxTime]
    /\ moves \in [Threads -> Nat]
    /\ count \in 0 .. MaxCalls

\* No hook calls a NULL pointer, whoever calls it first: a thread, a handler, the constructor
\* of another library before that of the run time (lines 264-267 and their like).
NeverNull == crashed # "null"

\* A move that began at a clock is less than a period older than a time, or not older; the
\* buddy build lets it be a whole period.
Within(clock, time) ==
    IF build = "buddy" THEN time - clock <= Period ELSE time - clock < Period

\* Hook i interrupts another one of its thread at one of some places.
Interrupts(t, i, places) == \E j \in 1 .. i - 1 : calls[t][j].at \in places

\* What happened at a time is followed by a move, or comes less than a period after one, which
\* has been made or for which no memory was found; a hook that the handler interrupts is in its
\* move or still to decide on it; or that hook has decided not to move and has its mark still
\* set (lines 539-540 of gs.rsp.c), so that this one finds the mark and leaves.
Answered(t, time) ==
    \/ Within(moved[t], time) \/ Within(failed[t], time)
    \/ Interrupts(t, Len(calls[t]), {"clock", "stamp", "moving"})
    \/ Interrupts(t, Len(calls[t]), {"quit"})

\* When a hook that sends returns, what it sent is answered.
SentThenMoved ==
    \A t \in Threads :
        At(t, "done") /\ Top(t).f \in CallFirst /\ ~Top(t).early => Answered(t, Top(t).time)

\* When a hook asks for data, the call of it is answered, however long the data that was sent
\* before has been known.
MovedThenReceived ==
    \A t \in Threads :
        At(t, "real") /\ Top(t).f \in MoveFirst /\ ~Top(t).early => Answered(t, Top(t).time)

\* A stack is not moved by a hook inside the move of another one, and its metadata says that
\* it is being moved exactly as long as a hook has it marked.
OneMove ==
    \A t \in Threads :
        LET marked == {i \in DOMAIN calls[t] : calls[t][i].at \in Marked}
        IN  /\ Cardinality(marked) <= 1
            /\ is_randomizing[t] <=> marked # {}

\* What the hooks of a build keep, whoever calls them and wherever handlers interrupt them
\* (lines 96-117, 258-746).
HooksInOrder == TypeOK /\ NeverNull /\ SentThenMoved /\ MovedThenReceived /\ OneMove
=============================================================================
