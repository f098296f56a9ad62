------------------------- MODULE ThreadCreateProofs -------------------------
(* For every number of threads, attributes and objects: a new thread runs    *)
(* what its creator asked for, on a stack of the right size, and every object *)
(* has one owner.  For every number of threads, hooks and handlers: a hook    *)
(* finds its function, and moves the stack when it must.                      *)
EXTENDS MCLibraries, Sequences, FiniteSetTheorems, TLAPS

NullIsOther == /\ NULL \notin Attrs /\ NULL \notin Routines /\ NULL \notin Cells
               /\ BUDDY_STACK_SIZE \in Sizes

LEMMA Constants == NullIsOther
  BY CreateAssumption DEF NullIsOther

LEMMA InitInv == ASSUME Init PROVE IInv
<1>1. TypeOK
  BY Constants DEF Init, TypeOK, CallType, ThreadType, NoCall, NoThread, NullIsOther
<1>2. \A c \in Creators : call[c].at = "none" /\ call[c].cell = NULL
  BY DEF Init, NoCall
<1>3. \A t \in NewThreads : thread[t].at = "none" /\ thread[t].cell = NULL
  BY DEF Init, NoThread
<1>4. QED
  BY <1>1, <1>2, <1>3 DEF IInv, OneOwner, HandedOver, SizeStays, StackSizeIsSet, ThreadAt

LEMMA CallInv == ASSUME IInv, NEW c \in Creators, Call(c) PROVE IInv'
<1> USE Constants DEF NullIsOther
<1>1. TypeOK'
  BY DEF IInv, TypeOK, CallType, ThreadType, HandedOver, Call, NoCall, CallAt, ThreadAt
<1>2. OneOwner'
  BY DEF IInv, TypeOK, CallType, ThreadType, OneOwner, HandedOver, Call, NoCall, CallAt, ThreadAt
<1>3. HandedOver'
  BY DEF IInv, TypeOK, CallType, ThreadType, OneOwner, HandedOver, Call, NoCall, CallAt, ThreadAt
<1>4. SizeStays'
  BY DEF IInv, TypeOK, CallType, ThreadType, SizeStays, HandedOver, Call, NoCall, CallAt, ThreadAt
<1>5. StackSizeIsSet'
  BY DEF IInv, TypeOK, CallType, ThreadType, SizeStays, StackSizeIsSet, HandedOver, Call, NoCall, CallAt, ThreadAt
<1>6. QED
  BY <1>1, <1>2, <1>3, <1>4, <1>5 DEF IInv

LEMMA SetStackSizeInv == ASSUME IInv, NEW c \in Creators, SetStackSize(c) PROVE IInv'
<1> USE Constants DEF NullIsOther
<1>1. TypeOK'
  BY DEF IInv, TypeOK, CallType, ThreadType, HandedOver, SetStackSize, StackSize, CallAt, ThreadAt
<1>2. OneOwner'
  BY DEF IInv, TypeOK, CallType, ThreadType, OneOwner, HandedOver, SetStackSize, StackSize, CallAt, ThreadAt
<1>3. HandedOver'
  BY DEF IInv, TypeOK, CallType, ThreadType, OneOwner, HandedOver, SetStackSize, StackSize, CallAt, ThreadAt
<1>4. SizeStays'
  BY DEF IInv, TypeOK, CallType, ThreadType, SizeStays, HandedOver, SetStackSize, StackSize, CallAt, ThreadAt
<1>5. StackSizeIsSet'
  BY DEF IInv, TypeOK, CallType, ThreadType, SizeStays, StackSizeIsSet, HandedOver, SetStackSize, StackSize, CallAt, ThreadAt
<1>6. QED
  BY <1>1, <1>2, <1>3, <1>4, <1>5 DEF IInv

LEMMA MallocInv == ASSUME IInv, NEW c \in Creators, Malloc(c) PROVE IInv'
<1> USE Constants DEF NullIsOther
<1>1. TypeOK'
  BY SMTT(30) DEF IInv, TypeOK, CallType, ThreadType, HandedOver, Malloc, CallAt, ThreadAt
<1>2. OneOwner'
  BY DEF IInv, TypeOK, CallType, ThreadType, OneOwner, HandedOver, Malloc, CallAt, ThreadAt
<1>3. HandedOver'
  BY DEF IInv, TypeOK, CallType, ThreadType, OneOwner, HandedOver, Malloc, CallAt, ThreadAt
<1>4. SizeStays'
  BY DEF IInv, TypeOK, CallType, ThreadType, SizeStays, HandedOver, Malloc, CallAt, ThreadAt
<1>5. StackSizeIsSet'
  BY DEF IInv, TypeOK, CallType, ThreadType, SizeStays, StackSizeIsSet, HandedOver, Malloc, CallAt, ThreadAt
<1>6. QED
  BY <1>1, <1>2, <1>3, <1>4, <1>5 DEF IInv

LEMMA CreateInv == ASSUME IInv, NEW c \in Creators, Create(c) PROVE IInv'
<1> USE Constants DEF NullIsOther
<1>1. TypeOK'
  BY DEF IInv, TypeOK, CallType, ThreadType, HandedOver, Create, NoCall, SizeOf, StackSize, CallAt, ThreadAt
<1>2. OneOwner'
  <2>1. \A d \in Creators : call'[d].cell = IF d = c THEN NULL ELSE call[d].cell
    BY DEF IInv, TypeOK, Create, NoCall
  <2>2. heap' = heap
    BY DEF Create
  <2>3. CASE UNCHANGED thread
    BY <2>1, <2>2, <2>3 DEF IInv, OneOwner
  <2>4. ASSUME NEW t \in NewThreads, NEW r \in ThreadType,
               r.cell \in {call[c].cell, NULL}, thread' = [thread EXCEPT ![t] = r]
        PROVE  OneOwner'
    <3>1. \A u \in NewThreads : thread'[u].cell = IF u = t THEN r.cell ELSE thread[u].cell
      BY <2>4 DEF IInv, TypeOK
    <3>2. QED
      BY <2>1, <2>2, <2>4, <3>1 DEF IInv, OneOwner
  <2>5. CASE library = "init.c"
    <3>1. UNCHANGED thread \/ \E t \in NewThreads : thread' = [thread EXCEPT ![t] =
              [at |-> "copy", routine |-> NULL, cell |-> call[c].cell, stack |-> SizeOf(c)]]
      BY <2>5 DEF Create
    <3>2. [at |-> "copy", routine |-> NULL, cell |-> call[c].cell, stack |-> SizeOf(c)] \in ThreadType
      BY DEF IInv, TypeOK, CallType, ThreadType, SizeOf, StackSize
    <3>3. QED
      BY <2>3, <2>4, <3>1, <3>2
  <2>6. CASE library # "init.c"
    <3>1. UNCHANGED thread \/ \E t \in NewThreads : thread' = [thread EXCEPT ![t] =
              [at |-> "run", routine |-> call[c].routine, cell |-> NULL, stack |-> SizeOf(c)]]
      BY <2>6 DEF Create
    <3>2. [at |-> "run", routine |-> call[c].routine, cell |-> NULL, stack |-> SizeOf(c)] \in ThreadType
      BY DEF IInv, TypeOK, CallType, ThreadType, SizeOf, StackSize
    <3>3. QED
      BY <2>3, <2>4, <3>1, <3>2
  <2>7. QED
    BY <2>5, <2>6
<1>3. HandedOver'
  BY DEF IInv, TypeOK, CallType, ThreadType, OneOwner, HandedOver, Create, NoCall, SizeOf, StackSize, CallAt, ThreadAt
<1>4. SizeStays'
  BY DEF IInv, TypeOK, CallType, ThreadType, SizeStays, HandedOver, Create, NoCall, SizeOf, StackSize, CallAt, ThreadAt
<1>5. StackSizeIsSet'
  BY DEF IInv, TypeOK, CallType, ThreadType, SizeStays, StackSizeIsSet, HandedOver, Create, NoCall, SizeOf, StackSize, CallAt, ThreadAt
<1>6. QED
  BY <1>1, <1>2, <1>3, <1>4, <1>5 DEF IInv

LEMMA SetByUserInv == ASSUME IInv, SetByUser PROVE IInv'
<1> USE Constants DEF NullIsOther
<1>1. TypeOK'
  BY DEF IInv, TypeOK, CallType, ThreadType, HandedOver, SetByUser, CallAt, ThreadAt
<1>2. OneOwner'
  BY DEF IInv, TypeOK, CallType, ThreadType, OneOwner, HandedOver, SetByUser, CallAt, ThreadAt
<1>3. HandedOver'
  BY DEF IInv, TypeOK, CallType, ThreadType, OneOwner, HandedOver, SetByUser, CallAt, ThreadAt
<1>4. SizeStays'
  BY DEF IInv, TypeOK, CallType, ThreadType, SizeStays, HandedOver, SetByUser, CallAt, ThreadAt
<1>5. StackSizeIsSet'
  BY DEF IInv, TypeOK, CallType, ThreadType, SizeStays, StackSizeIsSet, HandedOver, SetByUser, CallAt, ThreadAt
<1>6. QED
  BY <1>1, <1>2, <1>3, <1>4, <1>5 DEF IInv

LEMMA CopyInv == ASSUME IInv, NEW t \in NewThreads, Copy(t) PROVE IInv'
<1> USE Constants DEF NullIsOther
<1>1. TypeOK'
  <2>1. thread[t].cell \in Cells /\ thread[t] \in ThreadType
    BY DEF IInv, TypeOK, ThreadType, HandedOver, Copy, ThreadAt
  <2>2. heap[thread[t].cell] \in Routines \cup {NULL}
    BY <2>1 DEF IInv, TypeOK
  <2>3. [thread[t] EXCEPT !.at = "free", !.routine = heap[thread[t].cell]] \in ThreadType
    BY <2>1, <2>2 DEF ThreadType
  <2>4. thread' = [thread EXCEPT ![t] = [thread[t] EXCEPT !.at = "free", !.routine = heap[thread[t].cell]]]
    BY DEF Copy, CopyArgInfo, IInv, TypeOK
  <2>5. thread' \in [NewThreads -> ThreadType]
    BY <2>3, <2>4 DEF IInv, TypeOK
  <2>6. QED
    BY <2>5 DEF IInv, TypeOK, Copy
<1>2. OneOwner'
  BY DEF IInv, TypeOK, CallType, ThreadType, OneOwner, HandedOver, Copy, CopyArgInfo, CallAt, ThreadAt
<1>3. HandedOver'
  BY DEF IInv, TypeOK, CallType, ThreadType, OneOwner, HandedOver, Copy, CopyArgInfo, CallAt, ThreadAt
<1>4. SizeStays'
  BY DEF IInv, TypeOK, CallType, ThreadType, SizeStays, HandedOver, Copy, CopyArgInfo, CallAt, ThreadAt
<1>5. StackSizeIsSet'
  BY DEF IInv, TypeOK, CallType, ThreadType, SizeStays, StackSizeIsSet, HandedOver, Copy, CopyArgInfo, CallAt, ThreadAt
<1>6. QED
  BY <1>1, <1>2, <1>3, <1>4, <1>5 DEF IInv

LEMMA FreeInv == ASSUME IInv, NEW t \in NewThreads, Free(t) PROVE IInv'
<1> USE Constants DEF NullIsOther
<1>1. TypeOK'
  BY DEF IInv, TypeOK, CallType, ThreadType, HandedOver, Free, FreeArgInfo, CallAt, ThreadAt
<1>2. OneOwner'
  BY DEF IInv, TypeOK, CallType, ThreadType, OneOwner, HandedOver, Free, FreeArgInfo, CallAt, ThreadAt
<1>3. HandedOver'
  BY DEF IInv, TypeOK, CallType, ThreadType, OneOwner, HandedOver, Free, FreeArgInfo, CallAt, ThreadAt
<1>4. SizeStays'
  BY DEF IInv, TypeOK, CallType, ThreadType, SizeStays, HandedOver, Free, FreeArgInfo, CallAt, ThreadAt
<1>5. StackSizeIsSet'
  BY DEF IInv, TypeOK, CallType, ThreadType, SizeStays, StackSizeIsSet, HandedOver, Free, FreeArgInfo, CallAt, ThreadAt
<1>6. QED
  BY <1>1, <1>2, <1>3, <1>4, <1>5 DEF IInv

LEMMA InitTlsInv == ASSUME IInv, NEW t \in NewThreads, InitTls(t) PROVE IInv'
<1> USE Constants DEF NullIsOther
<1>1. TypeOK'
  BY SMTT(30) DEF IInv, TypeOK, CallType, ThreadType, HandedOver, InitTls, CallAt, ThreadAt
<1>2. OneOwner'
  BY DEF IInv, TypeOK, CallType, ThreadType, OneOwner, HandedOver, InitTls, CallAt, ThreadAt
<1>3. HandedOver'
  BY DEF IInv, TypeOK, CallType, ThreadType, OneOwner, HandedOver, InitTls, CallAt, ThreadAt
<1>4. SizeStays'
  BY DEF IInv, TypeOK, CallType, ThreadType, SizeStays, HandedOver, InitTls, CallAt, ThreadAt
<1>5. StackSizeIsSet'
  BY DEF IInv, TypeOK, CallType, ThreadType, SizeStays, StackSizeIsSet, HandedOver, InitTls, CallAt, ThreadAt
<1>6. QED
  BY <1>1, <1>2, <1>3, <1>4, <1>5 DEF IInv

LEMMA ExitInv == ASSUME IInv, NEW t \in NewThreads, Exit(t) PROVE IInv'
<1> USE Constants DEF NullIsOther
<1>1. TypeOK'
  BY DEF IInv, TypeOK, CallType, ThreadType, HandedOver, Exit, NoThread, CallAt, ThreadAt
<1>2. OneOwner'
  BY DEF IInv, TypeOK, CallType, ThreadType, OneOwner, HandedOver, Exit, NoThread, CallAt, ThreadAt
<1>3. HandedOver'
  BY DEF IInv, TypeOK, CallType, ThreadType, OneOwner, HandedOver, Exit, NoThread, CallAt, ThreadAt
<1>4. SizeStays'
  BY DEF IInv, TypeOK, CallType, ThreadType, SizeStays, HandedOver, Exit, NoThread, CallAt, ThreadAt
<1>5. StackSizeIsSet'
  BY DEF IInv, TypeOK, CallType, ThreadType, SizeStays, StackSizeIsSet, HandedOver, Exit, NoThread, CallAt, ThreadAt
<1>6. QED
  BY <1>1, <1>2, <1>3, <1>4, <1>5 DEF IInv

LEMMA StutterInv == ASSUME IInv, UNCHANGED vars PROVE IInv'
  BY DEF IInv, TypeOK, OneOwner, HandedOver, SizeStays, StackSizeIsSet, CallAt, ThreadAt, vars

\* The invariant holds in every state of init.c and fork.c.
THEOREM Invariant == Spec => []IInv
<1>1. Init => IInv
  BY InitInv
<1>2. IInv /\ [Next]_vars => IInv'
  <2> SUFFICES ASSUME IInv, [Next]_vars PROVE IInv'
    OBVIOUS
  <2>1. CASE \E c \in Creators : Call(c) \/ SetStackSize(c) \/ Malloc(c) \/ Create(c)
    BY <2>1, CallInv, SetStackSizeInv, MallocInv, CreateInv
  <2>2. CASE SetByUser
    BY <2>2, SetByUserInv
  <2>3. CASE \E t \in NewThreads : Copy(t) \/ Free(t) \/ InitTls(t) \/ Exit(t)
    BY <2>3, CopyInv, FreeInv, InitTlsInv, ExitInv
  <2>4. CASE UNCHANGED vars
    BY <2>4, StutterInv
  <2>5. QED
    BY <2>1, <2>2, <2>3, <2>4 DEF Next
<1>3. QED
  BY <1>1, <1>2, PTL DEF Spec

\* Every variable keeps its type.
THEOREM TypeCorrect == Spec => []TypeOK
  BY Invariant, PTL DEF IInv

\* A thread runs what its own creator has asked for (init.c 73-82).
THEOREM RightRoutine == Spec => []RunsWhatWasAsked
<1>1. IInv => RunsWhatWasAsked
  BY DEF IInv, HandedOver, RunsWhatWasAsked, ThreadAt
<1>2. QED
  BY <1>1, Invariant, PTL

\* Every new thread has a stack of the size the prologues count on.
THEOREM RightSize == Spec => []StackSizeIsSet
  BY Invariant, PTL DEF IInv

\* No object is read or freed by a thread that it does not belong to.
THEOREM ObjectsHaveOneOwner == Spec => []OneOwner
  BY Invariant, PTL DEF IInv

\* All that pthread_create promises, for any number of threads and objects.
THEOREM AllAsAsked == Spec => []CreatesAsAsked
<1>1. IInv => CreatesAsAsked
  BY DEF IInv, HandedOver, RunsWhatWasAsked, CreatesAsAsked, ThreadAt
<1>2. QED
  BY <1>1, Invariant, PTL

-----------------------------------------------------------------------------
(* The hooks of rt_lib.c (RtHooks).                                          *)

Bars(t, i) == calls[t][i].at \in Hooked!Marked
Wants(t, i) == calls[t][i].at \in {"open", "set"}

\* A hook that has done what a move must follow, or is about to do what one must precede.
Owes(c) ==
    /\ ~c.early
    /\ \/ c.at = "done" /\ c.f \in Hooked!CallFirst
       \/ c.at = "real" /\ c.f \in Hooked!MoveFirst

\* A hook that knows the clock it is going to write into the metadata.
Ready(c) == c.at = "stamp" \/ (build = "buddy" /\ c.at \in {"test", "open", "set"})

\* What hook i of a thread knows in state c, if the metadata of the thread holds a clock.
Fits(t, i, c, clock) ==
    /\ c.time <= now /\ (~c.early => inited)
    /\ \A j \in 1 .. i - 1 : calls[t][j].time <= c.time
    /\ c.at = "find" => build # "buddy"
    /\ Ready(c) => c.time <= c.cur /\ c.cur <= now
    /\ c.at = "cur" => c.last = clock \/ c.time <= clock
    /\ c.at = "moving" => c.time <= clock
    /\ c.at = "quit" => Hooked!Within(clock, c.time)
    /\ Owes(c) => Hooked!Interrupts(t, i, Hooked!Marked) \/ Hooked!Within(clock, c.time)

HookOK(t, i) == Fits(t, i, calls[t][i], cpu_cycles[t])

\* One hook at most has the stack marked, and none above it is about to; the metadata says so.
MarkOK(t) ==
    /\ \A i, j \in DOMAIN calls[t] : Bars(t, i) /\ (Bars(t, j) \/ Wants(t, j)) => j <= i
    /\ is_randomizing[t] <=> \E i \in DOMAIN calls[t] : Bars(t, i)

\* Where no hook is in its move, the metadata holds the clock of one that has ended.
Known(t) ==
    (\E i \in DOMAIN calls[t] : calls[t][i].at = "moving") \/ cpu_cycles[t] \in {moved[t], failed[t]}

\* What each hook of a thread knows, also those that wait below a handler.
HooksOK(t) ==
    /\ calls[t] \in Seq(Hooked!Call)
    /\ \A i \in DOMAIN calls[t] : HookOK(t, i)
    /\ \A i \in DOMAIN calls[t] : calls[t][i].at # "look" => calls[t][i].f \in resolved
    /\ MarkOK(t)
    /\ cpu_cycles[t] <= now
    /\ Known(t)

HookInv ==
    /\ Hooked!TypeOK /\ crashed # "null"
    /\ DOMAIN calls = Hookers
    /\ \A t \in Hookers : HooksOK(t)

Clocks == {Hooked!LongAgo} \cup 0 .. MaxTime

LEMMA HookConstants ==
    /\ Main \in Hookers /\ Period \in Nat \ {0}
    /\ MaxTime \in Nat /\ MaxCalls \in Nat /\ MaxDepth \in Nat
    /\ \A b \in DOMAIN Enabled : Enabled[b] \subseteq Hooked!Hooks
    /\ Hooked!LongAgo = -2 * Period /\ Hooked!LongAgo \in Int
<1>1. Main \in Hookers /\ Period \in Nat \ {0}
      /\ MaxTime \in Nat /\ MaxCalls \in Nat /\ MaxDepth \in Nat
      /\ \A b \in DOMAIN Enabled : Enabled[b] \subseteq Hooked!Hooks
    BY HooksConstants DEF Hooked!HooksAssumption
<1> QED
    BY <1>1 DEF Hooked!LongAgo

LEMMA ClockTypes ==
    /\ \A n \in 0 .. MaxTime : n \in Nat
    /\ \A n \in Clocks : n \in Int
    /\ \A f \in [Hookers -> Clocks] : \A t \in Hookers : f[t] \in Clocks /\ f[t] \in Int
BY HookConstants DEF Clocks

LEMMA HookTypes ==
    ASSUME Hooked!TypeOK
    PROVE  /\ now \in Nat /\ now \in 0 .. MaxTime /\ inited \in BOOLEAN /\ prepared \in BOOLEAN
           /\ build \in DOMAIN Enabled /\ resolved \subseteq Hooked!Hooks
           /\ cpu_cycles \in [Hookers -> Clocks] /\ moved \in [Hookers -> Clocks]
           /\ failed \in [Hookers -> Clocks] /\ moves \in [Hookers -> Nat]
           /\ is_randomizing \in [Hookers -> BOOLEAN]
           /\ \A t \in Hookers : cpu_cycles[t] \in Int /\ cpu_cycles[t] \in Clocks
<1>1. now \in 0 .. MaxTime /\ cpu_cycles \in [Hookers -> Clocks]
    BY DEF Hooked!TypeOK, Clocks
<1>2. now \in Nat /\ \A t \in Hookers : cpu_cycles[t] \in Int /\ cpu_cycles[t] \in Clocks
    BY <1>1, ClockTypes
<1> QED
    BY <1>1, <1>2 DEF Hooked!TypeOK, Clocks

\* A move that has begun at a clock covers what came before.
LEMMA WithinNow ==
    ASSUME NEW clock \in Int, NEW time \in Int, time <= clock
    PROVE  Hooked!Within(clock, time)
<1>1. time - clock <= Period /\ time - clock < Period
    BY HookConstants
<1> QED
    BY <1>1 DEF Hooked!Within

\* What comes before a clock at which the period is not over is within it.
LEMMA NotOver ==
    ASSUME NEW clock \in Int, NEW last \in Int, NEW time \in Int, time <= clock,
           ~Hooked!PeriodIsOver(clock, last)
    PROVE  Hooked!Within(last, time)
<1>1. /\ ~(clock - last > Period) => time - last <= Period
      /\ ~(clock - last >= Period) => time - last < Period
    BY HookConstants
<1> QED
    BY <1>1 DEF Hooked!Within, Hooked!PeriodIsOver

LEMMA HookBegins == Hooked!Init => HookInv
<1> SUFFICES ASSUME Hooked!Init  PROVE HookInv
    OBVIOUS
<1>1. calls = [t \in Hookers |-> <<>>] /\ is_randomizing = [t \in Hookers |-> FALSE]
      /\ crashed = "no" /\ inited = FALSE /\ prepared = FALSE /\ now = 0 /\ count = 0
      /\ resolved = {} /\ build \in DOMAIN Enabled
      /\ cpu_cycles = [t \in Hookers |-> Hooked!LongAgo]
      /\ moved = cpu_cycles /\ failed = cpu_cycles /\ moves = [t \in Hookers |-> 0]
    BY DEF Hooked!Init
<1>2. \A t \in Hookers : calls[t] = <<>> /\ DOMAIN calls[t] = {} /\ Len(calls[t]) = 0
    BY <1>1
<1>3. 0 \in 0 .. MaxTime /\ 0 \in 0 .. MaxCalls /\ 0 <= MaxDepth
    BY HookConstants
<1>4. Hooked!TypeOK
    BY <1>1, <1>2, <1>3 DEF Hooked!TypeOK
<1>5. \A t \in Hookers : calls[t] \in Seq(Hooked!Call)
    <2>1. \A T : <<>> \in Seq(T)
        OBVIOUS
    <2> QED
        BY <1>2, <2>1
<1>6. \A t \in Hookers : cpu_cycles[t] <= now /\ cpu_cycles[t] = moved[t]
    BY <1>1, HookConstants
<1> QED
    BY <1>1, <1>2, <1>4, <1>5, <1>6 DEF HookInv, HooksOK, MarkOK, Known

\* A hook that is not on top, or whose thread takes no step.  What a handler above it writes
\* into the metadata is a clock that is not older than the hook.
LEMMA HookStays ==
    ASSUME HookInv, Hooked!TypeOK', NEW t \in Hookers, NEW i \in DOMAIN calls[t],
           i \in DOMAIN calls'[t], \A j \in 1 .. i : calls'[t][j] = calls[t][j],
           now <= now', inited => inited', build' = build,
           cpu_cycles'[t] = cpu_cycles[t] \/ calls[t][i].time <= cpu_cycles'[t]
    PROVE  HookOK(t, i)'
<1> DEFINE c == calls[t][i]
<1>1. i \in Nat \ {0} /\ i \in 1 .. i /\ c \in Hooked!Call /\ HookOK(t, i)
      /\ \A j \in 1 .. i - 1 : j \in 1 .. i
    BY DEF HookInv, HooksOK
<1>2. calls'[t][i] = c /\ \A j \in 1 .. i - 1 : calls'[t][j] = calls[t][j]
    BY <1>1
<1>3. c.time \in Nat /\ c.cur \in Nat /\ now \in Nat /\ now' \in Nat /\ cpu_cycles'[t] \in Int
    <2>1. c.time \in Nat /\ c.cur \in Nat
        BY <1>1 DEF Hooked!Call
    <2>2. now \in Nat
        BY HookTypes DEF HookInv
    <2>3. now' \in 0 .. MaxTime /\ cpu_cycles' \in [Hookers -> Clocks]
        BY DEF Hooked!TypeOK, Clocks
    <2> QED
        BY <2>1, <2>2, <2>3, ClockTypes
<1>4. Fits(t, i, c, cpu_cycles[t])
    BY <1>1 DEF HookOK
<1> HIDE DEF c
<1>5. c.time <= now' /\ (Ready(c) => c.time <= c.cur /\ c.cur <= now')
    BY <1>3, <1>4 DEF Fits
<1>6. Hooked!Interrupts(t, i, Hooked!Marked)' <=> Hooked!Interrupts(t, i, Hooked!Marked)
    BY <1>2 DEF Hooked!Interrupts, Hooked!Marked
<1>7. \A j \in 1 .. i - 1 : calls'[t][j].time <= c.time
    BY <1>2, <1>4 DEF Fits
<1>8. CASE cpu_cycles'[t] = cpu_cycles[t]
    BY <1>2, <1>4, <1>5, <1>6, <1>7, <1>8 DEF HookOK, Fits, Ready, Owes, Hooked!Within
<1>9. CASE c.time <= cpu_cycles'[t]
    <2>1. Hooked!Within(cpu_cycles'[t], c.time)
        BY <1>3, <1>9, WithinNow
    <2> QED
        BY <1>2, <1>4, <1>5, <1>7, <1>9, <2>1 DEF HookOK, Fits, Ready, Owes, Hooked!Within
<1> QED
    BY <1>8, <1>9 DEF c

\* A thread that takes no step.
LEMMA ThreadStays ==
    ASSUME HookInv, Hooked!TypeOK', NEW t \in Hookers, calls'[t] = calls[t],
           resolved \subseteq resolved', now <= now', inited => inited', build' = build,
           cpu_cycles'[t] = cpu_cycles[t], is_randomizing'[t] = is_randomizing[t],
           moved'[t] = moved[t], failed'[t] = failed[t]
    PROVE  HooksOK(t)'
<1>1. ASSUME NEW i \in DOMAIN calls'[t]  PROVE HookOK(t, i)'
    <2>1. i \in DOMAIN calls[t] /\ \A j \in 1 .. i : calls'[t][j] = calls[t][j]
        OBVIOUS
    <2> QED
        BY <2>1, HookStays
<1>2. cpu_cycles'[t] <= now'
    <2>1. cpu_cycles[t] <= now /\ now \in Nat /\ cpu_cycles[t] \in Int
        BY HookTypes DEF HookInv, HooksOK
    <2>2. now' \in Nat
        BY ClockTypes DEF Hooked!TypeOK
    <2> QED
        BY <2>1, <2>2
<1> QED
    BY <1>1, <1>2 DEF HookInv, HooksOK, MarkOK, Bars, Wants, Known

-----------------------------------------------------------------------------
(* A step of the hook on top of a thread.                                    *)

\* The changes of calls that actions make keep its type.
LEMMA CallTypes ==
    ASSUME NEW s \in Seq(Hooked!Call), s # <<>>, NEW g \in Hooked!Call
    PROVE  LET r == [s EXCEPT ![Len(s)] = g]
           IN  Len(r) = Len(s) /\ \A i \in DOMAIN r : r[i] \in Hooked!Call
OBVIOUS

LEMMA TopTypes ==
    ASSUME HookInv, NEW t \in Hookers, calls[t] # <<>>
    PROVE  /\ Hooked!Top(t) \in Hooked!Call /\ Hooked!Top(t) = calls[t][Len(calls[t])]
           /\ Len(calls[t]) \in DOMAIN calls[t] /\ HookOK(t, Len(calls[t]))
           /\ Hooked!Top(t).at # "look" => Hooked!Top(t).f \in resolved
           /\ calls[t] \in Seq(Hooked!Call) /\ Len(calls[t]) \in Nat
           /\ DOMAIN calls[t] = 1 .. Len(calls[t]) /\ DOMAIN calls = Hookers
<1>1. calls[t] \in Seq(Hooked!Call)
    BY DEF HookInv, HooksOK
<1>2. Len(calls[t]) \in DOMAIN calls[t]
    BY <1>1
<1> QED
    BY <1>1, <1>2 DEF HookInv, HooksOK, Hooked!Top

\* The step of the hook on top of t to g keeps the types, whatever else it changes rightly.
LEMMA TopStepTypes ==
    ASSUME HookInv, NEW t \in Hookers, calls[t] # <<>>, NEW g \in Hooked!Call,
           calls' = [calls EXCEPT ![t] = [calls[t] EXCEPT ![Len(calls[t])] = g]],
           UNCHANGED <<build, now, inited, prepared, count, crashed>>,
           resolved' \subseteq Hooked!Hooks, is_randomizing' \in [Hookers -> BOOLEAN],
           cpu_cycles' \in [Hookers -> Clocks], moved' \in [Hookers -> Clocks],
           failed' \in [Hookers -> Clocks], moves' \in [Hookers -> Nat]
    PROVE  Hooked!TypeOK'
<1>1. calls[t] \in Seq(Hooked!Call) /\ DOMAIN calls = Hookers
    BY DEF HookInv, HooksOK
<1>2. /\ \A u \in Hookers \ {t} : calls'[u] = calls[u]
      /\ calls'[t] = [calls[t] EXCEPT ![Len(calls[t])] = g]
    BY <1>1
<1>3. Len(calls'[t]) = Len(calls[t]) /\ \A i \in DOMAIN calls'[t] : calls'[t][i] \in Hooked!Call
    BY <1>1, <1>2, CallTypes
<1>4. \A u \in Hookers : /\ Len(calls'[u]) <= MaxDepth
                         /\ \A i \in DOMAIN calls'[u] : calls'[u][i] \in Hooked!Call
    BY <1>2, <1>3 DEF HookInv, HooksOK, Hooked!TypeOK
<1> QED
    BY <1>4 DEF HookInv, HooksOK, Hooked!TypeOK, Clocks

\* What a step to g does to the mark of the stack: nothing, and g is not about to set it while
\* it is set; or it sets it, or keeps it, or clears it.
Remarks(t, c, g) ==
    \/ /\ c.at \notin Hooked!Marked /\ g.at \notin Hooked!Marked
       /\ is_randomizing'[t] = is_randomizing[t]
       /\ g.at \in {"open", "set"} => ~is_randomizing[t] \/ c.at \in {"open", "set"}
    \/ c.at = "set" /\ g.at \in Hooked!Marked /\ is_randomizing'[t]
    \/ /\ c.at \in Hooked!Marked /\ g.at \in Hooked!Marked
       /\ is_randomizing'[t] = is_randomizing[t]
    \/ c.at \in Hooked!Marked /\ g.at \in {"real", "done"} /\ ~is_randomizing'[t]

\* The mark after a step of the hook on top.
LEMMA MarkSteps ==
    ASSUME HookInv, NEW t \in Hookers, calls[t] # <<>>, NEW n \in Nat, n = Len(calls[t]),
           NEW g \in Hooked!Call, calls'[t] = [calls[t] EXCEPT ![n] = g],
           Remarks(t, Hooked!Top(t), g)
    PROVE  MarkOK(t)'
<1> DEFINE c == Hooked!Top(t)
<1>1. /\ calls[t] \in Seq(Hooked!Call) /\ n \in 1 .. n /\ DOMAIN calls[t] = 1 .. n
      /\ c = calls[t][n]
    BY TopTypes
<1>2. /\ DOMAIN calls'[t] = 1 .. n /\ calls'[t][n] = g
      /\ \A i \in 1 .. n - 1 : calls'[t][i] = calls[t][i]
    BY <1>1
<1>3. /\ \A i \in 1 .. n : i <= n /\ (i = n \/ i \in 1 .. n - 1)
      /\ \A i \in 1 .. n - 1 : i \in 1 .. n /\ ~(n <= i)
    OBVIOUS
<1>4. /\ \A i \in 1 .. n - 1 : (Bars(t, i)' <=> Bars(t, i)) /\ (Wants(t, i)' <=> Wants(t, i))
      /\ Bars(t, n) <=> c.at \in Hooked!Marked
      /\ Wants(t, n) <=> c.at \in {"open", "set"}
      /\ Bars(t, n)' <=> g.at \in Hooked!Marked
      /\ Wants(t, n)' <=> g.at \in {"open", "set"}
    BY <1>1, <1>2 DEF Bars, Wants, Hooked!Marked
<1>5. /\ \A i, j \in 1 .. n : Bars(t, i) /\ (Bars(t, j) \/ Wants(t, j)) => j <= i
      /\ is_randomizing[t] <=> \E i \in 1 .. n : Bars(t, i)
      /\ is_randomizing[t] \in BOOLEAN
    BY <1>1, HookTypes DEF HookInv, HooksOK, MarkOK
<1>6. Bars(t, n) \/ Wants(t, n) => \A i \in 1 .. n - 1 : ~Bars(t, i)
    BY <1>1, <1>3, <1>5
<1> HIDE DEF c
<1>7. CASE /\ c.at \notin Hooked!Marked /\ g.at \notin Hooked!Marked
           /\ is_randomizing'[t] = is_randomizing[t]
           /\ g.at \in {"open", "set"} => ~is_randomizing[t] \/ c.at \in {"open", "set"}
    <2>1. ~Bars(t, n) /\ ~Bars(t, n)'
        BY <1>4, <1>7
    <2>2. \A i \in 1 .. n : Bars(t, i)' <=> i \in 1 .. n - 1 /\ Bars(t, i)
        BY <1>3, <1>4, <2>1
    <2>3. \A i \in 1 .. n : Bars(t, i)' <=> Bars(t, i)
        BY <1>3, <2>1, <2>2
    <2>4. Wants(t, n)' => \A i \in 1 .. n - 1 : ~Bars(t, i)
        BY <1>3, <1>4, <1>5, <1>6, <1>7
    <2>5. ASSUME NEW i \in 1 .. n, NEW j \in 1 .. n, Bars(t, i)', Bars(t, j)' \/ Wants(t, j)'
          PROVE  j <= i
        <3>1. CASE j = n
            BY <2>1, <2>2, <2>4, <2>5, <3>1
        <3>2. CASE j \in 1 .. n - 1
            BY <1>4, <1>5, <2>3, <2>5, <3>2
        <3> QED
            BY <1>3, <3>1, <3>2
    <2> QED
        BY <1>2, <1>5, <1>7, <2>3, <2>5 DEF MarkOK
<1>8. CASE /\ c.at = "set" \/ c.at \in Hooked!Marked
           /\ g.at \in Hooked!Marked /\ is_randomizing'[t]
    <2>1. \A i \in 1 .. n - 1 : ~Bars(t, i)'
        BY <1>4, <1>6, <1>8
    <2>2. Bars(t, n)' /\ \A i \in 1 .. n : Bars(t, i)' => i = n
        BY <1>3, <1>4, <1>8, <2>1
    <2> QED
        BY <1>1, <1>2, <1>3, <1>8, <2>2 DEF MarkOK
<1>9. CASE c.at \in Hooked!Marked /\ g.at \in {"real", "done"} /\ ~is_randomizing'[t]
    <2>1. \A i \in 1 .. n - 1 : ~Bars(t, i)'
        BY <1>4, <1>6, <1>9
    <2>2. \A i \in 1 .. n : ~Bars(t, i)'
        BY <1>3, <1>4, <1>9, <2>1 DEF Hooked!Marked
    <2> QED
        BY <1>2, <1>9, <2>2 DEF MarkOK
<1>10. c.at \in Hooked!Marked => is_randomizing[t]
    BY <1>1, <1>4, <1>5
<1> QED
    BY <1>7, <1>8, <1>9, <1>10 DEF Remarks, c

\* The step of the hook on top of thread t: it becomes g, and the metadata of t holds clock.
LEMMA HookSteps ==
    ASSUME HookInv, NEW t \in Hookers, calls[t] # <<>>, NEW n \in Nat, n = Len(calls[t]),
           NEW g \in Hooked!Call,
           NEW clock \in Clocks, NEW m \in Clocks, NEW e \in Clocks,
           calls' = [calls EXCEPT ![t] = [calls[t] EXCEPT ![n] = g]],
           is_randomizing' \in [Hookers -> BOOLEAN],
           \A u \in Hookers \ {t} : is_randomizing'[u] = is_randomizing[u],
           cpu_cycles' = [cpu_cycles EXCEPT ![t] = clock],
           moved' = [moved EXCEPT ![t] = m], failed' = [failed EXCEPT ![t] = e],
           moves' \in [Hookers -> Nat],
           UNCHANGED <<build, now, inited, prepared, count, crashed>>,
           resolved \subseteq resolved', resolved' \subseteq Hooked!Hooks,
           g.at # "look" => g.f \in resolved',
           Remarks(t, Hooked!Top(t), g),
           Fits(t, n, g, clock), clock <= now,
           clock = cpu_cycles[t] \/ \A i \in 1 .. n : calls[t][i].time <= clock,
           \/ g.at = "moving" \/ clock \in {m, e}
           \/ /\ Hooked!Top(t).at # "moving"
              /\ clock = cpu_cycles[t] /\ m = moved[t] /\ e = failed[t]
    PROVE  HookInv'
<1>1. /\ calls[t] \in Seq(Hooked!Call) /\ DOMAIN calls = Hookers
      /\ n \in 1 .. n /\ DOMAIN calls[t] = 1 .. n /\ Hooked!Top(t) = calls[t][n]
    BY TopTypes
<1>2. /\ DOMAIN calls' = Hookers /\ \A u \in Hookers \ {t} : calls'[u] = calls[u]
      /\ calls'[t] = [calls[t] EXCEPT ![n] = g]
    BY <1>1
<1>3. /\ calls'[t] \in Seq(Hooked!Call) /\ DOMAIN calls'[t] = 1 .. n
      /\ calls'[t][n] = g /\ \A i \in 1 .. n - 1 : calls'[t][i] = calls[t][i]
    BY <1>1, <1>2
<1>4. \A i \in 1 .. n : i = n \/ i \in 1 .. n - 1
    OBVIOUS
<1>5. /\ cpu_cycles \in [Hookers -> Clocks] /\ moved \in [Hookers -> Clocks]
      /\ failed \in [Hookers -> Clocks] /\ now \in Nat
    BY HookTypes DEF HookInv
<1>6. /\ cpu_cycles' \in [Hookers -> Clocks] /\ moved' \in [Hookers -> Clocks]
      /\ failed' \in [Hookers -> Clocks]
      /\ cpu_cycles'[t] = clock /\ moved'[t] = m /\ failed'[t] = e
      /\ \A u \in Hookers \ {t} :
             /\ cpu_cycles'[u] = cpu_cycles[u]
             /\ moved'[u] = moved[u] /\ failed'[u] = failed[u]
    BY <1>5
<1>7. Hooked!TypeOK'
    BY <1>6, TopStepTypes
<1>8. ASSUME NEW i \in DOMAIN calls'[t]  PROVE HookOK(t, i)'
    <2>1. CASE i = n
        <3>1. Hooked!Interrupts(t, n, Hooked!Marked)' <=> Hooked!Interrupts(t, n, Hooked!Marked)
            BY <1>3 DEF Hooked!Interrupts, Hooked!Marked
        <3>2. Fits(t, n, g, clock)' <=> Fits(t, n, g, clock)
            BY <1>3, <3>1 DEF Fits, Ready, Hooked!Within
        <3> QED
            BY <1>3, <1>6, <2>1, <3>2 DEF HookOK
    <2>2. CASE i \in 1 .. n - 1
        <3>1. i \in DOMAIN calls[t] /\ \A j \in 1 .. i : calls'[t][j] = calls[t][j]
            BY <2>2, <1>1, <1>3
        <3>2. cpu_cycles'[t] = cpu_cycles[t] \/ calls[t][i].time <= cpu_cycles'[t]
            BY <1>1, <1>6, <3>1
        <3>3. now <= now'
            BY <1>5
        <3> QED
            BY <1>7, <3>1, <3>2, <3>3, HookStays
    <2> QED
        BY <1>3, <1>4, <2>1, <2>2
<1>9. \A i \in DOMAIN calls'[t] : calls'[t][i].at # "look" => calls'[t][i].f \in resolved'
    BY <1>1, <1>3, <1>4 DEF HookInv, HooksOK
<1>10. MarkOK(t)'
    BY <1>2, <1>6, MarkSteps
<1>11. Known(t)'
    <2>1. CASE g.at = "moving" \/ clock \in {m, e}
        BY <1>1, <1>3, <1>6, <2>1 DEF Known
    <2>2. CASE /\ Hooked!Top(t).at # "moving"
               /\ clock = cpu_cycles[t] /\ m = moved[t] /\ e = failed[t]
        <3>1. Known(t)
            BY DEF HookInv, HooksOK
        <3>2. CASE \E i \in DOMAIN calls[t] : calls[t][i].at = "moving"
            <4>1. PICK i \in 1 .. n : calls[t][i].at = "moving"
                BY <1>1, <3>2
            <4>2. i \in 1 .. n - 1
                BY <1>1, <1>4, <2>2, <4>1
            <4> QED
                BY <1>3, <4>1, <4>2 DEF Known
        <3> QED
            BY <1>6, <2>2, <3>1, <3>2 DEF Known
    <2> QED
        BY <2>1, <2>2
<1>12. \A u \in Hookers \ {t} : HooksOK(u)'
    <2>1. now <= now'
        BY <1>5
    <2> QED
        BY <1>2, <1>6, <1>7, <2>1, ThreadStays
<1>13. HooksOK(t)'
    BY <1>3, <1>6, <1>8, <1>9, <1>10, <1>11 DEF HooksOK
<1> QED
    BY <1>2, <1>7, <1>12, <1>13 DEF HookInv

\* A step of the hook on top that leaves the metadata and the moves alone.
LEMMA HookReads ==
    ASSUME HookInv, NEW t \in Hookers, calls[t] # <<>>, NEW n \in Nat, n = Len(calls[t]),
           NEW g \in Hooked!Call, Hooked!Becomes(t, g),
           UNCHANGED <<build, now, inited, prepared, count, crashed>>,
           UNCHANGED <<is_randomizing, cpu_cycles, moved, failed, moves>>,
           resolved \subseteq resolved', resolved' \subseteq Hooked!Hooks,
           g.at # "look" => g.f \in resolved', Hooked!Top(t).at # "moving",
           Remarks(t, Hooked!Top(t), g), Fits(t, n, g, cpu_cycles[t])
    PROVE  HookInv'
<1>1. calls' = [calls EXCEPT ![t] = [calls[t] EXCEPT ![n] = g]]
    BY DEF Hooked!Becomes
<1>2. /\ cpu_cycles \in [Hookers -> Clocks] /\ moved \in [Hookers -> Clocks]
      /\ failed \in [Hookers -> Clocks] /\ moves \in [Hookers -> Nat]
      /\ is_randomizing \in [Hookers -> BOOLEAN] /\ cpu_cycles[t] <= now
    BY HookTypes DEF HookInv, HooksOK
<1>3. PICK clock \in Clocks, m \in Clocks, e \in Clocks :
          clock = cpu_cycles[t] /\ m = moved[t] /\ e = failed[t]
    BY <1>2
<1>4. /\ is_randomizing' \in [Hookers -> BOOLEAN]
      /\ \A u \in Hookers \ {t} : is_randomizing'[u] = is_randomizing[u]
      /\ cpu_cycles' = [cpu_cycles EXCEPT ![t] = clock]
      /\ moved' = [moved EXCEPT ![t] = m]
      /\ failed' = [failed EXCEPT ![t] = e] /\ moves' \in [Hookers -> Nat]
    BY <1>2, <1>3
<1> QED
    BY <1>1, <1>2, <1>3, <1>4, HookSteps

-----------------------------------------------------------------------------
(* Hooks begin and return.                                                   *)

LEMMA HookPushes ==
    ASSUME HookInv, NEW t \in Hookers, Hooked!Enter(t)
    PROVE  HookInv'
<1>1. calls[t] \in Seq(Hooked!Call) /\ DOMAIN calls = Hookers /\ now \in Nat
    BY HookTypes DEF HookInv, HooksOK
<1>2. PICK f \in Enabled[build] : calls' = [calls EXCEPT ![t] = Append(@, Hooked!NewCall(f))]
    BY DEF Hooked!Enter
<1>0. Hooked!NewCall(f) \in Hooked!Call
    BY <1>1, <1>2, HookTypes, HookConstants DEF Hooked!NewCall, Hooked!Call, Hooked!Looking, HookInv
<1>3. PICK g \in Hooked!Call : /\ g = Hooked!NewCall(f) /\ g.at = "look" /\ g.time = now
                               /\ (~g.early => inited) /\ g.f = f
    BY <1>0, HookTypes DEF Hooked!NewCall, HookInv
<1>4. PICK n \in Nat : n = Len(calls[t]) /\ DOMAIN calls[t] = 1 .. n
    BY <1>1
<1>5. calls'[t] = Append(calls[t], g) /\ DOMAIN calls' = Hookers
      /\ \A u \in Hookers \ {t} : calls'[u] = calls[u]
    BY <1>1, <1>2, <1>3
<1>6. /\ UNCHANGED <<build, now, resolved, inited, prepared, is_randomizing, cpu_cycles, moved,
                     failed, moves, crashed>>
      /\ Len(calls[t]) < MaxDepth /\ count < MaxCalls /\ count' = count + 1
    BY DEF Hooked!Enter, Hooked!initVars, Hooked!stackVars, Hooked!moveVars
<1>7. /\ calls'[t] \in Seq(Hooked!Call) /\ DOMAIN calls'[t] = 1 .. n + 1
      /\ calls'[t][n + 1] = g /\ \A i \in 1 .. n : calls'[t][i] = calls[t][i]
      /\ Len(calls'[t]) = n + 1
    BY <1>1, <1>3, <1>4, <1>5
<1>8. /\ \A i \in 1 .. n + 1 : i = n + 1 \/ i \in 1 .. n
      /\ \A i \in 1 .. n : i \in 1 .. n + 1
    OBVIOUS
<1>9. Hooked!TypeOK'
    <2>1. n + 1 <= MaxDepth
        BY <1>4, <1>6, HookConstants
    <2>0. \A i \in DOMAIN calls'[t] : calls'[t][i] \in Hooked!Call
        BY <1>7
    <2>2. \A u \in Hookers : /\ Len(calls'[u]) <= MaxDepth
                             /\ \A i \in DOMAIN calls'[u] : calls'[u][i] \in Hooked!Call
        BY <1>5, <1>7, <2>0, <2>1 DEF HookInv, Hooked!TypeOK
    <2>3. count' \in 0 .. MaxCalls
        BY <1>6, HookConstants DEF HookInv, Hooked!TypeOK
    <2> QED
        BY <1>6, <2>2, <2>3 DEF HookInv, Hooked!TypeOK
<1>10. now <= now'
    BY <1>1, <1>6
<1>11. ASSUME NEW i \in DOMAIN calls'[t]  PROVE HookOK(t, i)'
    <2>1. CASE i = n + 1
        <3>1. \A j \in 1 .. n : calls[t][j].time <= now
            BY <1>4 DEF HookInv, HooksOK, HookOK, Fits
        <3>2. \A j \in 1 .. n + 1 - 1 : calls'[t][j].time <= g.time
            BY <1>3, <1>7, <3>1
        <3>3. g.time <= now'
            BY <1>1, <1>3, <1>6
        <3>4. (~g.early => inited') /\ ~Ready(g)' /\ ~Owes(g)
            BY <1>3, <1>6 DEF Ready, Owes
        <3>5. Fits(t, n + 1, g, cpu_cycles[t])'
            BY <1>3, <3>2, <3>3, <3>4 DEF Fits, Owes
        <3> QED
            BY <1>7, <2>1, <3>5 DEF HookOK
    <2>2. CASE i \in 1 .. n
        <3>1. i \in DOMAIN calls[t] /\ \A j \in 1 .. i : calls'[t][j] = calls[t][j]
            BY <1>4, <1>7, <2>2
        <3> QED
            BY <1>6, <1>9, <1>10, <3>1, HookStays
    <2> QED
        BY <1>7, <1>8, <2>1, <2>2
<1>12. /\ \A i \in 1 .. n : (Bars(t, i)' <=> Bars(t, i)) /\ (Wants(t, i)' <=> Wants(t, i))
       /\ ~Bars(t, n + 1)' /\ ~Wants(t, n + 1)'
    BY <1>3, <1>7 DEF Bars, Wants, Hooked!Marked
<1>13. MarkOK(t)'
    <2>1. /\ \A i, j \in 1 .. n : Bars(t, i) /\ (Bars(t, j) \/ Wants(t, j)) => j <= i
          /\ is_randomizing[t] <=> \E i \in 1 .. n : Bars(t, i)
        BY <1>4 DEF HookInv, HooksOK, MarkOK
    <2> HIDE DEF Bars, Wants
    <2>2. \A i, j \in DOMAIN calls'[t] : Bars(t, i)' /\ (Bars(t, j)' \/ Wants(t, j)') => j <= i
        BY <1>7, <1>8, <1>12, <2>1
    <2>3. is_randomizing'[t] <=> \E i \in DOMAIN calls'[t] : Bars(t, i)'
        BY <1>6, <1>7, <1>8, <1>12, <2>1
    <2> QED
        BY <2>2, <2>3 DEF MarkOK
<1>14. Known(t)'
    <2>1. Known(t)
        BY DEF HookInv, HooksOK
    <2> QED
        BY <1>4, <1>6, <1>7, <1>8, <2>1 DEF Known
<1>15. \A u \in Hookers \ {t} : HooksOK(u)'
    BY <1>5, <1>6, <1>9, <1>10, ThreadStays
<1>16. HooksOK(t)'
    <2>1. cpu_cycles'[t] <= now'
        BY <1>6 DEF HookInv, HooksOK
    <2>2. \A i \in DOMAIN calls'[t] : calls'[t][i].at # "look" => calls'[t][i].f \in resolved'
        BY <1>3, <1>4, <1>6, <1>7, <1>8 DEF HookInv, HooksOK
    <2> QED
        BY <1>7, <1>11, <1>13, <1>14, <2>1, <2>2 DEF HooksOK
<1> QED
    BY <1>5, <1>6, <1>9, <1>15, <1>16 DEF HookInv

LEMMA HookPops ==
    ASSUME HookInv, NEW t \in Hookers, Hooked!Return(t)
    PROVE  HookInv'
<1>1. calls[t] \in Seq(Hooked!Call) /\ DOMAIN calls = Hookers /\ calls[t] # <<>>
      /\ Hooked!Top(t).at = "done"
    BY DEF HookInv, HooksOK, Hooked!Return, Hooked!At
<1>2. PICK n \in Nat : n + 1 = Len(calls[t]) /\ DOMAIN calls[t] = 1 .. n + 1
    BY <1>1
<1>3. calls'[t] = SubSeq(calls[t], 1, n) /\ DOMAIN calls' = Hookers
      /\ \A u \in Hookers \ {t} : calls'[u] = calls[u]
    BY <1>1, <1>2 DEF Hooked!Return
<1>4. /\ calls'[t] \in Seq(Hooked!Call) /\ DOMAIN calls'[t] = 1 .. n
      /\ \A i \in 1 .. n : calls'[t][i] = calls[t][i] /\ Len(calls'[t]) = n
    BY <1>1, <1>2, <1>3
<1>5. UNCHANGED <<build, now, resolved, inited, prepared, is_randomizing, cpu_cycles, moved, failed,
                  moves, count, crashed>>
    BY DEF Hooked!Return, Hooked!initVars, Hooked!stackVars, Hooked!moveVars
<1>6. now <= now'
    BY <1>5, HookTypes DEF HookInv
<1>7. /\ \A i \in 1 .. n + 1 : i = n + 1 \/ i \in 1 .. n
      /\ \A i \in 1 .. n : i \in 1 .. n + 1
    OBVIOUS
<1>8. Hooked!TypeOK'
    <2>1. Len(calls'[t]) = n
        BY <1>1, <1>2, <1>3
    <2>2. n <= MaxDepth
        BY <1>2, HookConstants DEF HookInv, Hooked!TypeOK
    <2>0. \A i \in DOMAIN calls'[t] : calls'[t][i] \in Hooked!Call
        BY <1>4
    <2>3. \A u \in Hookers : /\ Len(calls'[u]) <= MaxDepth
                             /\ \A i \in DOMAIN calls'[u] : calls'[u][i] \in Hooked!Call
        BY <1>3, <2>0, <2>1, <2>2 DEF HookInv, Hooked!TypeOK
    <2> QED
        BY <1>5, <2>3 DEF HookInv, Hooked!TypeOK
<1>9. ASSUME NEW i \in DOMAIN calls'[t]  PROVE HookOK(t, i)'
    <2>1. i \in DOMAIN calls[t] /\ \A j \in 1 .. i : calls'[t][j] = calls[t][j]
        BY <1>2, <1>4
    <2> QED
        BY <1>5, <1>6, <1>8, <2>1, HookStays
<1>10. /\ \A i \in 1 .. n : (Bars(t, i)' <=> Bars(t, i)) /\ (Wants(t, i)' <=> Wants(t, i))
       /\ ~Bars(t, n + 1) /\ calls[t][n + 1].at # "moving"
    BY <1>1, <1>2, <1>4 DEF Bars, Wants, Hooked!Top, Hooked!Marked
<1>11. MarkOK(t)'
    <2>1. /\ \A i, j \in 1 .. n + 1 : Bars(t, i) /\ (Bars(t, j) \/ Wants(t, j)) => j <= i
          /\ is_randomizing[t] <=> \E i \in 1 .. n + 1 : Bars(t, i)
        BY <1>2 DEF HookInv, HooksOK, MarkOK
    <2> HIDE DEF Bars, Wants
    <2>2. \A i, j \in DOMAIN calls'[t] : Bars(t, i)' /\ (Bars(t, j)' \/ Wants(t, j)') => j <= i
        BY <1>4, <1>7, <1>10, <2>1
    <2>3. is_randomizing'[t] <=> \E i \in DOMAIN calls'[t] : Bars(t, i)'
        BY <1>4, <1>5, <1>7, <1>10, <2>1
    <2> QED
        BY <2>2, <2>3 DEF MarkOK
<1>12. Known(t)'
    <2>1. Known(t)
        BY DEF HookInv, HooksOK
    <2> QED
        BY <1>2, <1>4, <1>5, <1>7, <1>10, <2>1 DEF Known
<1>13. \A u \in Hookers \ {t} : HooksOK(u)'
    BY <1>3, <1>5, <1>6, <1>8, ThreadStays
<1>14. HooksOK(t)'
    <2>1. cpu_cycles'[t] <= now'
        BY <1>5 DEF HookInv, HooksOK
    <2>2. \A i \in DOMAIN calls'[t] : calls'[t][i].at # "look" => calls'[t][i].f \in resolved'
        BY <1>2, <1>4, <1>5, <1>7 DEF HookInv, HooksOK
    <2> QED
        BY <1>4, <1>9, <1>11, <1>12, <2>1, <2>2 DEF HooksOK
<1> QED
    BY <1>3, <1>5, <1>8, <1>13, <1>14 DEF HookInv

-----------------------------------------------------------------------------
(* The steps of a hook outside the macro.                                    *)

LEMMA LookKeeps ==
    ASSUME HookInv, NEW t \in Hookers, Hooked!Look(t)
    PROVE  HookInv'
<1> DEFINE c == Hooked!Top(t)
           g == [c EXCEPT !.at = Hooked!BeforeTheCall(c.f)]
<1>1. /\ calls[t] # <<>> /\ c.at = "look" /\ Hooked!Becomes(t, g)
      /\ resolved' = resolved \cup {c.f}
      /\ UNCHANGED <<build, now, inited, prepared, count, crashed>>
      /\ UNCHANGED <<is_randomizing, cpu_cycles, moved, failed, moves>>
    BY DEF Hooked!Look, Hooked!At, Hooked!initVars, Hooked!stackVars, Hooked!moveVars
<1>2. PICK n \in Nat : n = Len(calls[t]) /\ c = calls[t][n] /\ HookOK(t, n) /\ c \in Hooked!Call
    BY <1>1, TopTypes
<1>3. Hooked!BeforeTheCall(c.f) \in {"last", "find", "real"}
      /\ (Hooked!BeforeTheCall(c.f) = "find" => build # "buddy")
      /\ (Hooked!BeforeTheCall(c.f) = "real" => c.f \notin Hooked!MoveFirst)
    BY DEF Hooked!BeforeTheCall, Hooked!MacroBegins
<1>4. /\ g \in Hooked!Call /\ g.f = c.f /\ g.time = c.time /\ g.early = c.early
      /\ g.at = Hooked!BeforeTheCall(c.f)
    BY <1>2, <1>3 DEF Hooked!Call, Hooked!Looking, Hooked!Deciding
<1>5. Fits(t, n, c, cpu_cycles[t])
    BY <1>2 DEF HookOK
<1> HIDE DEF g, c
<1>6. Fits(t, n, g, cpu_cycles[t])
    BY <1>3, <1>4, <1>5 DEF Fits, Ready, Owes
<1>7. Remarks(t, Hooked!Top(t), g)
    BY <1>1, <1>3, <1>4 DEF Remarks, Hooked!Marked, c
<1>8. resolved \subseteq resolved' /\ resolved' \subseteq Hooked!Hooks /\ g.f \in resolved'
    BY <1>1, <1>2, <1>4, HookTypes DEF HookInv, Hooked!Call
<1> QED
    BY <1>1, <1>2, <1>4, <1>6, <1>7, <1>8, HookReads DEF c

LEMMA RealKeeps ==
    ASSUME HookInv, NEW t \in Hookers, Hooked!Real(t)
    PROVE  HookInv'
<1> DEFINE c == Hooked!Top(t)
           g == Hooked!AfterReal(c)
<1>1. /\ calls[t] # <<>> /\ c.at = "real"
      /\ UNCHANGED <<build, now, inited, prepared, resolved, count>>
      /\ UNCHANGED <<is_randomizing, cpu_cycles, moved, failed, moves>>
    BY DEF Hooked!Real, Hooked!At, Hooked!initVars, Hooked!stackVars, Hooked!moveVars
<1>2. PICK n \in Nat : /\ n = Len(calls[t]) /\ c = calls[t][n] /\ HookOK(t, n)
                       /\ c \in Hooked!Call /\ c.f \in resolved /\ DOMAIN calls[t] = 1 .. n
    BY <1>1, TopTypes
<1>3. Hooked!Becomes(t, g) /\ crashed' = crashed
    BY <1>2 DEF Hooked!Real
<1>4. now \in Nat /\ resolved \subseteq Hooked!Hooks
    BY HookTypes DEF HookInv
<1>5. Hooked!AfterTheRealCall(c.f) \in {"last", "find", "done"}
      /\ (Hooked!AfterTheRealCall(c.f) = "find" => build # "buddy")
      /\ (Hooked!AfterTheRealCall(c.f) = "done" => c.f \notin Hooked!CallFirst)
    BY DEF Hooked!AfterTheRealCall, Hooked!MacroBegins
<1>6. /\ g \in Hooked!Call /\ g.f = c.f /\ g.early = c.early
      /\ g.time = (IF c.f \in Hooked!CallFirst THEN now ELSE c.time)
      /\ g.at = Hooked!AfterTheRealCall(c.f)
    BY <1>2, <1>4, <1>5 DEF Hooked!Call, Hooked!Looking, Hooked!Deciding, Hooked!AfterReal
<1>7. Fits(t, n, c, cpu_cycles[t])
    BY <1>2 DEF HookOK
<1> HIDE DEF g, c
<1>8. Fits(t, n, g, cpu_cycles[t])
    <2>1. g.time <= now
        BY <1>4, <1>6, <1>7 DEF Fits
    <2>2. \A j \in 1 .. n - 1 : calls[t][j].time <= g.time
        <3>1. \A j \in 1 .. n - 1 : j \in 1 .. n
            OBVIOUS
        <3>2. \A j \in 1 .. n : calls[t][j].time <= now
            BY <1>2 DEF HookInv, HooksOK, HookOK, Fits
        <3> QED
            BY <1>6, <1>7, <3>1, <3>2 DEF Fits
    <2> QED
        BY <1>5, <1>6, <1>7, <2>1, <2>2 DEF Fits, Ready, Owes
<1>9. Remarks(t, Hooked!Top(t), g)
    BY <1>1, <1>5, <1>6 DEF Remarks, Hooked!Marked, c
<1> QED
    BY <1>1, <1>2, <1>3, <1>4, <1>6, <1>8, <1>9, HookReads DEF c

-----------------------------------------------------------------------------
(* The steps of the macro.                                                   *)

\* When the macro is over, its hook must have been answered.
LEMMA OverFits ==
    ASSUME HookInv, NEW t \in Hookers, NEW n \in Nat, NEW c \in Hooked!Call,
           NEW clock \in Int, Fits(t, n, c, clock),
           \/ c.early \/ Hooked!Interrupts(t, n, Hooked!Marked) \/ Hooked!Within(clock, c.time)
    PROVE  /\ Hooked!Over(c) \in Hooked!Call /\ Fits(t, n, Hooked!Over(c), clock)
           /\ Hooked!Over(c).at \in {"real", "done"} /\ Hooked!Over(c).f = c.f
<1> DEFINE g == Hooked!Over(c)
<1>1. Hooked!AfterTheMove(c.f) \in {"real", "done"} /\ Hooked!LongAgo \in Int
    BY HookConstants DEF Hooked!AfterTheMove
<1>2. /\ g \in Hooked!Call /\ g.f = c.f /\ g.time = c.time /\ g.early = c.early
      /\ g.at \in {"real", "done"}
    BY <1>1 DEF Hooked!Call, Hooked!Over, Hooked!Looking
<1> HIDE DEF g
<1>3. Fits(t, n, g, clock)
    BY <1>2 DEF Fits, Ready, Owes
<1> QED
    BY <1>2, <1>3 DEF g

\* What every step of the macro finds.
LEMMA MacroFinds ==
    ASSUME HookInv, NEW t \in Hookers, NEW place, Hooked!At(t, place), place # "look"
    PROVE  \E n \in Nat :
               /\ n = Len(calls[t]) /\ calls[t] # <<>> /\ DOMAIN calls[t] = 1 .. n
               /\ Hooked!Top(t) = calls[t][n] /\ Hooked!Top(t) \in Hooked!Call
               /\ Hooked!Top(t).at = place /\ Hooked!Top(t).f \in resolved
               /\ Fits(t, n, Hooked!Top(t), cpu_cycles[t])
BY TopTypes DEF Hooked!At, HookOK

\* The steps that only read, by the state of the hook afterwards.
LEMMA ReadsKeep ==
    ASSUME HookInv, NEW t \in Hookers, Hooked!OnlyReads, NEW n \in Nat, n = Len(calls[t]),
           calls[t] # <<>>, NEW g \in Hooked!Call, Hooked!Becomes(t, g),
           g.f = Hooked!Top(t).f, Hooked!Top(t).at \notin {"look", "moving"},
           Fits(t, n, g, cpu_cycles[t]), Remarks(t, Hooked!Top(t), g)
    PROVE  HookInv'
<1>1. /\ UNCHANGED <<build, now, inited, prepared, count, crashed, resolved>>
      /\ UNCHANGED <<is_randomizing, cpu_cycles, moved, failed, moves>>
    BY DEF Hooked!OnlyReads, Hooked!initVars, Hooked!stackVars, Hooked!moveVars
<1>2. resolved \subseteq resolved' /\ resolved' \subseteq Hooked!Hooks /\ g.f \in resolved'
    BY <1>1, TopTypes, HookTypes DEF HookInv
<1> QED
    BY <1>1, <1>2, HookReads

LEMMA ReadLastKeeps ==
    ASSUME HookInv, NEW t \in Hookers, Hooked!ReadLast(t)
    PROVE  HookInv'
<1> DEFINE c == Hooked!Top(t)
           g == [c EXCEPT !.at = "cur", !.last = cpu_cycles[t]]
<1>1. Hooked!At(t, "last") /\ Hooked!OnlyReads /\ Hooked!Becomes(t, g)
    BY DEF Hooked!ReadLast
<1>2. PICK n \in Nat : /\ n = Len(calls[t]) /\ calls[t] # <<>> /\ c \in Hooked!Call
                       /\ c.at = "last" /\ Fits(t, n, c, cpu_cycles[t])
    BY <1>1, MacroFinds
<1>3. cpu_cycles[t] \in Int
    BY HookTypes DEF HookInv
<1>4. /\ g \in Hooked!Call /\ g.f = c.f /\ g.time = c.time /\ g.early = c.early
      /\ g.at = "cur" /\ g.last = cpu_cycles[t]
    BY <1>2, <1>3 DEF Hooked!Call, Hooked!Deciding
<1> HIDE DEF g, c
<1>5. Fits(t, n, g, cpu_cycles[t])
    BY <1>2, <1>4 DEF Fits, Ready, Owes
<1>6. Remarks(t, c, g)
    BY <1>1, <1>2, <1>4 DEF Remarks, Hooked!Marked, Hooked!OnlyReads, Hooked!stackVars
<1> QED
    BY <1>1, <1>2, <1>4, <1>5, <1>6, ReadsKeep DEF c

\* A step of the macro that ends it without a move.
LEMMA OverKeeps ==
    ASSUME HookInv, NEW t \in Hookers, Hooked!OnlyReads, NEW n \in Nat, n = Len(calls[t]),
           calls[t] # <<>>, NEW c \in Hooked!Call, c = Hooked!Top(t),
           c.at \in Hooked!Deciding, Fits(t, n, c, cpu_cycles[t]),
           Hooked!Becomes(t, Hooked!Over(c)),
           \/ c.early \/ Hooked!Interrupts(t, n, Hooked!Marked)
           \/ Hooked!Within(cpu_cycles[t], c.time)
    PROVE  HookInv'
<1>1. cpu_cycles[t] \in Int
    BY HookTypes DEF HookInv
<1>2. /\ Hooked!Over(c) \in Hooked!Call /\ Fits(t, n, Hooked!Over(c), cpu_cycles[t])
      /\ Hooked!Over(c).at \in {"real", "done"} /\ Hooked!Over(c).f = c.f
    BY <1>1, OverFits
<1>3. Remarks(t, c, Hooked!Over(c))
    BY <1>2 DEF Remarks, Hooked!Marked, Hooked!Deciding, Hooked!OnlyReads, Hooked!stackVars
<1>4. c.at \notin {"look", "moving"}
    BY DEF Hooked!Deciding
<1> QED
    BY <1>2, <1>3, <1>4, ReadsKeep

LEMMA ReadCurKeeps ==
    ASSUME HookInv, NEW t \in Hookers, Hooked!ReadCur(t)
    PROVE  HookInv'
<1> DEFINE c == Hooked!Top(t)
           g == [c EXCEPT !.at = "test", !.last = Hooked!LongAgo, !.cur = now]
<1>1. Hooked!At(t, "cur") /\ Hooked!OnlyReads
    BY DEF Hooked!ReadCur
<1>2. PICK n \in Nat : /\ n = Len(calls[t]) /\ calls[t] # <<>> /\ c \in Hooked!Call
                       /\ c.at = "cur" /\ Fits(t, n, c, cpu_cycles[t])
    BY <1>1, MacroFinds
<1>3. cpu_cycles[t] \in Int /\ now \in Nat /\ c.time \in Nat /\ c.last \in Int
    BY <1>2, HookTypes DEF HookInv, Hooked!Call
<1>4. c.time <= now /\ (c.last = cpu_cycles[t] \/ c.time <= cpu_cycles[t])
    BY <1>2 DEF Fits
<1>5. CASE Hooked!PeriodIsOver(now, c.last)
    <2>1. Hooked!Becomes(t, g)
        BY <1>5 DEF Hooked!ReadCur
    <2>2. /\ g \in Hooked!Call /\ g.f = c.f /\ g.time = c.time /\ g.early = c.early
          /\ g.at = "test" /\ g.cur = now
        BY <1>2, <1>3, HookConstants DEF Hooked!Call, Hooked!Deciding
    <2> HIDE DEF g, c
    <2>3. g.time <= g.cur /\ g.cur <= now
        BY <1>3, <1>4, <2>2
    <2>4. Fits(t, n, g, cpu_cycles[t])
        BY <1>2, <2>2, <2>3 DEF Fits, Ready, Owes
    <2>5. Remarks(t, c, g)
        BY <1>1, <1>2, <2>2 DEF Remarks, Hooked!Marked, Hooked!OnlyReads, Hooked!stackVars
    <2> QED
        BY <1>1, <1>2, <2>1, <2>2, <2>4, <2>5, ReadsKeep DEF c
<1>6. CASE ~Hooked!PeriodIsOver(now, c.last)
    <2>1. Hooked!Becomes(t, Hooked!Over(c))
        BY <1>6 DEF Hooked!ReadCur
    <2>2. Hooked!Within(cpu_cycles[t], c.time)
        <3>1. CASE c.time <= cpu_cycles[t]
            BY <1>3, <3>1, WithinNow
        <3>2. CASE c.last = cpu_cycles[t]
            <4>1. Hooked!Within(c.last, c.time)
                BY <1>3, <1>4, <1>6, NotOver
            <4> QED
                BY <3>2, <4>1
        <3> QED
            BY <1>4, <3>1, <3>2
    <2>3. c.at \in Hooked!Deciding
        BY <1>2 DEF Hooked!Deciding
    <2> QED
        BY <1>1, <1>2, <2>1, <2>2, <2>3, OverKeeps
<1> QED
    BY <1>5, <1>6

LEMMA FindKeeps ==
    ASSUME HookInv, NEW t \in Hookers, Hooked!Find(t)
    PROVE  HookInv'
<1> DEFINE c == Hooked!Top(t)
           g == [c EXCEPT !.at = "test", !.seen = moves[t]]
<1>1. Hooked!At(t, "find") /\ Hooked!OnlyReads
    BY DEF Hooked!Find
<1>2. PICK n \in Nat : /\ n = Len(calls[t]) /\ calls[t] # <<>> /\ c \in Hooked!Call
                       /\ c.at = "find" /\ Fits(t, n, c, cpu_cycles[t])
    BY <1>1, MacroFinds
<1>3. CASE inited
    <2>1. Hooked!Becomes(t, g)
        BY <1>3 DEF Hooked!Find
    <2>2. moves[t] \in Nat
        BY HookTypes DEF HookInv
    <2>3. /\ g \in Hooked!Call /\ g.f = c.f /\ g.time = c.time /\ g.early = c.early
          /\ g.at = "test"
        BY <1>2, <2>2 DEF Hooked!Call, Hooked!Deciding
    <2> HIDE DEF g, c
    <2>4. Fits(t, n, g, cpu_cycles[t])
        BY <1>2, <2>3 DEF Fits, Ready, Owes
    <2>5. Remarks(t, c, g)
        BY <1>1, <1>2, <2>3 DEF Remarks, Hooked!Marked, Hooked!OnlyReads, Hooked!stackVars
    <2> QED
        BY <1>1, <1>2, <2>1, <2>3, <2>4, <2>5, ReadsKeep DEF c
<1>4. CASE ~inited
    <2>1. Hooked!Becomes(t, Hooked!Over(c))
        BY <1>4 DEF Hooked!Find
    <2>2. c.early /\ c.at \in Hooked!Deciding
        BY <1>2, <1>4 DEF Fits, Hooked!Deciding
    <2> QED
        BY <1>1, <1>2, <2>1, <2>2, OverKeeps
<1> QED
    BY <1>3, <1>4

\* Where the metadata says that the stack is being moved, a hook below is moving it.
LEMMA MarkedBelow ==
    ASSUME HookInv, NEW t \in Hookers, NEW n \in Nat, calls[t] # <<>>, n = Len(calls[t]),
           is_randomizing[t], calls[t][n].at \notin Hooked!Marked
    PROVE  Hooked!Interrupts(t, n, Hooked!Marked)
<1>1. DOMAIN calls[t] = 1 .. n
    BY TopTypes
<1>2. PICK i \in 1 .. n : Bars(t, i)
    BY <1>1 DEF HookInv, HooksOK, MarkOK
<1>3. i \in 1 .. n - 1
    <2>1. i # n
        BY <1>2 DEF Bars
    <2> QED
        BY <2>1
<1> QED
    BY <1>2, <1>3 DEF Bars, Hooked!Interrupts

LEMMA TestKeeps ==
    ASSUME HookInv, NEW t \in Hookers, Hooked!Test(t)
    PROVE  HookInv'
<1> DEFINE c == Hooked!Top(t)
           g == [c EXCEPT !.at = IF build = "buddy" THEN "open" ELSE "set"]
<1>1. Hooked!At(t, "test") /\ Hooked!OnlyReads
    BY DEF Hooked!Test
<1>2. PICK n \in Nat : /\ n = Len(calls[t]) /\ calls[t] # <<>> /\ c \in Hooked!Call
                       /\ c = calls[t][n]
                       /\ c.at = "test" /\ Fits(t, n, c, cpu_cycles[t])
    BY <1>1, MacroFinds
<1>3. CASE inited /\ ~is_randomizing[t]
    <2>1. Hooked!Becomes(t, g)
        BY <1>3 DEF Hooked!Test
    <2>2. /\ g \in Hooked!Call /\ g.f = c.f /\ g.time = c.time /\ g.early = c.early
          /\ g.at = (IF build = "buddy" THEN "open" ELSE "set") /\ g.cur = c.cur
        BY <1>2 DEF Hooked!Call, Hooked!Deciding
    <2> HIDE DEF g, c
    <2>3. Fits(t, n, g, cpu_cycles[t])
        BY <1>2, <2>2 DEF Fits, Ready, Owes
    <2>4. Remarks(t, c, g)
        BY <1>1, <1>2, <1>3, <2>2 DEF Remarks, Hooked!Marked, Hooked!OnlyReads, Hooked!stackVars
    <2> QED
        BY <1>1, <1>2, <2>1, <2>2, <2>3, <2>4, ReadsKeep DEF c
<1>4. CASE ~(inited /\ ~is_randomizing[t])
    <2>1. Hooked!Becomes(t, Hooked!Over(c))
        BY <1>4 DEF Hooked!Test
    <2>2. c.at \in Hooked!Deciding /\ c.at \notin Hooked!Marked
        BY <1>2 DEF Hooked!Deciding, Hooked!Marked
    <2>3. c.early \/ Hooked!Interrupts(t, n, Hooked!Marked)
        BY <1>2, <1>4, <2>2, MarkedBelow DEF Fits
    <2> QED
        BY <1>1, <1>2, <2>1, <2>2, <2>3, OverKeeps
<1> QED
    BY <1>3, <1>4

LEMMA OpenKeeps ==
    ASSUME HookInv, NEW t \in Hookers, Hooked!Open(t)
    PROVE  HookInv'
<1> DEFINE c == Hooked!Top(t)
           g == [c EXCEPT !.at = "set", !.seen = moves[t]]
<1>1. Hooked!At(t, "open") /\ Hooked!OnlyReads /\ Hooked!Becomes(t, g)
    BY DEF Hooked!Open
<1>2. PICK n \in Nat : /\ n = Len(calls[t]) /\ calls[t] # <<>> /\ c \in Hooked!Call
                       /\ c.at = "open" /\ Fits(t, n, c, cpu_cycles[t])
    BY <1>1, MacroFinds
<1>3. moves[t] \in Nat
    BY HookTypes DEF HookInv
<1>4. /\ g \in Hooked!Call /\ g.f = c.f /\ g.time = c.time /\ g.early = c.early
      /\ g.at = "set" /\ g.cur = c.cur
    BY <1>2, <1>3 DEF Hooked!Call, Hooked!Deciding
<1> HIDE DEF g, c
<1>5. Fits(t, n, g, cpu_cycles[t])
    BY <1>2, <1>4 DEF Fits, Ready, Owes
<1>6. Remarks(t, c, g)
    BY <1>1, <1>2, <1>4 DEF Remarks, Hooked!Marked, Hooked!OnlyReads, Hooked!stackVars
<1> QED
    BY <1>1, <1>2, <1>4, <1>5, <1>6, ReadsKeep DEF c

LEMMA ClockKeeps ==
    ASSUME HookInv, NEW t \in Hookers, Hooked!Clock(t)
    PROVE  HookInv'
<1> DEFINE c == Hooked!Top(t)
           over == Hooked!PeriodIsOver(now, cpu_cycles[t])
           g == IF over THEN [c EXCEPT !.at = "stamp", !.cur = now] ELSE [c EXCEPT !.at = "quit"]
<1>1. Hooked!At(t, "clock") /\ Hooked!OnlyReads /\ Hooked!Becomes(t, g)
    BY DEF Hooked!Clock
<1>2. PICK n \in Nat : /\ n = Len(calls[t]) /\ calls[t] # <<>> /\ c \in Hooked!Call
                       /\ c.at = "clock" /\ Fits(t, n, c, cpu_cycles[t])
    BY <1>1, MacroFinds
<1>3. cpu_cycles[t] \in Int /\ now \in Nat /\ c.time \in Nat /\ c.time <= now
    BY <1>2, HookTypes DEF HookInv, Hooked!Call, Fits
<1>4. /\ g \in Hooked!Call /\ g.f = c.f /\ g.time = c.time /\ g.early = c.early
      /\ over => g.at = "stamp" /\ g.cur = now
      /\ ~over => g.at = "quit"
    BY <1>2, <1>3 DEF Hooked!Call, Hooked!Marked
<1>5. ~over => Hooked!Within(cpu_cycles[t], c.time)
    BY <1>3, NotOver
<1> HIDE DEF g, c, over
<1>6. Fits(t, n, g, cpu_cycles[t])
    <2>1. CASE over
        <3>1. g.time <= g.cur /\ g.cur <= now
            BY <1>3, <1>4, <2>1
        <3> QED
            BY <1>2, <1>4, <2>1, <3>1 DEF Fits, Ready, Owes
    <2>2. CASE ~over
        BY <1>2, <1>4, <1>5, <2>2 DEF Fits, Ready, Owes
    <2> QED
        BY <2>1, <2>2
<1>7. Remarks(t, c, g)
    BY <1>1, <1>2, <1>4 DEF Remarks, Hooked!Marked, Hooked!OnlyReads, Hooked!stackVars
<1> QED
    BY <1>1, <1>2, <1>4, <1>6, <1>7, ReadsKeep DEF c

LEMMA SetKeeps ==
    ASSUME HookInv, NEW t \in Hookers, Hooked!Set(t)
    PROVE  HookInv'
<1> DEFINE c == Hooked!Top(t)
           g == [c EXCEPT !.at = IF build = "buddy" THEN "stamp" ELSE "clock", !.seen = 0]
<1>1. /\ Hooked!At(t, "set") /\ Hooked!Becomes(t, g)
      /\ is_randomizing' = [is_randomizing EXCEPT ![t] = TRUE]
      /\ UNCHANGED <<build, now, resolved, inited, prepared, cpu_cycles, moved, failed, moves,
                     count, crashed>>
    BY DEF Hooked!Set, Hooked!initVars, Hooked!moveVars
<1>2. PICK n \in Nat : /\ n = Len(calls[t]) /\ calls[t] # <<>> /\ c \in Hooked!Call
                       /\ c.at = "set" /\ c.f \in resolved /\ Fits(t, n, c, cpu_cycles[t])
    BY <1>1, MacroFinds
<1>3. /\ g \in Hooked!Call /\ g.f = c.f /\ g.time = c.time /\ g.early = c.early
      /\ g.at = (IF build = "buddy" THEN "stamp" ELSE "clock") /\ g.cur = c.cur
    BY <1>2 DEF Hooked!Call, Hooked!Marked
<1>4. /\ cpu_cycles \in [Hookers -> Clocks] /\ moved \in [Hookers -> Clocks]
      /\ failed \in [Hookers -> Clocks] /\ moves \in [Hookers -> Nat] /\ cpu_cycles[t] <= now
      /\ is_randomizing \in [Hookers -> BOOLEAN] /\ resolved \subseteq Hooked!Hooks
    BY HookTypes DEF HookInv, HooksOK
<1>5. PICK clock \in Clocks, m \in Clocks, e \in Clocks :
          clock = cpu_cycles[t] /\ m = moved[t] /\ e = failed[t]
    BY <1>4
<1>6. calls' = [calls EXCEPT ![t] = [calls[t] EXCEPT ![n] = g]]
    BY <1>1, <1>2 DEF Hooked!Becomes
<1> HIDE DEF g, c
<1>7. Fits(t, n, g, clock)
    BY <1>2, <1>3, <1>5 DEF Fits, Ready, Owes
<1>8. /\ is_randomizing' \in [Hookers -> BOOLEAN] /\ is_randomizing'[t]
      /\ \A u \in Hookers \ {t} : is_randomizing'[u] = is_randomizing[u]
    BY <1>1, <1>4
<1>9. Remarks(t, c, g)
    BY <1>2, <1>3, <1>8 DEF Remarks, Hooked!Marked
<1>10. /\ cpu_cycles' = [cpu_cycles EXCEPT ![t] = clock]
       /\ moved' = [moved EXCEPT ![t] = m] /\ failed' = [failed EXCEPT ![t] = e]
       /\ moves' \in [Hookers -> Nat] /\ resolved \subseteq resolved'
       /\ resolved' \subseteq Hooked!Hooks /\ g.f \in resolved'
    BY <1>1, <1>2, <1>3, <1>4, <1>5
<1>11. /\ clock = cpu_cycles[t] /\ m = moved[t] /\ e = failed[t] /\ c.at # "moving"
       /\ clock <= now /\ n = Len(calls[t]) /\ calls[t] # <<>> /\ g \in Hooked!Call
       /\ UNCHANGED <<build, now, inited, prepared, count, crashed>>
    BY <1>1, <1>2, <1>3, <1>4, <1>5
<1> QED
    BY <1>6, <1>7, <1>8, <1>9, <1>10, <1>11, HookSteps DEF c

LEMMA StampKeeps ==
    ASSUME HookInv, NEW t \in Hookers, Hooked!Stamp(t)
    PROVE  HookInv'
<1> DEFINE c == Hooked!Top(t)
           g == [c EXCEPT !.at = "moving", !.cur = 0]
<1>1. /\ Hooked!At(t, "stamp") /\ Hooked!Becomes(t, g)
      /\ cpu_cycles' = [cpu_cycles EXCEPT ![t] = c.cur]
      /\ UNCHANGED <<build, now, resolved, inited, prepared, is_randomizing, moved, failed, moves,
                     count, crashed>>
    BY DEF Hooked!Stamp, Hooked!initVars, Hooked!moveVars
<1>2. PICK n \in Nat : /\ n = Len(calls[t]) /\ calls[t] # <<>> /\ c \in Hooked!Call
                       /\ c = calls[t][n] /\ DOMAIN calls[t] = 1 .. n
                       /\ c.at = "stamp" /\ c.f \in resolved /\ Fits(t, n, c, cpu_cycles[t])
    BY <1>1, MacroFinds
<1>3. /\ g \in Hooked!Call /\ g.f = c.f /\ g.time = c.time /\ g.early = c.early
      /\ g.at = "moving"
    BY <1>2 DEF Hooked!Call, Hooked!Marked
<1>4. /\ moved \in [Hookers -> Clocks] /\ failed \in [Hookers -> Clocks]
      /\ moves \in [Hookers -> Nat] /\ now \in 0 .. MaxTime /\ now \in Nat
      /\ is_randomizing \in [Hookers -> BOOLEAN] /\ resolved \subseteq Hooked!Hooks
    BY HookTypes DEF HookInv
<1>5. c.cur \in Nat /\ c.time \in Nat /\ c.time <= c.cur /\ c.cur <= now
    BY <1>2 DEF Fits, Ready, Hooked!Call
<1>6. c.cur \in Clocks
    BY <1>4, <1>5, HookConstants DEF Clocks
<1>7. PICK clock \in Clocks, m \in Clocks, e \in Clocks :
          clock = c.cur /\ m = moved[t] /\ e = failed[t]
    BY <1>4, <1>6
<1>8. \A i \in 1 .. n : calls[t][i].time <= clock
    <2>1. ASSUME NEW i \in 1 .. n  PROVE calls[t][i].time <= c.cur
        <3>1. i = n \/ i \in 1 .. n - 1
            OBVIOUS
        <3>2. calls[t][i].time <= c.time
            <4>1. CASE i = n
                BY <1>2, <1>5, <4>1
            <4>2. CASE i \in 1 .. n - 1
                BY <1>2, <4>2 DEF Fits
            <4> QED
                BY <3>1, <4>1, <4>2
        <3>3. calls[t][i].time \in Nat
            <4>1. calls[t][i] \in Hooked!Call
                BY <1>2, TopTypes
            <4> QED
                BY <4>1 DEF Hooked!Call
        <3> QED
            BY <1>5, <3>2, <3>3
    <2> QED
        BY <1>7, <2>1
<1>9. calls' = [calls EXCEPT ![t] = [calls[t] EXCEPT ![n] = g]]
    BY <1>1, <1>2 DEF Hooked!Becomes
<1> HIDE DEF g, c
<1>10. Fits(t, n, g, clock)
    <2>1. g.time <= clock
        BY <1>3, <1>5, <1>7
    <2> QED
        BY <1>2, <1>3, <2>1 DEF Fits, Ready, Owes
<1>11. Remarks(t, c, g)
    BY <1>1, <1>2, <1>3 DEF Remarks, Hooked!Marked
<1>12. /\ cpu_cycles' = [cpu_cycles EXCEPT ![t] = clock]
       /\ moved' = [moved EXCEPT ![t] = m] /\ failed' = [failed EXCEPT ![t] = e]
       /\ moves' \in [Hookers -> Nat] /\ resolved \subseteq resolved'
       /\ resolved' \subseteq Hooked!Hooks /\ g.f \in resolved' /\ clock <= now
       /\ is_randomizing' \in [Hookers -> BOOLEAN]
       /\ \A u \in Hookers \ {t} : is_randomizing'[u] = is_randomizing[u]
    BY <1>1, <1>2, <1>3, <1>4, <1>5, <1>7
<1> QED
    BY <1>1, <1>2, <1>3, <1>8, <1>9, <1>10, <1>11, <1>12, HookSteps DEF c

\* A step that clears the mark: the hook leaves, or its move has ended or failed.
LEMMA ClearsKeep ==
    ASSUME HookInv, NEW t \in Hookers, NEW n \in Nat, n = Len(calls[t]), calls[t] # <<>>,
           NEW c \in Hooked!Call, c = Hooked!Top(t), c.at \in {"quit", "moving"},
           c.f \in resolved, Fits(t, n, c, cpu_cycles[t]),
           Hooked!Becomes(t, Hooked!Over(c)), Hooked!ClearMark(t),
           UNCHANGED <<build, now, resolved, inited, prepared, cpu_cycles, count, crashed>>,
           NEW m \in Clocks, NEW e \in Clocks, moves' \in [Hookers -> Nat],
           moved' = [moved EXCEPT ![t] = m], failed' = [failed EXCEPT ![t] = e],
           cpu_cycles[t] \in {m, e} \/ (c.at # "moving" /\ m = moved[t] /\ e = failed[t])
    PROVE  HookInv'
<1> DEFINE g == Hooked!Over(c)
<1>1. /\ cpu_cycles \in [Hookers -> Clocks] /\ is_randomizing \in [Hookers -> BOOLEAN]
      /\ resolved \subseteq Hooked!Hooks /\ cpu_cycles[t] \in Int /\ cpu_cycles[t] <= now
    BY HookTypes DEF HookInv, HooksOK
<1>2. Hooked!Within(cpu_cycles[t], c.time)
    <2>1. CASE c.at = "quit"
        BY <2>1 DEF Fits
    <2>2. CASE c.at = "moving"
        <3>1. c.time <= cpu_cycles[t] /\ c.time \in Int
            BY <2>2 DEF Fits, Hooked!Call
        <3> QED
            BY <1>1, <3>1, WithinNow
    <2> QED
        BY <2>1, <2>2
<1>3. /\ g \in Hooked!Call /\ Fits(t, n, g, cpu_cycles[t])
      /\ g.at \in {"real", "done"} /\ g.f = c.f
    BY <1>1, <1>2, OverFits
<1>4. PICK clock \in Clocks : clock = cpu_cycles[t]
    BY <1>1
<1>5. calls' = [calls EXCEPT ![t] = [calls[t] EXCEPT ![n] = g]]
    BY DEF Hooked!Becomes
<1> HIDE DEF g
<1>6. /\ is_randomizing' \in [Hookers -> BOOLEAN] /\ ~is_randomizing'[t]
      /\ \A u \in Hookers \ {t} : is_randomizing'[u] = is_randomizing[u]
    BY <1>1 DEF Hooked!ClearMark
<1>7. Remarks(t, c, g)
    BY <1>3, <1>6 DEF Remarks, Hooked!Marked
<1>8. /\ cpu_cycles' = [cpu_cycles EXCEPT ![t] = clock] /\ resolved \subseteq resolved'
      /\ resolved' \subseteq Hooked!Hooks /\ g.f \in resolved'
    BY <1>1, <1>3, <1>4
<1> QED
    BY <1>1, <1>3, <1>4, <1>5, <1>6, <1>7, <1>8, HookSteps

LEMMA ClearingKeeps ==
    ASSUME HookInv, NEW t \in Hookers, Hooked!Quit(t) \/ Hooked!Moved(t) \/ Hooked!Failed(t)
    PROVE  HookInv'
<1>1. PICK c \in Hooked!Call, n \in Nat :
          /\ c = Hooked!Top(t) /\ n = Len(calls[t]) /\ calls[t] # <<>>
          /\ c.at \in {"quit", "moving"} /\ c.f \in resolved /\ Fits(t, n, c, cpu_cycles[t])
          /\ Hooked!Moved(t) \/ Hooked!Failed(t) => c.at = "moving"
          /\ Hooked!Quit(t) => c.at = "quit"
    <2>1. PICK place \in {"quit", "moving"} :
              /\ Hooked!At(t, place)
              /\ Hooked!Moved(t) \/ Hooked!Failed(t) => place = "moving"
              /\ Hooked!Quit(t) => place = "quit"
        BY DEF Hooked!Quit, Hooked!Moved, Hooked!Failed, Hooked!At
    <2>2. place # "look"
        BY <2>1
    <2> QED
        BY <2>1, <2>2, MacroFinds
<1>2. /\ Hooked!Becomes(t, Hooked!Over(c)) /\ Hooked!ClearMark(t)
      /\ UNCHANGED <<build, now, resolved, inited, prepared, cpu_cycles, count, crashed>>
    BY <1>1 DEF Hooked!Quit, Hooked!Moved, Hooked!Failed, Hooked!initVars
<1>3. /\ moved \in [Hookers -> Clocks] /\ failed \in [Hookers -> Clocks]
      /\ moves \in [Hookers -> Nat] /\ cpu_cycles[t] \in Clocks
    BY HookTypes DEF HookInv
<1>4. PICK k \in Clocks, a \in Clocks, b \in Clocks :
          k = cpu_cycles[t] /\ a = moved[t] /\ b = failed[t]
    BY <1>3
<1>5. CASE Hooked!Quit(t)
    <2>1. UNCHANGED <<moved, failed, moves>>
        BY <1>5 DEF Hooked!Quit, Hooked!moveVars
    <2>2. /\ moved' = [moved EXCEPT ![t] = a] /\ failed' = [failed EXCEPT ![t] = b]
          /\ moves' \in [Hookers -> Nat] /\ c.at # "moving"
        BY <1>1, <1>3, <1>4, <1>5, <2>1
    <2> QED
        BY <1>1, <1>2, <1>4, <2>2, ClearsKeep
<1>6. CASE Hooked!Moved(t)
    <2>1. /\ moved' = [moved EXCEPT ![t] = k] /\ failed' = [failed EXCEPT ![t] = b]
          /\ moves' \in [Hookers -> Nat]
        BY <1>3, <1>4, <1>6 DEF Hooked!Moved
    <2> QED
        BY <1>1, <1>2, <1>4, <2>1, ClearsKeep
<1>7. CASE Hooked!Failed(t)
    <2>1. /\ moved' = [moved EXCEPT ![t] = a] /\ failed' = [failed EXCEPT ![t] = k]
          /\ moves' \in [Hookers -> Nat]
        BY <1>3, <1>4, <1>7 DEF Hooked!Failed
    <2> QED
        BY <1>1, <1>2, <1>4, <2>1, ClearsKeep
<1> QED
    BY <1>5, <1>6, <1>7

-----------------------------------------------------------------------------
(* The constructor, the clock and a fault, which change no hook.             *)

LEMMA OutsideKeeps ==
    ASSUME HookInv, Hooked!TypeOK', crashed' # "null",
           UNCHANGED <<build, calls, is_randomizing, cpu_cycles, moved, failed>>,
           resolved \subseteq resolved', now <= now', inited => inited'
    PROVE  HookInv'
<1>1. \A t \in Hookers : HooksOK(t)'
    BY ThreadStays
<1> QED
    BY <1>1 DEF HookInv

LEMMA OutsideNext ==
    ASSUME HookInv,
           \/ Hooked!buddy_init_rt_lib_hooker \/ Hooked!InitMain \/ Hooked!Tick
           \/ \E t \in Hookers : Hooked!Faults(t)
    PROVE  HookInv'
<1>1. now \in Nat /\ now <= now /\ now \in 0 .. MaxTime /\ crashed # "null"
    BY HookTypes DEF HookInv
<1>2. CASE Hooked!buddy_init_rt_lib_hooker
    <2>1. /\ resolved' = resolved \cup Enabled[build] /\ prepared' = TRUE
          /\ UNCHANGED <<build, now, inited, calls, is_randomizing, cpu_cycles, moved, failed, moves,
                         count, crashed>>
        BY <1>2 DEF Hooked!buddy_init_rt_lib_hooker, Hooked!stackVars, Hooked!moveVars
    <2>2. resolved' \subseteq Hooked!Hooks
        BY <2>1, HookTypes, HookConstants DEF HookInv
    <2>3. Hooked!TypeOK'
        BY <2>1, <2>2 DEF HookInv, Hooked!TypeOK
    <2> QED
        BY <1>1, <2>1, <2>3, OutsideKeeps
<1>3. CASE Hooked!InitMain
    <2>1. /\ inited' = TRUE
          /\ UNCHANGED <<build, now, resolved, prepared, calls, is_randomizing, cpu_cycles, moved,
                         failed, moves, count, crashed>>
        BY <1>3 DEF Hooked!InitMain, Hooked!stackVars, Hooked!moveVars
    <2>2. Hooked!TypeOK'
        BY <2>1 DEF HookInv, Hooked!TypeOK
    <2> QED
        BY <1>1, <2>1, <2>2, OutsideKeeps
<1>4. CASE Hooked!Tick
    <2>1. /\ now < MaxTime /\ now' = now + 1
          /\ UNCHANGED <<build, resolved, inited, prepared, calls, is_randomizing, cpu_cycles, moved,
                         failed, moves, count, crashed>>
        BY <1>4 DEF Hooked!Tick, Hooked!initVars, Hooked!stackVars, Hooked!moveVars
    <2>2. now <= now' /\ now' \in 0 .. MaxTime
        BY <1>1, <2>1, HookConstants
    <2>3. Hooked!TypeOK'
        BY <2>1, <2>2 DEF HookInv, Hooked!TypeOK
    <2> QED
        BY <1>1, <2>1, <2>2, <2>3, OutsideKeeps
<1>5. CASE \E t \in Hookers : Hooked!Faults(t)
    <2>1. /\ crashed' = "gone"
          /\ UNCHANGED <<build, now, resolved, inited, prepared, calls, is_randomizing, cpu_cycles,
                         moved, failed, moves, count>>
        BY <1>5 DEF Hooked!Faults, Hooked!initVars, Hooked!stackVars, Hooked!moveVars
    <2>2. Hooked!TypeOK'
        BY <2>1 DEF HookInv, Hooked!TypeOK
    <2> QED
        BY <1>1, <2>1, <2>2, OutsideKeeps
<1> QED
    BY <1>2, <1>3, <1>4, <1>5

LEMMA HookNext == HookInv /\ [Hooked!Next]_hookvars => HookInv'
<1> SUFFICES ASSUME HookInv, [Hooked!Next]_hookvars  PROVE HookInv'
    OBVIOUS
<1>1. ASSUME NEW t \in Hookers, Hooked!Hook(t)  PROVE HookInv'
    BY <1>1, HookPushes, HookPops, LookKeeps, RealKeeps DEF Hooked!Hook
<1>2. ASSUME NEW t \in Hookers, Hooked!Macro(t)  PROVE HookInv'
    BY <1>2, ReadLastKeeps, ReadCurKeeps, FindKeeps, TestKeeps, OpenKeeps, SetKeeps, ClockKeeps,
       StampKeeps, ClearingKeeps, OutsideNext DEF Hooked!Macro
<1>3. CASE UNCHANGED hookvars
    <2>1. UNCHANGED <<build, now, resolved, inited, prepared, calls, is_randomizing, cpu_cycles,
                      moved, failed, moves, count, crashed>>
        BY <1>3 DEF hookvars
    <2>2. now <= now
        BY HookTypes DEF HookInv
    <2>3. Hooked!TypeOK'
        BY <2>1 DEF HookInv, Hooked!TypeOK
    <2> QED
        BY <2>1, <2>2, <2>3, OutsideKeeps DEF HookInv
<1> QED
    BY <1>1, <1>2, <1>3, OutsideNext DEF Hooked!Next

-----------------------------------------------------------------------------
(* What the invariant says of the hooks on top.                              *)

LEMMA TopOwes ==
    ASSUME HookInv, NEW t \in Hookers, calls[t] # <<>>, Owes(Hooked!Top(t))
    PROVE  Hooked!Answered(t, Hooked!Top(t).time)
<1>1. PICK n \in Nat : n = Len(calls[t]) /\ DOMAIN calls[t] = 1 .. n /\ Hooked!Top(t) = calls[t][n]
                       /\ Fits(t, n, Hooked!Top(t), cpu_cycles[t])
    BY TopTypes DEF HookOK
<1>2. CASE Hooked!Interrupts(t, n, Hooked!Marked)
    BY <1>1, <1>2 DEF Hooked!Interrupts, Hooked!Marked, Hooked!Answered
<1>3. CASE Hooked!Within(cpu_cycles[t], Hooked!Top(t).time)
    <2>1. CASE cpu_cycles[t] \in {moved[t], failed[t]}
        BY <1>3, <2>1 DEF Hooked!Answered
    <2>2. CASE \E i \in DOMAIN calls[t] : calls[t][i].at = "moving"
        <3>1. PICK i \in 1 .. n : calls[t][i].at = "moving"
            BY <1>1, <2>2
        <3>2. i # n
            BY <1>1, <3>1 DEF Owes
        <3>3. i \in 1 .. n - 1
            BY <3>2
        <3> QED
            BY <1>1, <3>1, <3>3 DEF Hooked!Interrupts, Hooked!Answered
    <2> QED
        BY <2>1, <2>2 DEF HookInv, HooksOK, Known
<1> QED
    BY <1>1, <1>2, <1>3 DEF Fits

LEMMA OneOfThem ==
    ASSUME NEW S, \A i, j \in S : i = j
    PROVE  Hooked!Cardinality(S) <= 1
<1>1. Hooked!Cardinality(S) = Cardinality(S)
    BY DEF Hooked!Cardinality, Cardinality
<1>2. CASE S = {}
    BY <1>1, <1>2, FS_EmptySet
<1>3. CASE S # {}
    <2>1. PICK i \in S : TRUE
        BY <1>3
    <2>2. S = {i}
        BY <2>1
    <2>3. Cardinality({i}) = 1
        BY FS_Singleton
    <2> QED
        BY <1>1, <2>2, <2>3
<1> QED
    BY <1>2, <1>3

LEMMA HooksAreInOrder == HookInv => Hooked!HooksInOrder
<1> SUFFICES ASSUME HookInv  PROVE Hooked!HooksInOrder
    OBVIOUS
<1>1. Hooked!TypeOK /\ Hooked!NeverNull
    BY DEF HookInv, Hooked!NeverNull
<1>2. Hooked!SentThenMoved
    BY TopOwes DEF Hooked!SentThenMoved, Hooked!At, Owes
<1>3. Hooked!MovedThenReceived
    BY TopOwes DEF Hooked!MovedThenReceived, Hooked!At, Owes
<1>4. Hooked!OneMove
    <2> SUFFICES ASSUME NEW t \in Hookers
                 PROVE  LET marked == {i \in DOMAIN calls[t] : calls[t][i].at \in Hooked!Marked}
                        IN  /\ Hooked!Cardinality(marked) <= 1
                            /\ is_randomizing[t] <=> marked # {}
        BY DEF Hooked!OneMove
    <2>1. /\ DOMAIN calls[t] = 1 .. Len(calls[t])
          /\ \A i, j \in DOMAIN calls[t] : Bars(t, i) /\ Bars(t, j) => j <= i
          /\ is_randomizing[t] <=> \E i \in DOMAIN calls[t] : Bars(t, i)
        BY DEF HookInv, HooksOK, MarkOK
    <2>2. Hooked!Cardinality({i \in DOMAIN calls[t] : calls[t][i].at \in Hooked!Marked}) <= 1
        <3> DEFINE S == {i \in DOMAIN calls[t] : calls[t][i].at \in Hooked!Marked}
        <3>1. ASSUME NEW i \in S, NEW j \in S  PROVE i = j
            <4>1. i <= j /\ j <= i
                BY <2>1 DEF Bars
            <4>2. i \in Int /\ j \in Int
                BY <2>1
            <4> QED
                BY <4>1, <4>2
        <3> HIDE DEF S
        <3>2. Hooked!Cardinality(S) <= 1
            BY <3>1, OneOfThem
        <3> QED
            BY <3>2 DEF S
    <2> QED
        BY <2>1, <2>2 DEF Bars
<1> QED
    BY <1>1, <1>2, <1>3, <1>4 DEF Hooked!HooksInOrder

\* In the builds of gs.rsp and of the buddy run time, whichever hook is called first and
\* wherever a handler interrupts one: no hook calls a NULL pointer; what a hook sends is followed
\* by a move, and what it receives comes after one, at most a period before - made, or attempted
\* in vain - or under way in the hook that is interrupted, unless that one has just decided that
\* no move is due; and no move begins inside another (rt_lib.c 96-117, 258-746).
THEOREM HooksKeepOrder == SpecAll => []HooksInOrder
<1>1. InitAll => HookInv
    BY HookBegins DEF InitAll
<1>2. HookInv /\ [Creating \/ Hooking]_allvars => HookInv'
    <2>1. [Creating \/ Hooking]_allvars => [Hooked!Next]_hookvars
        BY DEF Creating, Hooking, allvars
    <2> QED
        BY <2>1, HookNext
<1> QED
    BY <1>1, <1>2, HooksAreInOrder, PTL DEF SpecAll, HooksInOrder
=============================================================================
