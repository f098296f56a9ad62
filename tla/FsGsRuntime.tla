----------------------------- MODULE FsGsRuntime -----------------------------
(* The run-time library of the FS/GS build, src/FlashStack/fsgs.c.  The gs    *)
(* register leads to a page of metadata, and the metadata to the shadow       *)
(* stack, a mapping of its own.  Both move; between two moves the page is     *)
(* read-only.  A signal handler may call a hooked function, and so            *)
(* fsgs_runtime_rerandomize, in the middle of what its thread was doing.      *)
(*                                                                            *)
(* A region stands for either kind of mapping.  The masking of return         *)
(* addresses (SPA_ENABLE_GS_MSR, off in spa.h) is the matter of SpaCode.      *)
EXTENDS Integers, Sequences

CONSTANTS
    Threads,
    Main,           \* the thread that runs the constructor
    Movers,         \* the threads whose code or handlers call hooked functions
    Regions,        \* what mmap can return
    None,           \* no region, no owner
    AnyRegion,      \* mmap returns any region that is free, or the lowest (a bound
                    \* on the choices of the address space, for liveness)
    Ratio,          \* DEFAULT_CHANGING_MOVING_RATIO
    Capacity,       \* MAX_THREAD_BUF_CNT
    Iterations,     \* PTHREAD_DESTRUCTOR_ITERATIONS
    SignalPlaces,   \* where handlers may run: program counters
    MaxSignals      \* bound on handlers

FsGsAssumption ==
    /\ Main \in Threads /\ Movers \subseteq Threads /\ None \notin Threads \cup Regions
    /\ {Ratio, Capacity, Iterations} \subseteq Nat \ {0} /\ MaxSignals \in Nat /\ AnyRegion \in BOOLEAN

VARIABLES
    own,        \* region -> thread it was mapped for, or None
    ro,         \* the regions that a call has made read-only, metadata of its thread then
    stray,      \* the regions made read-only by a call that a handler had overtaken
    open,       \* threads whose metadata no call has closed since it opened or made them
    meta,       \* region -> struct gs_metadata found there
    gs,         \* thread -> its gs register
    base,       \* thread -> where it is, below all handlers
    call,       \* thread -> its calls of fsgs_runtime_rerandomize, innermost last
    loc,        \* thread -> locals of do_init_shadow_stack and of add_memory_region
    round,      \* thread -> value of thread_cleanup_key
    info,       \* the table thread_info
    lock,       \* holder of the mutex
    scan,       \* index the cleaner is at, 0 while it sleeps
    hook,       \* _pthread_create has been looked up, the cleaner made
    lost,       \* threads that found the table full
    signals,    \* handlers so far
    fault       \* a thread has used pages that are not its own or not writable

tables == <<info, lock, scan, lost>>
closed == <<ro, stray, open>>
memory == <<own, closed, meta>>
vars   == <<memory, gs, base, call, loc, round, tables, hook, signals, fault>>

Slots == 1 .. Capacity
Metadata(self, diff, area, busy, ready, ratio) ==
    [self |-> self, diff |-> diff, area |-> area, busy |-> busy, ready |-> ready,
     ratio |-> ratio]
ZeroMeta == Metadata(None, None, None, FALSE, FALSE, 0)
Frame(pc, ptr, new, area) == [pc |-> pc, ptr |-> ptr, new |-> new, area |-> area]
NoLocals == [meta |-> None, area |-> None, slot |-> 0]
NoEntry == [valid |-> FALSE, meta |-> None, area |-> None, tid |-> None, ripe |-> FALSE]

Readable(t, r) == r # None /\ own[r] = t
Writable(t, r) == Readable(t, r) /\ r \notin ro \cup stray

Crash == /\ fault' = TRUE
         /\ UNCHANGED <<memory, gs, base, call, loc, round, tables, hook, signals>>

-----------------------------------------------------------------------------
(* init_shadow_stack in a new thread.                                        *)

\* get_memory_at_random: it loops until mmap gives it something.
Mapped(t, r) ==
    /\ own[r] = None
    /\ IF AnyRegion THEN TRUE ELSE \A q \in Regions : own[q] = None => r <= q
    /\ own' = [own EXCEPT ![r] = t]

InBase(t, l) == base[t] = l /\ call[t] = <<>>
Goto(t, l) == base' = [base EXCEPT ![t] = l]

InitMeta(t) ==
    /\ InBase(t, "new")
    /\ \E r \in Regions : Mapped(t, r) /\ loc' = [loc EXCEPT ![t].meta = r]
    /\ Goto(t, "area")
    /\ UNCHANGED <<closed, meta, gs, call, round, tables, hook, signals, fault>>

InitArea(t) ==
    /\ InBase(t, "area")
    /\ \E r \in Regions : Mapped(t, r) /\ loc' = [loc EXCEPT ![t].area = r]
    /\ Goto(t, "publish")
    /\ UNCHANGED <<closed, meta, gs, call, round, tables, hook, signals, fault>>

\* Lines 289-309: the metadata is filled in, all but its state, and gs is set.
InitPublish(t) ==
    /\ InBase(t, "publish")
    /\ LET p == loc[t].meta
           a == loc[t].area
       IN  /\ Writable(t, p)
           /\ meta' = [meta EXCEPT ![p] = Metadata(p, a, a, FALSE, FALSE, Ratio)]
           /\ gs' = [gs EXCEPT ![t] = p]
    /\ open' = open \cup {t}
    /\ Goto(t, "info")
    /\ UNCHANGED <<own, ro, stray, call, loc, round, tables, hook, signals, fault>>

\* set_call_stack_info: the C library is asked for the stack, then the state is
\* set through the pointer of before.  A thread other than the first also sets
\* the key of the destructor.
InitInfo(t) ==
    /\ InBase(t, "info")
    /\ Writable(t, loc[t].meta)
    /\ meta' = [meta EXCEPT ![loc[t].meta].ready = TRUE]
    /\ round' = [round EXCEPT ![t] = IF t = Main THEN 0 ELSE 1]
    /\ loc' = [loc EXCEPT ![t] = NoLocals]
    /\ Goto(t, "run")
    /\ UNCHANGED <<own, closed, gs, call, tables, hook, signals, fault>>

\* pthread_create; the child inherits gs.  The first call makes the cleaner.
Create(t) ==
    /\ InBase(t, "run")
    /\ hook' = TRUE
    /\ \E c \in Threads : /\ base[c] = "none"
                          /\ Goto(c, "new")
                          /\ gs' = [gs EXCEPT ![c] = gs[t]]
    /\ UNCHANGED <<memory, call, loc, round, tables, signals, fault>>

-----------------------------------------------------------------------------
(* fsgs_runtime_rerandomize.                                                 *)

Top(t) == call[t][Len(call[t])]
At(t, pc) == call[t] # <<>> /\ Top(t).pc = pc
Step(t, f) == call' = [call EXCEPT ![t] = SubSeq(@, 1, Len(@) - 1) \o <<f>>]
Pop(t) == call' = [call EXCEPT ![t] = SubSeq(@, 1, Len(@) - 1)]
Proceed(t, pc) == Step(t, [Top(t) EXCEPT !.pc = pc])

MayEnterAnyState(m) == ~m.busy
MayEnterBusy(m) == m.ready
\* Lines 571-582; an early return here changes nothing.
MayEnter(m) == m.ready /\ ~m.busy

Enter(t) ==
    LET p == gs[t] IN
    IF ~Readable(t, p) \/ ~Readable(t, meta[p].diff) THEN Crash
    ELSE /\ t \in Movers /\ MayEnter(meta[p])
         /\ call' = [call EXCEPT ![t] = Append(@, Frame("unprotect", meta[p].self, None, None))]
         /\ UNCHANGED <<memory, gs, base, loc, round, tables, hook, fault>>

\* A hooked function is called by the thread's routine or by a destructor of the
\* application.  That wants at most Iterations - 1 rounds (the comment at 707-711) and
\* goes on with them when the region has been handed over earlier.
HookedCall(t) ==
    /\ base[t] \in {"run", "exit"} \/ (base[t] = "end" /\ round[t] < Iterations)
    /\ call[t] = <<>>
    /\ Enter(t)
    /\ UNCHANGED signals

\* ... or by a handler, wherever its thread is.
Place(t) == IF call[t] = <<>> THEN base[t] ELSE Top(t).pc
Signal(t) ==
    /\ Place(t) \in SignalPlaces
    /\ signals < MaxSignals /\ signals' = signals + 1
    /\ Enter(t)

\* Line 583; mprotect of pages that are gone does nothing.
Unprotect(t) ==
    /\ At(t, "unprotect")
    /\ ro' = ro \ {Top(t).ptr} /\ stray' = stray \ {Top(t).ptr}
    /\ Proceed(t, "setbusy")
    /\ UNCHANGED <<open, own, meta, gs, base, loc, round, tables, hook, signals, fault>>

SetBusy(t) ==
    /\ At(t, "setbusy")
    /\ Writable(t, Top(t).ptr)
    /\ meta' = [meta EXCEPT ![Top(t).ptr].busy = TRUE]
    /\ Proceed(t, "period")
    /\ UNCHANGED <<own, closed, gs, base, loc, round, tables, hook, signals, fault>>

TooEarlyStaysBusy(m) == m
\* Lines 591-592: back before the period is over.  The page stays writable.
TooEarly(m) == [m EXCEPT !.busy = FALSE]

Period(t) ==
    /\ At(t, "period")
    /\ LET p == Top(t).ptr
       IN  /\ Writable(t, p)
           /\ \/ /\ meta' = [meta EXCEPT ![p] = TooEarly(@)]
                 /\ open' = open \cup {t}
                 /\ Pop(t)
              \/ /\ meta[p].ratio > 1
                 /\ meta' = [meta EXCEPT ![p].ratio = @ - 1]
                 /\ Proceed(t, "clear") /\ UNCHANGED open
              \/ /\ meta[p].ratio <= 1
                 /\ meta' = [meta EXCEPT ![p].ratio = Ratio]
                 /\ Proceed(t, "mapmeta") /\ UNCHANGED open
    /\ UNCHANGED <<own, ro, stray, gs, base, loc, round, tables, hook, signals, fault>>

MapMeta(t) ==
    /\ At(t, "mapmeta")
    /\ \E r \in Regions : Mapped(t, r) /\ Step(t, [Top(t) EXCEPT !.pc = "maparea", !.new = r])
    /\ UNCHANGED <<closed, meta, gs, base, loc, round, tables, hook, signals, fault>>

MapArea(t) ==
    /\ At(t, "maparea")
    /\ \E r \in Regions : Mapped(t, r) /\ Step(t, [Top(t) EXCEPT !.pc = "copy", !.area = r])
    /\ UNCHANGED <<closed, meta, gs, base, loc, round, tables, hook, signals, fault>>

CopiedKeepsSelf(m, new, area) == [m EXCEPT !.diff = IF m.diff = m.area THEN area ELSE None]
\* Lines 631-635: diff goes with the area.
Copied(m, new, area) ==
    [m EXCEPT !.diff = IF m.diff = m.area THEN area ELSE None, !.self = new]

Copy(t) ==
    /\ At(t, "copy")
    /\ LET f == Top(t)
       IN  /\ Writable(t, f.new)
           /\ meta' = [meta EXCEPT ![f.new] = Copied(meta[f.ptr], f.new, f.area)]
           /\ Proceed(t, "remap")
    /\ UNCHANGED <<own, closed, gs, base, loc, round, tables, hook, signals, fault>>

AreaForgotten(m, area) == m
\* Line 645.
AreaAfter(m, area) == [m EXCEPT !.area = area]

\* What is read-only among the pages stays so where mremap puts them.
Remapped(pages, old, new) == IF old \in pages THEN (pages \ {old}) \cup {new} ELSE pages \ {new}

\* Lines 638-646: the stack moves over the fresh mapping.
Remap(t) ==
    /\ At(t, "remap")
    /\ LET f == Top(t)
           old == meta[f.ptr].area
       IN  /\ Writable(t, f.new)
           /\ own' = [own EXCEPT ![old] = None]
           /\ ro' = Remapped(ro, old, f.area) /\ stray' = Remapped(stray, old, f.area)
           /\ meta' = [meta EXCEPT ![f.new] = AreaAfter(@, f.area)]
    /\ Proceed(t, "setgs")
    /\ UNCHANGED <<open, gs, base, loc, round, tables, hook, signals, fault>>

SetGs(t) ==
    /\ At(t, "setgs")
    /\ gs' = [gs EXCEPT ![t] = Top(t).new]
    /\ Proceed(t, "unmap")
    /\ UNCHANGED <<memory, base, loc, round, tables, hook, signals, fault>>

\* Line 662.
PtrAfter(f) == f.new

Unmap(t) ==
    /\ At(t, "unmap")
    /\ LET f == Top(t)
       IN  /\ own' = [own EXCEPT ![f.ptr] = None]
           /\ ro' = ro \ {f.ptr} /\ stray' = stray \ {f.ptr}
           /\ meta' = [meta EXCEPT ![f.ptr] = ZeroMeta]
           /\ Step(t, [f EXCEPT !.pc = "clear", !.ptr = PtrAfter(f)])
    /\ UNCHANGED <<open, gs, base, loc, round, tables, hook, signals, fault>>

ProtectBoth(f) == {f.ptr, meta[f.ptr].area}
\* Line 667; REAL_META_DATA_SIZE covers the page only.
ProtectedBy(f) == {f.ptr}

Clear(t) ==
    /\ At(t, "clear")
    /\ Writable(t, Top(t).ptr)
    /\ meta' = [meta EXCEPT ![Top(t).ptr].busy = FALSE]
    /\ Proceed(t, "protect")
    /\ UNCHANGED <<own, closed, gs, base, loc, round, tables, hook, signals, fault>>

\* The pointer is that of line 662.  A handler that has moved the metadata since line 665
\* leaves the call with a pointer to a page that is gone, or is by now another mapping.
Protect(t) ==
    /\ At(t, "protect")
    /\ LET hit == {r \in ProtectedBy(Top(t)) : own[r] # None}
       IN  \/ /\ Top(t).ptr = gs[t]
              /\ ro' = ro \cup hit /\ open' = open \ {t} /\ UNCHANGED stray
           \/ /\ Top(t).ptr # gs[t]
              /\ stray' = stray \cup hit /\ UNCHANGED <<ro, open>>
    /\ Pop(t)
    /\ UNCHANGED <<own, meta, gs, base, loc, round, tables, hook, signals, fault>>

\* The page of metadata that the next step of a thread writes to.
Target(t) ==
    CASE call[t] = <<>> /\ base[t] \in {"publish", "info"} -> {loc[t].meta}
      [] call[t] # <<>> /\ Top(t).pc \in {"setbusy", "period", "clear"} -> {Top(t).ptr}
      [] call[t] # <<>> /\ Top(t).pc \in {"copy", "remap"} -> {Top(t).new}
      [] OTHER -> {}

\* A write to a page that is gone, another thread's or read-only.
BadWrite(t) == (\E p \in Target(t) : ~Writable(t, p)) /\ Crash

-----------------------------------------------------------------------------
(* Exit: rounds of destructors, the table, the cleaner.                      *)

ThreadReturn(t) ==
    /\ InBase(t, "run") /\ t # Main
    /\ Goto(t, "exit")
    /\ UNCHANGED <<memory, gs, call, loc, round, tables, hook, signals, fault>>

RearmNever(iter) == FALSE
RearmOnceMore(iter) == iter <= Iterations
\* Line 713: once more, for the destructors of the application.
Rearm(iter) == iter < Iterations

CleanupHandler(t) ==
    /\ InBase(t, "exit")
    /\ IF Rearm(round[t]) THEN round' = [round EXCEPT ![t] = @ + 1] /\ UNCHANGED base
       ELSE Goto(t, "release") /\ UNCHANGED round
    /\ UNCHANGED <<memory, gs, call, loc, tables, hook, signals, fault>>

\* release_shadow_stack reads the metadata; add_memory_region takes the mutex.
Release(t) ==
    /\ InBase(t, "release") /\ lock = None
    /\ IF ~Readable(t, gs[t]) THEN Crash
       ELSE /\ lock' = t
            /\ loc' = [loc EXCEPT ![t] = [meta |-> meta[gs[t]].self, area |-> meta[gs[t]].area,
                                         slot |-> 0]]
            /\ Goto(t, "store")
            /\ UNCHANGED <<memory, gs, call, round, info, scan, lost, hook, signals, fault>>

\* Lines 138-144: the first entry that is not valid, if there is one.
Store(t) ==
    /\ InBase(t, "store")
    /\ \/ \E i \in Slots :
             /\ ~info[i].valid /\ \A j \in 1 .. i - 1 : info[j].valid
             /\ info' = [info EXCEPT ![i] = [valid |-> TRUE, meta |-> loc[t].meta,
                                             area |-> loc[t].area, tid |-> t, ripe |-> FALSE]]
             /\ UNCHANGED lost
       \/ (\A i \in Slots : info[i].valid) /\ lost' = lost \cup {t} /\ UNCHANGED info
    /\ lock' = None
    /\ loc' = [loc EXCEPT ![t] = NoLocals]
    /\ Goto(t, "end")
    /\ UNCHANGED <<memory, gs, call, round, scan, hook, signals, fault>>

ThreadEnd(t) ==
    /\ InBase(t, "end")
    /\ gs' = [gs EXCEPT ![t] = None]
    /\ Goto(t, "gone")
    /\ UNCHANGED <<memory, call, loc, round, tables, hook, signals, fault>>

\* CPU_CYCLES_AFTER_THREAD_EXITING is a hundred seconds (10 ms * 1000 * 10).
Expire(i) ==
    /\ info[i].valid /\ ~info[i].ripe /\ base[info[i].tid] = "gone"
    /\ info' = [info EXCEPT ![i].ripe = TRUE]
    /\ UNCHANGED <<memory, gs, base, call, loc, round, lock, scan, lost, hook, signals, fault>>

CleanerLock ==
    /\ hook /\ scan = 0 /\ lock = None
    /\ lock' = "cleaner" /\ scan' = 1
    /\ UNCHANGED <<memory, gs, base, call, loc, round, info, lost, hook, signals, fault>>

UnmappedStackOnly(e) == {e.area}
\* Lines 159-161.
UnmappedBy(e) == {e.area, e.meta}

CleanerStep ==
    /\ scan \in Slots
    /\ IF info[scan].valid /\ info[scan].ripe
       THEN LET gone == UnmappedBy(info[scan])
            IN  /\ own' = [r \in Regions |-> IF r \in gone THEN None ELSE own[r]]
                /\ meta' = [r \in Regions |-> IF r \in gone THEN ZeroMeta ELSE meta[r]]
                /\ ro' = ro \ gone /\ stray' = stray \ gone /\ UNCHANGED open
                /\ info' = [info EXCEPT ![scan] = NoEntry]
       ELSE UNCHANGED <<memory, info>>
    /\ scan' = scan + 1
    /\ UNCHANGED <<gs, base, call, loc, round, lock, lost, hook, signals, fault>>

CleanerUnlock ==
    /\ scan = Capacity + 1
    /\ lock' = None /\ scan' = 0
    /\ UNCHANGED <<memory, gs, base, call, loc, round, info, lost, hook, signals, fault>>

-----------------------------------------------------------------------------
Init ==
    /\ own = [r \in Regions |-> None] /\ ro = {} /\ stray = {} /\ open = {}
    /\ meta = [r \in Regions |-> ZeroMeta]
    /\ gs = [t \in Threads |-> None]
    /\ base = [t \in Threads |-> IF t = Main THEN "new" ELSE "none"]
    /\ call = [t \in Threads |-> <<>>]
    /\ loc = [t \in Threads |-> NoLocals]
    /\ round = [t \in Threads |-> 0]
    /\ info = [i \in Slots |-> NoEntry]
    /\ lock = None /\ scan = 0 /\ hook = FALSE /\ lost = {}
    /\ signals = 0 /\ fault = FALSE

\* What a thread does by itself once it has begun.
OwnStep(t) ==
    \/ InitMeta(t) \/ InitArea(t) \/ InitPublish(t) \/ InitInfo(t)
    \/ Unprotect(t) \/ SetBusy(t) \/ Period(t) \/ MapMeta(t) \/ MapArea(t) \/ Copy(t)
    \/ Remap(t) \/ SetGs(t) \/ Unmap(t) \/ Clear(t) \/ Protect(t)
    \/ CleanupHandler(t) \/ Store(t) \/ ThreadEnd(t) \/ BadWrite(t)

CleanerAction == CleanerLock \/ CleanerStep \/ CleanerUnlock

Next ==
    /\ ~fault
    /\ \/ \E t \in Threads : \/ OwnStep(t) \/ Release(t) \/ Create(t) \/ ThreadReturn(t)
                             \/ HookedCall(t) \/ Signal(t)
       \/ \E i \in Slots : Expire(i)
       \/ CleanerAction

Spec == Init /\ [][Next]_vars

\* Threads run and time passes; a thread that waits for the mutex gets it, since the
\* cleaner sleeps 30 seconds between two scans; destructors end.
Fairness ==
    /\ \A t \in Threads : /\ WF_vars(~fault /\ OwnStep(t))
                          /\ SF_vars(~fault /\ Release(t))
                          /\ SF_vars(~fault /\ CleanupHandler(t))
    /\ \A i \in Slots : WF_vars(~fault /\ Expire(i))
    /\ WF_vars(~fault /\ CleanerAction)

-----------------------------------------------------------------------------
(* Correctness.                                                              *)

Standing(t) == base[t] \in {"info", "run", "exit", "release", "store", "end"}
Bases == {"none", "new", "area", "publish", "info", "run", "exit", "release", "store", "end",
          "gone"}
Pcs == {"unprotect", "setbusy", "period", "mapmeta", "maparea", "copy", "remap", "setgs",
        "unmap", "clear", "protect"}
MaybeRegion == Regions \cup {None}
MetaType == [self : MaybeRegion, diff : MaybeRegion, area : MaybeRegion, busy : BOOLEAN,
             ready : BOOLEAN, ratio : 0 .. Ratio]

\* Every variable has the type the code gives it.
TypeOK ==
    /\ own \in [Regions -> Threads \cup {None}] /\ {ro, stray} \subseteq SUBSET Regions
    /\ meta \in [Regions -> MetaType] /\ open \subseteq Threads
    /\ gs \in [Threads -> MaybeRegion]
    /\ base \in [Threads -> Bases]
    /\ \A t \in Threads : \A i \in DOMAIN call[t] :
          call[t][i] \in [pc : Pcs, ptr : MaybeRegion, new : MaybeRegion, area : MaybeRegion]
    /\ round \in [Threads -> 0 .. Iterations]
    /\ lock \in Threads \cup {None, "cleaner"} /\ scan \in 0 .. Capacity + 1
    /\ lost \subseteq Threads /\ signals \in 0 .. MaxSignals
    /\ {hook, fault} \subseteq BOOLEAN

\* From ARCH_SET_GS to the end of the thread gs leads to metadata of its own that
\* describe a writable stack of its own, through every move of its own or of
\* another thread and every scan of the cleaner (lines 570-667, 149-176).  Whether a
\* call that a handler overtook has closed a page of the stack is the matter of stray.
StackIsOwn ==
    \A t \in Threads : Standing(t) /\ ~At(t, "setgs") =>
        LET m == meta[gs[t]] IN
        /\ own[gs[t]] = t /\ m.self = gs[t]
        /\ own[m.area] = t /\ m.diff = m.area /\ m.area \notin ro

\* No pointer to metadata is used after the page is gone or was made read-only, by
\* the call that holds it, by set_call_stack_info or by the exit of the thread,
\* when handlers run only at SignalPlaces, unless a call that a handler overtook between
\* lines 665 and 667 has closed a page of somebody else.
NoFault == fault => stray # {}

\* is_randomizing lets one call of a thread into lines 588-665 at a time, however
\* its handlers nest.
OneMove ==
    \A t \in Threads : \A i, j \in DOMAIN call[t] :
        i # j => {call[t][i].pc, call[t][j].pc} \cap {"unprotect", "setbusy", "protect"} # {}

\* What the table holds are the two mappings of the thread that recorded them: the
\* munmaps of lines 159-161 hit nothing else, and not before the thread is over.
EntriesMapped ==
    \A i \in Slots : info[i].valid =>
        /\ own[info[i].meta] = info[i].tid /\ own[info[i].area] = info[i].tid
        /\ info[i].ripe => base[info[i].tid] = "gone"

\* The mappings a thread or its entry in the table answers for.
Held(t) ==
    {loc[t].meta, loc[t].area}
    \cup (IF Standing(t) THEN {gs[t], meta[gs[t]].area} ELSE {})
    \cup (UNION {{call[t][i].ptr, call[t][i].new, call[t][i].area} : i \in DOMAIN call[t]})
    \cup UNION {{info[i].meta, info[i].area} : i \in {j \in Slots : info[j].tid = t}}

\* No path of a move, of a start or of an exit leaks a mapping, unless the table was
\* full (lines 136-147, 570-667).
NoLeak == \A r \in Regions : own[r] # None /\ own[r] \notin lost => r \in Held(own[r])

\* mprotect(PROT_READ) of line 667 hits metadata that are in use, never a stack, a
\* page that was unmapped or one that mmap has given to somebody else since; the pages
\* that a call closed after a handler had moved the metadata under it, between lines 665
\* and 667, are those of stray, and are excepted.
ClosedInUse == \A r \in ro : own[r] # None /\ meta[r].self = r

\* Metadata can be written during a call, in a thread whose metadata no call has closed
\* yet, and after the early return of line 592 until the next call ends at line 667.
OpenInUpdate ==
    \A t \in Threads :
        Standing(t) /\ gs[t] \notin ro \cup stray => t \in open \/ call[t] # <<>>

\* Read-only pages are metadata in use, and metadata are read-only between updates, with
\* the two exceptions of the code: the overtaken call and the early return.
ReadOnlyPages == ClosedInUse /\ OpenInUpdate

\* A thread does not stay in the state in which its moves are refused: every path
\* through lines 584-665 resets is_randomizing, the early one included.
BusyEnds ==
    \A t \in Threads :
        (base[t] = "run" /\ meta[gs[t]].busy) ~> (gs[t] = None \/ ~meta[gs[t]].busy)

\* Both mappings of a thread that exits are unmapped in the end, unless the table was
\* full (lines 136-176, 706-719).
Reclaimed ==
    \A t \in Threads \ {Main} :
        base[t] = "exit" ~> (t \in lost \/ \A r \in Regions : own[r] # t)

-----------------------------------------------------------------------------
(* Refinement.                                                               *)

\* Between mremap and ARCH_SET_GS the stack is where gs is about to lead.
StackOf(t) ==
    IF ~Standing(t) THEN {}
    ELSE IF At(t, "setgs") THEN {Top(t).new, Top(t).area}
    ELSE {gs[t], meta[gs[t]].area}

RetiredPages ==
    (UNION {{info[i].meta, info[i].area} :
               i \in {j \in Slots : info[j].valid /\ base[info[j].tid] = "gone"}})
    \cup {r \in Regions : own[r] \in lost /\ base[own[r]] = "gone"}

Owners == INSTANCE ShadowOwners
    WITH Pages <- Regions, stack <- [t \in Threads |-> StackOf(t)], retired <- RetiredPages

\* What every state keeps: the types, the ownership of stacks, pages and entries, and
\* what the callers of the library see of it, that no page serves two threads (fsgs.c
\* 136-176, 570-667).
Safe ==
    /\ TypeOK /\ StackIsOwn /\ NoFault /\ OneMove /\ EntriesMapped /\ NoLeak
    /\ Owners!Disjoint

\* The library keeps the promise of ShadowOwners, step by step: mremap is the moment of
\* the move, the end of the thread that of its retirement (lines 570-667, 136-176).
ImplementsOwners == Owners!Spec
=============================================================================
