---------------------------- MODULE GsRspRuntime ----------------------------
(***************************************************************************)
(* The run-time library of the default build, src/FlashStack/gs.rsp.c.     *)
(*                                                                         *)
(* Every thread owns a shadow stack, a 10 MB mapping at an 8 MB-aligned    *)
(* address, that protected code reaches through the gs register.  The      *)
(* metadata of a shadow stack lives inside it.  A thread sets its shadow   *)
(* stack up when it starts, moves it to a fresh random address whenever    *)
(* gs_rsp_runtime_rerandomize runs, and hands it to a table when the last  *)
(* round of thread-specific-data destructors runs; a cleaner thread unmaps *)
(* the table's entries once they are old enough.                           *)
(*                                                                         *)
(* The address space is cut into granules of 8 MB: the shadow stack at     *)
(* base b covers Cells(b) = {b, b+1}, the second one in part, and its      *)
(* metadata (9.5 MB from the base) is in granule b+1.  A value of gs or    *)
(* of a `diff' field is written as the base it makes rsp-relative accesses *)
(* hit; the constant of the thread that the code adds is dropped.          *)
(***************************************************************************)
EXTENDS Integers, FiniteSets

CONSTANTS
    Threads,            \* application threads
    Main,               \* the one that runs the library's constructor
    LastGranule,        \* the address space is 0..LastGranule granules
    Capacity,           \* MAX_THREAD_BUF_CNT
    Iterations,         \* PTHREAD_DESTRUCTOR_ITERATIONS
    MaxAppRounds,       \* rounds an application's destructor runs, at most
    Faults,             \* system calls that may fail: of {"mremap", "prctl", "getgs"}
    Free                \* owner of an unmapped granule, holder of a free lock

Granules == 0 .. LastGranule
Bases    == 0 .. LastGranule - 1
NoBase   == -1
Cleaner  == "cleaner"

ASSUME MainAssumption  == Main \in Threads /\ Free \notin Threads
                          /\ Cleaner \notin Threads /\ Cleaner # Free
ASSUME SizeAssumption  == LastGranule \in Nat \ {0} /\ Capacity \in Nat \ {0}
ASSUME TsdAssumption   == Iterations \in Nat \ {0} /\ MaxAppRounds \in 0 .. Iterations - 1

VARIABLES
    mem,        \* granule -> the thread it was mapped for, or Free
    meta,       \* base -> struct gs_rsp_metadata found there
    gs,         \* thread -> its gs register
    loc,        \* thread -> local variables of the function it is in
    pc,         \* thread -> where it is
    tsd,        \* thread -> value of thread_cleanup_key, 0 for NULL
    app,        \* thread -> rounds its own destructors still want to run
    round,      \* thread -> round of destructors it is in, 0 before the first
    hook,       \* _pthread_create has been looked up
    cleaners,   \* number of cleaner threads that were created
    lock,       \* holder of the mutex
    scan,       \* index the cleaner is at, 0 while it sleeps
    info,       \* the table thread_info
    lost,       \* threads whose region did not get into the table
    fault       \* "none", or why a thread has touched pages that are not its own;
                \* nothing is said of what the process does after that

tables == <<info, lost, lock, scan>>
exits  == <<tsd, app, round>>
hooks  == <<hook, cleaners>>
vars   == <<mem, meta, gs, loc, pc, exits, hooks, tables, fault>>

-----------------------------------------------------------------------------
(* The address space and the metadata.                                     *)

Slots == 1 .. Capacity

MetaType == [ss : Bases \cup {NoBase}, diff : Int, busy : BOOLEAN, ready : BOOLEAN]
Metadata(ss, diff, busy, ready) == [ss |-> ss, diff |-> diff, busy |-> busy, ready |-> ready]
Locals(ptr, old, new, slot) == [ptr |-> ptr, old |-> old, new |-> new, slot |-> slot]
Entry(valid, ss, tid, ripe) == [valid |-> valid, ss |-> ss, tid |-> tid, ripe |-> ripe]
ZeroMeta == Metadata(NoBase, NoBase, FALSE, FALSE)
NoLocals == Locals(NoBase, NoBase, NoBase, 0)
NoEntry  == Entry(FALSE, NoBase, Main, FALSE)

Cells(b) == {b, b + 1}

Label(m, b, o) == [g \in Granules |-> IF g \in Cells(b) THEN o ELSE m[g]]

\* mmap() without MAP_FIXED never lands on a range that is in use.
Unused(b) == \A g \in Cells(b) : mem[g] = Free

\* The metadata at base p is in a page that was mapped for thread t.
CanTouch(t, p) == p \in Bases /\ mem[p + 1] = t

Alive == fault = "none"

Goto(t, l) == pc' = [pc EXCEPT ![t] = l]

Crash(why) == /\ fault' = why
              /\ UNCHANGED <<mem, meta, gs, loc, pc, exits, hooks, tables>>

-----------------------------------------------------------------------------
(* init_shadow_stack: the first thing a thread does.                       *)

\* mmap() gives zeroed pages; ZeroMeta is at every base that is not mapped.
MapStack(t, b) ==
    /\ Unused(b)
    /\ mem' = Label(mem, b, t)

\* get_memory_at_random inside the loop of do_init_shadow_stack.
InitMap(t) ==
    /\ pc[t] = "new"
    /\ \E b \in Bases : MapStack(t, b) /\ loc' = [loc EXCEPT ![t] = Locals(NoBase, NoBase, b, 0)]
    /\ Goto(t, "init")
    /\ UNCHANGED <<meta, gs, exits, hooks, tables, fault>>

\* A bug of the kind this code could have: it replaces the definition that follows,
\* as do the other definitions without a comment below.
StartIterAtZero(t) == IF t = Main THEN 0 ELSE 2
\* pthread_setspecific in do_start_routine; the main thread never sets the key.
StartIter(t) == IF t = Main THEN 0 ELSE 1

\* The rest of do_init_shadow_stack, then do_start_routine up to the call of
\* the thread's routine.  The result of ARCH_SET_GS is not looked at: when it
\* has failed, the first protected call writes through the gs of the parent.
InitPublish(t) ==
    /\ pc[t] = "init"
    /\ \/ LET b == loc[t].new
          IN  /\ meta' = [meta EXCEPT ![b] = Metadata(b, b, FALSE, TRUE)]
              /\ gs'   = [gs EXCEPT ![t] = b]
              /\ tsd'  = [tsd EXCEPT ![t] = StartIter(t)]
              /\ loc'  = [loc EXCEPT ![t] = NoLocals]
              /\ Goto(t, "run")
              /\ UNCHANGED <<mem, app, round, hooks, tables, fault>>
       \/ "prctl" \in Faults /\ Crash("prctl")

-----------------------------------------------------------------------------
(* pthread_create, up to the clone of the child.                           *)

NextOfCreateEager == "hook"
\* Line 426: has some call gone through here before?
NextOfCreate == IF hook THEN "clone" ELSE "hook"

CreateEnter(t) ==
    /\ pc[t] = "run"
    /\ \E c \in Threads : pc[c] = "none"
    /\ Goto(t, NextOfCreate)
    /\ UNCHANGED <<mem, meta, gs, loc, exits, hooks, tables, fault>>

CreateHook(t) ==
    /\ pc[t] = "hook"
    /\ hook' = TRUE
    /\ cleaners' = cleaners + 1
    /\ Goto(t, "clone")
    /\ UNCHANGED <<mem, meta, gs, loc, exits, tables, fault>>

\* The real pthread_create makes a child or returns an error.
CreateClone(t) ==
    /\ pc[t] = "clone"
    /\ \/ \E c \in Threads : pc[c] = "none" /\ pc' = [pc EXCEPT ![t] = "run", ![c] = "new"]
       \/ Goto(t, "run")
    /\ UNCHANGED <<mem, meta, gs, loc, exits, hooks, tables, fault>>

-----------------------------------------------------------------------------
(* gs_rsp_runtime_rerandomize, called from hooked library functions.  An   *)
(* early return changes nothing and is no step.                            *)

\* Where a hooked function may be called: the thread's routine, or one of the
\* application's own destructors.
InAppCode(t) == pc[t] = "run" \/ (pc[t] = "dtor" /\ app[t] > 0)

CallerOf(t) == IF round[t] = 0 THEN "run" ELSE "dtor"

\* Lines 518-544, when the last move is long enough ago.
RerandBegin(t) ==
    /\ InAppCode(t)
    /\ LET p == gs[t]
       IN  IF ~CanTouch(t, p)
           THEN Crash("wild")
           ELSE /\ meta[p].ready
                /\ ~meta[p].busy
                /\ meta' = [meta EXCEPT ![p] = Metadata(@.ss, @.diff, TRUE, @.ready)]
                /\ loc'  = [loc EXCEPT ![t] = Locals(p, NoBase, NoBase, 0)]
                /\ Goto(t, "alloc")
                /\ UNCHANGED <<mem, gs, exits, hooks, tables, fault>>

\* Lines 546-550 and 618: a fresh region, or none after the last attempt.
RerandAlloc(t) ==
    /\ pc[t] = "alloc"
    /\ \/ \E b \in Bases : /\ MapStack(t, b)
                           /\ loc' = [loc EXCEPT ![t] = Locals(@.ptr, NoBase, b, 0)]
                           /\ Goto(t, "move")
       \/ Goto(t, "finish") /\ UNCHANGED <<mem, loc>>
    /\ UNCHANGED <<meta, gs, exits, hooks, tables, fault>>

UndoKeepsDiff(d, old, delta) == Metadata(old, d.diff, d.busy, d.ready)
\* Lines 590-591 and 601-602, on the metadata d.
Undo(d, old, delta) == Metadata(old, d.diff - delta, d.busy, d.ready)

DropKeepsNew(m, b) == m
\* Lines 592 and 603: the new region is given back.
DropNew(m, b) == Label(m, b, Free)

\* Lines 552-595.  mremap takes the metadata along; it needs every page of
\* the old region.  The test of line 555 is never true: line 280 keeps the new
\* region 20 MB below rsp, which leaves the new diff between 0 and 2^47 - 12 MB.
RerandMove(t) ==
    /\ pc[t] = "move"
    /\ LET p     == loc[t].ptr
           new   == loc[t].new
           old   == meta[p].ss
           delta == new - old
           set   == Metadata(new, meta[p].diff + delta, meta[p].busy, meta[p].ready)
       IN  IF ~CanTouch(t, p)
           THEN Crash("wild")
           ELSE \/ /\ \A g \in Cells(old) : mem[g] = t
                   /\ mem'  = Label(Label(mem, old, Free), new, t)
                   /\ meta' = [meta EXCEPT ![new] = set, ![old] = ZeroMeta]
                   /\ loc'  = [loc EXCEPT ![t] = Locals(p, old, new, 0)]
                   /\ Goto(t, "setgs")
                   /\ UNCHANGED <<gs, exits, hooks, tables, fault>>
                \/ /\ "mremap" \in Faults \/ \E g \in Cells(old) : mem[g] # t
                   /\ meta' = [meta EXCEPT ![p] = Undo(set, old, delta)]
                   /\ mem'  = DropNew(mem, new)
                   /\ Goto(t, "finish")
                   /\ UNCHANGED <<gs, loc, exits, hooks, tables, fault>>

PtrIsStale(old, new) == old
\* Line 613: the metadata is now in the new region.
PtrAfterMove(old, new) == new

\* Lines 597-613.  The rollback writes through the pointer to the old region
\* and unmaps the new one, which has become the only one.
RerandSetGs(t) ==
    /\ pc[t] = "setgs"
    /\ LET new == loc[t].new
           old == loc[t].old
           p   == loc[t].ptr
       IN  \/ /\ gs'  = [gs EXCEPT ![t] = meta[new].diff]
              /\ loc' = [loc EXCEPT ![t] = Locals(PtrAfterMove(p, new), old, new, 0)]
              /\ Goto(t, "finish")
              /\ UNCHANGED <<mem, meta, exits, hooks, tables, fault>>
           \/ /\ "prctl" \in Faults
              /\ IF ~CanTouch(t, p)
                 THEN Crash("prctl")
                 ELSE /\ meta' = [meta EXCEPT ![p] = Undo(@, old, new - old)]
                      /\ mem'  = DropNew(mem, new)
                      /\ Goto(t, "finish")
                      /\ UNCHANGED <<gs, loc, exits, hooks, tables, fault>>

\* rand_exit: line 627.
RerandFinish(t) ==
    /\ pc[t] = "finish"
    /\ LET p == loc[t].ptr
       IN  IF ~CanTouch(t, p)
           THEN Crash("wild")
           ELSE /\ meta' = [meta EXCEPT ![p] = Metadata(@.ss, @.diff, FALSE, @.ready)]
                /\ loc' = [loc EXCEPT ![t] = NoLocals]
                /\ Goto(t, CallerOf(t))
                /\ UNCHANGED <<mem, gs, exits, hooks, tables, fault>>

-----------------------------------------------------------------------------
(* Thread exit.  The C library runs rounds of destructors, keys in order of *)
(* creation: thread_cleanup_key comes from constructor(101), so its        *)
(* handler is the first of each round.                                     *)

ThreadReturn(t) ==
    /\ pc[t] = "run" /\ t # Main
    /\ \E n \in 0 .. MaxAppRounds : app' = [app EXCEPT ![t] = n]
    /\ round' = [round EXCEPT ![t] = 1]
    /\ Goto(t, "tsd")
    /\ UNCHANGED <<mem, meta, gs, loc, tsd, hooks, tables, fault>>

RearmOneRoundLess(iter) == iter < Iterations - 1
RearmOneRoundMore(iter) == iter <= Iterations
\* Line 656: run me again in the next round.
Rearm(iter) == iter < Iterations

\* thread_cleanup_handler; a key whose value is NULL is passed over.
CleanupHandler(t) ==
    /\ pc[t] = "tsd"
    /\ IF tsd[t] # 0 /\ Rearm(tsd[t])
       THEN tsd' = [tsd EXCEPT ![t] = @ + 1] /\ Goto(t, "dtor")
       ELSE /\ tsd' = [tsd EXCEPT ![t] = 0]
            /\ Goto(t, IF tsd[t] # 0 THEN "release" ELSE "dtor")
    /\ UNCHANGED <<mem, meta, gs, loc, app, round, hooks, tables, fault>>

\* The rest of the round: the application's destructors return, and another
\* round follows if a key has a value and rounds are left.
EndRound(t) ==
    /\ pc[t] = "dtor"
    /\ LET left == IF app[t] > 0 THEN app[t] - 1 ELSE 0
       IN  /\ app' = [app EXCEPT ![t] = left]
           /\ IF round[t] < Iterations /\ (tsd[t] # 0 \/ left # 0)
              THEN round' = [round EXCEPT ![t] = @ + 1] /\ Goto(t, "tsd")
              ELSE UNCHANGED round /\ Goto(t, "end")
    /\ UNCHANGED <<mem, meta, gs, loc, tsd, hooks, tables, fault>>

\* What is left of the thread's exit still runs on the shadow stack.
ThreadEnd(t) ==
    /\ pc[t] = "end"
    /\ gs' = [gs EXCEPT ![t] = NoBase]
    /\ Goto(t, "gone")
    /\ UNCHANGED <<mem, meta, loc, exits, hooks, tables, fault>>

-----------------------------------------------------------------------------
(* release_shadow_stack and add_memory_region.                             *)

MutexNever == TRUE
MutexFree == lock = Free

\* Lines 367-369: ARCH_GET_GS fails, and the region is recorded nowhere.
ReleaseGivesUp(t) ==
    /\ pc[t] = "release" /\ "getgs" \in Faults
    /\ lost' = lost \cup {t}
    /\ Goto(t, "dtor")
    /\ UNCHANGED <<mem, meta, gs, loc, exits, hooks, info, lock, scan, fault>>

\* Lines 366-379 and 199: read the metadata, then take the mutex.
ReleaseLock(t) ==
    /\ pc[t] = "release"
    /\ IF ~CanTouch(t, gs[t])
       THEN Crash("wild")
       ELSE /\ MutexFree
            /\ lock' = t
            /\ loc'  = [loc EXCEPT ![t] = Locals(NoBase, meta[gs[t]].ss, NoBase, 0)]
            /\ Goto(t, "find")
            /\ UNCHANGED <<mem, meta, gs, exits, hooks, info, lost, scan, fault>>

\* Lines 200-201: the first slot that is not valid.
FirstInvalid(i) == ~info[i].valid /\ \A j \in 1 .. i - 1 : info[j].valid

UnlockForgotten == lock' = lock
\* Line 207.
Unlock == lock' = Free

AddFind(t) ==
    /\ pc[t] = "find"
    /\ \/ \E i \in Slots : FirstInvalid(i) /\ loc' = [loc EXCEPT ![t] = Locals(NoBase, @.old, NoBase, i)]
       \/ (\A i \in Slots : info[i].valid) /\ UNCHANGED loc
    /\ Goto(t, "store")
    /\ UNCHANGED <<mem, meta, gs, exits, hooks, tables, fault>>

\* Lines 202-207; a region that found no slot is dropped.
AddStore(t) ==
    /\ pc[t] = "store"
    /\ LET i == loc[t].slot
       IN  IF i = 0
           THEN lost' = lost \cup {t} /\ UNCHANGED info
           ELSE /\ info' = [info EXCEPT ![i] = Entry(TRUE, loc[t].old, t, FALSE)]
                /\ UNCHANGED lost
    /\ Unlock
    /\ loc'  = [loc EXCEPT ![t] = NoLocals]
    /\ Goto(t, "dtor")
    /\ UNCHANGED <<mem, meta, gs, exits, hooks, scan, fault>>

-----------------------------------------------------------------------------
(* release_memory_region: the cleaner thread.                              *)

\* CPU_CYCLES_AFTER_THREAD_EXITING is ten seconds: the code relies on the
\* thread being through with its exit by then.
MayExpire(t) == pc[t] = "gone"

\* Time passes.
Expire(i) ==
    /\ info[i].valid /\ ~info[i].ripe
    /\ MayExpire(info[i].tid)
    /\ info' = [info EXCEPT ![i] = Entry(TRUE, @.ss, @.tid, TRUE)]
    /\ UNCHANGED <<mem, meta, gs, loc, pc, exits, hooks, lock, scan, lost, fault>>

CleanerLock ==
    /\ cleaners > 0 /\ scan = 0
    /\ lock = Free
    /\ lock' = Cleaner
    /\ scan' = 1
    /\ UNCHANGED <<mem, meta, gs, loc, pc, exits, hooks, info, lost, fault>>

DueIfValid(e) == e.valid
\* Lines 221-222.
Due(e) == e.valid /\ e.ripe

ClearedKeepsValid(e) == e
\* Line 225; the other fields of an invalid entry are never read.
Cleared(e) == NoEntry

CleanerStep ==
    /\ scan \in Slots
    /\ IF Due(info[scan])
       THEN /\ mem'  = Label(mem, info[scan].ss, Free)
            /\ meta' = [meta EXCEPT ![info[scan].ss] = ZeroMeta]
            /\ info' = [info EXCEPT ![scan] = Cleared(@)]
       ELSE UNCHANGED <<mem, meta, info>>
    /\ scan' = scan + 1
    /\ UNCHANGED <<gs, loc, pc, exits, hooks, lock, lost, fault>>

CleanerUnlock ==
    /\ scan = Capacity + 1
    /\ lock' = Free
    /\ scan' = 0
    /\ UNCHANGED <<mem, meta, gs, loc, pc, exits, hooks, info, lost, fault>>

-----------------------------------------------------------------------------
Init ==
    /\ mem  = [g \in Granules |-> Free]
    /\ meta = [b \in Bases |-> ZeroMeta]
    /\ gs   = [t \in Threads |-> NoBase]
    /\ loc  = [t \in Threads |-> NoLocals]
    /\ pc   = [t \in Threads |-> IF t = Main THEN "new" ELSE "none"]
    /\ tsd  = [t \in Threads |-> 0]
    /\ app  = [t \in Threads |-> 0]
    /\ round = [t \in Threads |-> 0]
    /\ hook = FALSE /\ cleaners = 0
    /\ info = [i \in Slots |-> NoEntry]
    /\ lost = {}
    /\ lock = Free /\ scan = 0
    /\ fault = "none"

ThreadStep(t) ==
    \/ InitMap(t) \/ InitPublish(t)
    \/ CreateEnter(t) \/ CreateHook(t) \/ CreateClone(t)
    \/ RerandBegin(t) \/ RerandAlloc(t) \/ RerandMove(t) \/ RerandSetGs(t) \/ RerandFinish(t)
    \/ ThreadReturn(t) \/ CleanupHandler(t) \/ EndRound(t) \/ ThreadEnd(t)
    \/ ReleaseGivesUp(t) \/ ReleaseLock(t) \/ AddFind(t) \/ AddStore(t)

CleanerAction == CleanerLock \/ CleanerStep \/ CleanerUnlock

Next ==
    /\ Alive
    /\ \/ \E t \in Threads : ThreadStep(t)
       \/ \E i \in Slots : Expire(i)
       \/ CleanerAction

Spec == Init /\ [][Next]_vars

\* Steps a thread that is scheduled takes by itself.  The application is free
\* never to create a thread, to randomize or to return.
OwnStep(t) ==
    \/ InitMap(t) \/ InitPublish(t) \/ CreateHook(t) \/ CreateClone(t)
    \/ RerandAlloc(t) \/ RerandMove(t) \/ RerandSetGs(t) \/ RerandFinish(t)
    \/ CleanupHandler(t) \/ ThreadEnd(t) \/ AddFind(t) \/ AddStore(t)

\* Threads are scheduled and time passes (weak).  The mutex is won by a thread
\* that keeps asking for it, since the cleaner sleeps 30 seconds between two
\* scans, and the application's destructors return (strong).
Fairness ==
    /\ \A t \in Threads : /\ WF_vars(Alive /\ OwnStep(t))
                          /\ SF_vars(Alive /\ ReleaseLock(t))
                          /\ SF_vars(Alive /\ EndRound(t))
    /\ \A i \in Slots : WF_vars(Alive /\ Expire(i))
    /\ WF_vars(Alive /\ CleanerAction)

FairSpec == Spec /\ Fairness

-----------------------------------------------------------------------------
(* Correctness.                                                            *)

Pcs == {"none", "new", "init", "run", "hook", "clone", "alloc", "move", "setgs",
        "finish", "tsd", "dtor", "release", "find", "store", "end", "gone"}

\* The thread's code has a shadow stack that gs leads to.
Standing == Pcs \ {"none", "new", "init", "setgs", "gone"}
\* ... and it is not inside gs_rsp_runtime_rerandomize.
Quiet == Standing \ {"alloc", "move", "finish"}

\* The region of an exiting thread has been handed over (or dropped).
Released(t) == round[t] > 0 /\ tsd[t] = 0 /\ pc[t] \in {"tsd", "dtor", "end", "gone"}

EntryType == [valid : BOOLEAN, ss : Bases \cup {NoBase}, tid : Threads, ripe : BOOLEAN]
LocalType == [ptr : Bases \cup {NoBase}, old : Bases \cup {NoBase},
              new : Bases \cup {NoBase}, slot : 0 .. Capacity]

\* Every variable has the type the code gives it.
TypeOK ==
    /\ mem \in [Granules -> Threads \cup {Free}]
    /\ meta \in [Bases -> MetaType]
    /\ gs \in [Threads -> Int]
    /\ loc \in [Threads -> LocalType]
    /\ pc \in [Threads -> Pcs]
    /\ tsd \in [Threads -> 0 .. Iterations]
    /\ app \in [Threads -> 0 .. MaxAppRounds]
    /\ round \in [Threads -> 0 .. Iterations]
    /\ hook \in BOOLEAN /\ cleaners \in Nat
    /\ info \in [Slots -> EntryType]
    /\ lost \subseteq Threads
    /\ lock \in Threads \cup {Free, Cleaner}
    /\ scan \in 0 .. Capacity + 1
    /\ fault \in {"none", "wild", "prctl"}

\* Whatever other threads and the cleaner do, the shadow stack that gs leads to
\* stays mapped, and mapped for this thread alone, from the moment gs is set to
\* the end of the thread: also after the region is in the table (lines 361-388),
\* and during a move the new region is, until gs follows (581-597).
StackIsOwn ==
    \A t \in Threads :
        /\ pc[t] \in Standing => \A g \in Cells(gs[t]) : mem[g] = t
        /\ pc[t] = "setgs" => \A g \in Cells(loc[t].new) : mem[g] = t

\* No pointer to a metadata block (lines 522-627 and 366-370) is used after its
\* pages are gone.  The rollback after a failed arch_prctl is the exception: it
\* ends in the fault "prctl", which this property does not speak of.
NoFault == fault # "wild"

\* Outside gs_rsp_runtime_rerandomize the metadata that gs leads to describes
\* the stack it is in, and no move is under way: a failed move (lines 555-559,
\* 587-595, 618) leaves no trace.
MetadataMatches ==
    \A t \in Threads :
        pc[t] \in Quiet =>
            meta[gs[t]] = Metadata(gs[t], gs[t], FALSE, TRUE)

\* What the table holds is the region of the thread that recorded it, so that the
\* munmap of line 224 never hits pages that were given to somebody else since,
\* and never runs before the thread is done with its stack.
EntriesMapped ==
    \A i \in Slots :
        info[i].valid => /\ \A g \in Cells(info[i].ss) : mem[g] = info[i].tid
                         /\ info[i].ripe => pc[info[i].tid] = "gone"

\* The thread, or its entry in the table, answers for the region at base b.
Holds(t, b) ==
    \/ pc[t] \in {"init", "move", "setgs"} /\ b = loc[t].new
    \/ pc[t] \in Standing /\ ~Released(t) /\ b = gs[t]
    \/ Released(t) /\ \E i \in Slots : info[i].valid /\ info[i].tid = t /\ info[i].ss = b

\* Every mapped page is a live thread's stack, a region it is about to move to,
\* or in the table, unless it belonged to a thread that found the table full (or
\* could not look gs up, 367-369): no path of rerandomize (546-627), of thread
\* start (309-343), or of exit leaks.
NoLeak ==
    \A g \in Granules :
        mem[g] # Free => \/ mem[g] \in lost
                         \/ \E b \in Bases : Holds(mem[g], b) /\ g \in Cells(b)

\* The region of a thread is handed over only when no destructor is left that
\* runs in at most Iterations - 1 rounds (the comment at lines 650-654).
DestructorsFirst == \A t \in Threads : Released(t) => app[t] = 0

\* The unsynchronised test of _pthread_create (line 425) never makes a second
\* cleaner thread.
SingleCleaner == cleaners <= 1

-----------------------------------------------------------------------------
(* The inductive invariant behind the properties above.                    *)

Owns(t, b) == b \in Bases /\ \A g \in Cells(b) : mem[g] = t

Moving == {"alloc", "move", "setgs", "finish"}

\* What a thread's locals, gs and metadata are at each location.
StackInv(t) ==
    /\ pc[t] = "init" => Owns(t, loc[t].new)
    /\ pc[t] \in Standing => Owns(t, gs[t])
    /\ pc[t] \in Quiet => meta[gs[t]] = Metadata(gs[t], gs[t], FALSE, TRUE)
    /\ pc[t] \in Standing \ Quiet => meta[gs[t]] = Metadata(gs[t], gs[t], TRUE, TRUE)
    /\ pc[t] \in Moving => loc[t].ptr = gs[t]
    /\ pc[t] = "move" => Owns(t, loc[t].new) /\ Cells(gs[t]) \cap Cells(loc[t].new) = {}
    /\ pc[t] = "setgs" => /\ Owns(t, loc[t].new)
                          /\ meta[loc[t].new] = Metadata(loc[t].new, loc[t].new, TRUE, TRUE)
                          /\ gs[t] \in Bases /\ mem[gs[t] + 1] # t
    /\ pc[t] \in {"find", "store"} => loc[t].old = gs[t]

\* The key's value, the round and the application's wishes go together.
TsdInv(t) ==
    /\ round[t] = 0 => app[t] = 0
    /\ app[t] > 0 => app[t] + round[t] <= MaxAppRounds + 1
    /\ pc[t] \in {"none", "new", "init"} => round[t] = 0 /\ tsd[t] = 0
    /\ pc[t] \in {"run", "hook", "clone"} => round[t] = 0 /\ tsd[t] = StartIter(t)
    /\ pc[t] \in Moving => \/ round[t] = 0 /\ tsd[t] = StartIter(t)
                           \/ round[t] \in 1 .. Iterations - 1 /\ tsd[t] = round[t] + 1
    /\ pc[t] = "tsd" => round[t] \in 1 .. Iterations /\ tsd[t] = round[t]
    /\ pc[t] = "dtor" => \/ round[t] \in 1 .. Iterations - 1 /\ tsd[t] = round[t] + 1
                         \/ round[t] = Iterations /\ tsd[t] = 0
    /\ pc[t] \in {"release", "find", "store", "end", "gone"} => round[t] = Iterations /\ tsd[t] = 0

\* Who has the mutex, and what it protects.
LockInv ==
    /\ \A t \in Threads : pc[t] \in {"find", "store"} <=> lock = t
    /\ lock = Cleaner <=> scan # 0
    /\ \A t \in Threads : pc[t] = "find" => loc[t].slot = 0
    /\ \A t \in Threads : pc[t] = "store" /\ loc[t].slot # 0 => ~info[loc[t].slot].valid
    /\ \A t \in Threads : pc[t] = "store" /\ loc[t].slot = 0 => \A i \in Slots : info[i].valid

\* An entry of the table, and no second one for the same thread.
EntryInv(i) ==
    info[i].valid =>
        /\ Owns(info[i].tid, info[i].ss)
        /\ pc[info[i].tid] \in {"dtor", "end", "gone"} /\ tsd[info[i].tid] = 0
        /\ info[i].ripe => pc[info[i].tid] = "gone"
        /\ \A j \in Slots : info[j].valid /\ info[j].tid = info[i].tid => j = i

\* Before the first pthread_create there is one thread.
HookInv ==
    /\ cleaners = IF hook THEN 1 ELSE 0
    /\ ~hook => \A t \in Threads : t # Main => pc[t] = "none"
    /\ \A t \in Threads : pc[t] = "hook" => ~hook
    /\ \A t \in Threads : pc[t] = "clone" => hook

\* TypeOK and all of the above, with no stray access so far (NoFault): every step of
\* the library, the application and the cleaner keeps it.
IInv ==
    /\ TypeOK
    /\ \A t \in Threads : StackInv(t) /\ TsdInv(t)
    /\ LockInv
    /\ \A i \in Slots : EntryInv(i)
    /\ HookInv
    /\ fault # "wild"

-----------------------------------------------------------------------------
(* Action properties and liveness.                                         *)

\* add_memory_region drops a region (lines 200-206) only while the table is really
\* full: it never gives up a slot that another thread or the cleaner has freed.
LostOnlyWhenFull ==
    [][ \A t \in Threads :
          pc[t] = "store" /\ t \in lost' \ lost => \A i \in Slots : info[i].valid ]_vars

\* A shadow stack moves only while its own thread is in rerandomize (515-645): no
\* step of another thread and no scan of the cleaner (219-235) changes the gs of a
\* thread or the metadata it leads to.
OthersKeepOut ==
    [][ \A t \in Threads :
          (pc[t] \in Standing /\ pc'[t] = pc[t])
              => gs'[t] = gs[t] /\ \A b \in Bases : b = gs[t] => meta'[b] = meta[b] ]_vars

\* The region of a thread that exits is unmapped in the end, unless it never got
\* into the table (lines 211-239).
Reclaimed ==
    \A t \in Threads \ {Main} :
        pc[t] = "tsd" ~> (t \in lost \/ \A g \in Granules : mem[g] # t)

\* A thread that starts to exit gets through: the destructor rounds end and the
\* mutex is always given back (lines 199-207, 219-235).
ExitEnds == \A t \in Threads \ {Main} : pc[t] = "tsd" ~> pc[t] = "gone"
=============================================================================
