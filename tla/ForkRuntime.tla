------------------------------ MODULE ForkRuntime ------------------------------
(***************************************************************************)
(* fork() in a program built with src/FlashStack/gs.rsp.c.                 *)
(*                                                                         *)
(* The library does nothing at a fork.  The child gets a copy of the       *)
(* memory as it is at that instant: the mutex with its holder, the table   *)
(* thread_info in whatever state it is, the pointer _pthread_create that   *)
(* says a cleaner has been created.  Of the threads it gets only the one   *)
(* that called fork(): neither a thread that is in add_memory_region nor   *)
(* the cleaner.  The two processes share no memory from then on, so one    *)
(* is looked at: a fork that leaves us in the parent changes nothing, the  *)
(* action Fork takes us to the child, which may fork again.                *)
(*                                                                         *)
(* The steps of the table's two users are finer here than in GsRspRuntime, *)
(* since a fork may come between any two of their writes.  The shadow      *)
(* stack of thread t is called t.  Time is the age of an exit: `age'       *)
(* counts the ticks since a thread took its time stamp, up to one tick     *)
(* after the grace period.                                                 *)
(***************************************************************************)
EXTENDS Integers, FiniteSets

CONSTANTS
    Threads,    \* application threads
    Main,       \* the one that main() runs in
    Capacity,   \* MAX_THREAD_BUF_CNT
    Grace,      \* CPU_CYCLES_AFTER_THREAD_EXITING, in ticks
    Skew,       \* ticks that an exiting thread's counter is ahead of the cleaner's
    Modulus     \* a time stamp has values 0 .. Modulus - 1

Cleaner == "cleaner"
Nobody  == "nobody"
Slots   == 1 .. Capacity

ThreadsAssumption == Main \in Threads /\ {Cleaner, Nobody} \cap Threads = {}
TimeAssumption == Capacity \in Nat \ {0} /\ Grace \in Nat /\ Skew \in Nat
                  /\ Modulus \in Nat /\ Modulus > Grace + 1

VARIABLES
    lock,       \* holder of the mutex
    table,      \* slot -> entry of thread_info
    mapped,     \* shadow stacks that are mapped
    hook,       \* _pthread_create is set
    pc,         \* thread or cleaner -> where it is, "none" if there never was one
    slot,       \* the slot that the holder of the mutex is at
    age         \* thread -> ticks since it took its time stamp

vars == <<lock, table, mapped, hook, pc, slot, age>>

\* `by' is the thread whose exit expired_time is the time of.
Entry(v, stack, by) == [valid |-> v, stack |-> stack, by |-> by]
NoEntry == Entry(FALSE, Nobody, Main)

Goto(t, l) == pc' = [pc EXCEPT ![t] = l]

-----------------------------------------------------------------------------
(* A thread: pthread_create, and release_shadow_stack at its end.          *)

MakesCleanerAgain == TRUE
\* Line 426: the pointer tells whether there is a cleaner.
MakesCleaner == ~hook

Create(t, u) ==
    /\ pc[t] = "run" /\ pc[u] = "none"
    /\ hook' = TRUE
    /\ mapped' = mapped \cup {u}
    /\ pc' = [pc EXCEPT ![u] = "run", ![Cleaner] = IF MakesCleaner THEN "sleep" ELSE @]
    /\ UNCHANGED <<lock, table, slot, age>>

\* expired_time = __rdtsc()
Exit(t) ==
    /\ t # Main /\ pc[t] = "run"
    /\ Goto(t, "lock")
    /\ UNCHANGED <<lock, table, mapped, hook, slot, age>>

MutexIsFree == lock = Nobody

\* add_memory_region and release_memory_region take the mutex and start at slot 0.
Lock(t, l) ==
    /\ MutexIsFree
    /\ lock' = t
    /\ slot' = 1
    /\ Goto(t, l)
    /\ UNCHANGED <<table, mapped, hook, age>>

StaysLocked(t) == t
Unlocked(t) == Nobody

Unlock(t, l) ==
    /\ lock' = Unlocked(t)
    /\ Goto(t, l)
    /\ UNCHANGED <<table, mapped, hook, slot, age>>

AddLock(t) == pc[t] = "lock" /\ Lock(t, "find")

StackOfMain(t) == Main
\* The stack that release_shadow_stack finds.
StackOf(t) == t

\* thread_info[i] = *region_info, whose valid is 0; the loop ends without an entry
\* when every slot is in use.
AddCopy(t) ==
    /\ pc[t] = "find"
    /\ IF slot > Capacity
       THEN Goto(t, "unlock") /\ UNCHANGED <<table, slot>>
       ELSE IF table[slot].valid
       THEN slot' = slot + 1 /\ UNCHANGED <<table, pc>>
       ELSE /\ table' = [table EXCEPT ![slot] = Entry(FALSE, StackOf(t), t)]
            /\ Goto(t, "mark") /\ UNCHANGED slot
    /\ UNCHANGED <<lock, mapped, hook, age>>

\* thread_info[i].valid = 1
AddMark(t) ==
    /\ pc[t] = "mark"
    /\ table' = [table EXCEPT ![slot].valid = TRUE]
    /\ Goto(t, "unlock")
    /\ UNCHANGED <<lock, mapped, hook, slot, age>>

AddUnlock(t) == pc[t] = "unlock" /\ Unlock(t, "gone")

-----------------------------------------------------------------------------
(* The cleaner: release_memory_region.                                     *)

CleanerLock == pc[Cleaner] = "sleep" /\ Lock(Cleaner, "scan")

DueWithoutGrace(e) == e.valid
DueInOtherUnit(e) == e.valid /\ (age[e.by] - Skew) % Modulus > 1000 * Grace
\* Lines 221 and 222: the difference of two time stamps is unsigned.
Due(e) == e.valid /\ (age[e.by] - Skew) % Modulus > Grace

CleanerScan ==
    /\ pc[Cleaner] = "scan" /\ slot \in Slots
    /\ IF Due(table[slot])
       THEN /\ mapped' = mapped \ {table[slot].stack}
            /\ Goto(Cleaner, "clear") /\ UNCHANGED slot
       ELSE slot' = slot + 1 /\ UNCHANGED <<mapped, pc>>
    /\ UNCHANGED <<lock, table, hook, age>>

SlotAfterNext == slot + 2
NextSlot == slot + 1

StaysValid(e) == e
ClearEntry(e) == [e EXCEPT !.valid = FALSE]

CleanerClear ==
    /\ pc[Cleaner] = "clear"
    /\ table' = [table EXCEPT ![slot] = ClearEntry(@)]
    /\ slot' = NextSlot
    /\ Goto(Cleaner, "scan")
    /\ UNCHANGED <<lock, mapped, hook, age>>

CleanerUnlock ==
    /\ pc[Cleaner] = "scan" /\ slot > Capacity
    /\ Unlock(Cleaner, "sleep")

-----------------------------------------------------------------------------
(* fork() and the passing of time.                                         *)

MutexStartsFree == Nobody
\* The mutex is memory like any other: the child's copy has the parent's holder.
MutexOfChild == lock

\* A thread may fork between two of its calls of the library.  The child has all the
\* shadow stacks, those of threads that it does not have as well.
Fork(t) ==
    /\ pc[t] = "run"
    /\ lock' = MutexOfChild
    /\ pc' = [u \in Threads \cup {Cleaner} |->
                IF u = t THEN "run"
                ELSE IF u = Cleaner \/ pc[u] = "none" THEN "none" ELSE "gone"]
    /\ UNCHANGED <<table, mapped, hook, slot, age>>

\* Someone has taken the time stamp of t's exit: this t, or the one of the parent.
Stamped(t) == pc[t] \in {"lock", "find", "mark", "unlock", "gone"}

\* Ages stop one tick after the grace period.
Tick ==
    /\ age' = [t \in Threads |-> IF Stamped(t) /\ age[t] <= Grace + Skew
                                 THEN age[t] + 1 ELSE age[t]]
    /\ age' # age
    /\ UNCHANGED <<lock, table, mapped, hook, pc, slot>>

-----------------------------------------------------------------------------
Init ==
    /\ lock   = Nobody
    /\ table  = [i \in Slots |-> NoEntry]
    /\ mapped = {Main}
    /\ hook   = FALSE
    /\ pc     = [u \in Threads \cup {Cleaner} |-> IF u = Main THEN "run" ELSE "none"]
    /\ slot   = 1
    /\ age    = [t \in Threads |-> 0]

ThreadStep(t) == AddCopy(t) \/ AddMark(t) \/ AddUnlock(t)
CleanerStep == CleanerScan \/ CleanerClear \/ CleanerUnlock

Next ==
    \/ \E t \in Threads : Exit(t) \/ AddLock(t) \/ ThreadStep(t) \/ Fork(t)
    \/ \E t, u \in Threads : Create(t, u)
    \/ CleanerLock
    \/ CleanerStep
    \/ Tick

\* Threads run, a mutex that is released again and again is got in the end, time passes.
Fairness ==
    /\ WF_vars(Tick) /\ SF_vars(CleanerLock) /\ WF_vars(CleanerStep)
    /\ \A t \in Threads : SF_vars(AddLock(t)) /\ WF_vars(ThreadStep(t))

Spec == Init /\ [][Next]_vars /\ Fairness

-----------------------------------------------------------------------------
\* The variables have the types of the code's.
TypeOK ==
    /\ lock \in Threads \cup {Cleaner, Nobody}
    /\ table \in [Slots -> [valid : BOOLEAN, stack : Threads \cup {Nobody}, by : Threads]]
    /\ mapped \subseteq Threads
    /\ hook \in BOOLEAN
    /\ pc \in [Threads \cup {Cleaner} -> {"none", "run", "lock", "find", "mark",
                                          "unlock", "gone", "sleep", "scan", "clear"}]
    /\ slot \in 1 .. Capacity + 1
    /\ age \in [Threads -> 0 .. Grace + Skew + 1]

\* Whoever gets the mutex, in the parent or in the child, finds a table that is true:
\* an entry that is valid names a stack that is still mapped, of a thread this process
\* does not run, and no stack twice.  (A fork between munmap and valid = 0 copies a
\* table that is not; the mutex it copies with it is what keeps the child off it.)
TableIsTrue ==
    lock = Nobody =>
        \A i, j \in Slots : table[i].valid =>
            LET s == table[i].stack
            IN  /\ s \in mapped /\ pc[s] = "gone"
                /\ table[j].valid /\ table[j].stack = s => i = j

\* A thread that still runs, or is in add_memory_region, has its shadow stack, in the
\* child as in the parent.
LiveStacksMapped ==
    \A t \in Threads : pc[t] \in {"run", "lock", "find", "mark"} => t \in mapped

\* "10 second" (line 86): a stack is unmapped only when the grace period since its
\* thread's exit is over.
UnmappedWhenOld == [][\A t \in mapped \ mapped' : age[t] > Grace]_vars

\* The mutex was copied from a thread that this process does not have.
Orphaned == lock # Nobody /\ pc[lock] \in {"none", "gone"}

\* A thread that exits waits for ever in one case only: it is in a child that was
\* forked while the mutex was held.
ExitEnds == \A t \in Threads : pc[t] = "lock" ~> pc[t] = "gone" \/ Orphaned

\* A stack in the table is unmapped in the end, unless a fork has left us without a
\* cleaner: line 426 never makes a second one.
Reclaimed ==
    \A i \in Slots, t \in Threads :
        pc[Cleaner] # "none" /\ table[i].valid /\ table[i].stack = t
            ~> t \notin mapped \/ pc[Cleaner] = "none"

\* What every state of a parent and of its children keeps (gs.rsp.c 197-239 and 361-437).
ForkSafe == TypeOK /\ TableIsTrue /\ LiveStacksMapped

=============================================================================
