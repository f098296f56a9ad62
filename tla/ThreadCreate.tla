---------------------------- MODULE ThreadCreate ----------------------------
(* The hooks of pthread_create: that of the buddy run time (init.c), which   *)
(* hands the start routine over in a heap object, and that of the library    *)
(* for building (fork.c), which only sets the size of the stack.  Threads    *)
(* call them at the same time and may share attributes.                      *)

CONSTANTS
    Creators,       \* threads of the program
    Attrs,          \* attributes of the program, shared by its threads
    Routines,       \* pairs of start_routine and arg
    Sizes,          \* sizes of stacks
    BUDDY_STACK_SIZE,
    Cells,          \* bound: the objects malloc can give
    NewThreads      \* bound: the threads that are created

NULL == "NULL"

ASSUME CreateAssumption ==
    /\ BUDDY_STACK_SIZE \in Sizes
    /\ NULL \notin Attrs \cup Routines \cup Cells \cup NewThreads

VARIABLES
    library,        \* the one that is preloaded: "init.c" or "fork.c"
    size,           \* attributes -> their stack size; NULL: threadAttr of a call
    call,           \* creator -> its call of pthread_create
    heap,           \* cell -> what is in it, NULL when it is free
    thread,         \* new thread -> how far it is
    asked           \* new thread -> what its creator asked for; history
vars == <<library, size, call, heap, thread, asked>>

NoCall == [at |-> "none", attr |-> NULL, routine |-> NULL, cell |-> NULL]
NoThread == [at |-> "none", routine |-> NULL, cell |-> NULL, stack |-> NULL]
CallType == [at : {"none", "size", "malloc", "create"}, attr : Attrs \cup {NULL},
             routine : Routines \cup {NULL}, cell : Cells \cup {NULL}]
ThreadType == [at : {"none", "copy", "free", "init", "run"}, routine : Routines \cup {NULL},
               cell : Cells \cup {NULL}, stack : Sizes \cup {NULL}]
CallAt(c, where) == call[c].at = where
ThreadAt(t, where) == thread[t].at = where

-----------------------------------------------------------------------------
(* pthread_create.                                                           *)

\* pthread_create, with the attributes of the caller or none.
Call(c) ==
    /\ CallAt(c, "none")
    /\ \E a \in Attrs \cup {NULL}, r \in Routines :
          call' = [call EXCEPT ![c] = [at |-> "size", attr |-> a, routine |-> r, cell |-> NULL]]
    /\ UNCHANGED <<library, size, heap, thread, asked>>

UserSize(a) == IF a = NULL THEN BUDDY_STACK_SIZE ELSE size[a]
\* What the user has put into the attributes is ignored, and lost.
StackSize(a) == BUDDY_STACK_SIZE

\* pthread_attr_setstacksize, on what the caller has passed.
SetStackSize(c) ==
    /\ CallAt(c, "size")
    /\ size' = IF call[c].attr = NULL THEN size
               ELSE [size EXCEPT ![call[c].attr] = StackSize(call[c].attr)]
    /\ call' = [call EXCEPT ![c].at = IF library = "init.c" THEN "malloc" ELSE "create"]
    /\ UNCHANGED <<library, heap, thread, asked>>

Malloc(c) ==
    /\ CallAt(c, "malloc")
    /\ \E cell \in Cells :
          /\ heap[cell] = NULL
          /\ heap' = [heap EXCEPT ![cell] = call[c].routine]
          /\ call' = [call EXCEPT ![c].at = "create", ![c].cell = cell]
    /\ UNCHANGED <<library, size, thread, asked>>

SizeOf(c) == IF call[c].attr = NULL THEN StackSize(NULL) ELSE size[call[c].attr]

\* _pthread_create, which may fail; the object of init.c is then lost.
Create(c) ==
    /\ CallAt(c, "create")
    /\ \/ \E t \in NewThreads :
             /\ ThreadAt(t, "none")
             /\ thread' = [thread EXCEPT ![t] =
                   IF library = "init.c"
                   THEN [at |-> "copy", routine |-> NULL, cell |-> call[c].cell, stack |-> SizeOf(c)]
                   ELSE [at |-> "run", routine |-> call[c].routine, cell |-> NULL,
                         stack |-> SizeOf(c)]]
             /\ asked' = [asked EXCEPT ![t] = call[c].routine]
       \/ UNCHANGED <<thread, asked>>
    /\ call' = [call EXCEPT ![c] = NoCall]
    /\ UNCHANGED <<library, size, heap>>

\* The program sets the size of attributes that no call of pthread_create is using.
SetByUser ==
    /\ \E a \in Attrs, s \in Sizes :
          /\ \A c \in Creators : call[c].attr # a
          /\ size' = [size EXCEPT ![a] = s]
    /\ UNCHANGED <<library, call, heap, thread, asked>>

-----------------------------------------------------------------------------
(* do_start_routine.                                                         *)

CopyPointer(t) == thread' = [thread EXCEPT ![t].at = "free"]
CopyCell(t) == thread' = [thread EXCEPT ![t].at = "free", ![t].routine = thread[t].cell]
\* argInfo = *pArg: a copy on the stack of the thread.
CopyArgInfo(t) == thread' = [thread EXCEPT ![t].at = "free", ![t].routine = heap[thread[t].cell]]

Copy(t) ==
    /\ ThreadAt(t, "copy")
    /\ CopyArgInfo(t)
    /\ UNCHANGED <<library, size, call, heap, asked>>

KeepArgInfo(t) == UNCHANGED heap
FreeAny(t) == \E cell \in Cells : heap' = [heap EXCEPT ![cell] = NULL]
FreeArgInfo(t) == heap' = [heap EXCEPT ![thread[t].cell] = NULL]

Free(t) ==
    /\ ThreadAt(t, "free")
    /\ FreeArgInfo(t)
    /\ thread' = [thread EXCEPT ![t].at = "init", ![t].cell = NULL]
    /\ UNCHANGED <<library, size, call, asked>>

\* buddy_init_other_thread_tls, which counts on the size of the stack.
InitTls(t) ==
    /\ ThreadAt(t, "init")
    /\ thread' = [thread EXCEPT ![t].at = "run"]
    /\ UNCHANGED <<library, size, call, heap, asked>>

Exit(t) ==
    /\ ThreadAt(t, "run")
    /\ thread' = [thread EXCEPT ![t] = NoThread]
    /\ asked' = [asked EXCEPT ![t] = NULL]
    /\ UNCHANGED <<library, size, call, heap>>

-----------------------------------------------------------------------------

Init ==
    /\ library \in {"init.c", "fork.c"}
    /\ size \in [Attrs -> Sizes]
    /\ call = [c \in Creators |-> NoCall]
    /\ heap = [cell \in Cells |-> NULL]
    /\ thread = [t \in NewThreads |-> NoThread]
    /\ asked = [t \in NewThreads |-> NULL]

Next ==
    \/ \E c \in Creators : Call(c) \/ SetStackSize(c) \/ Malloc(c) \/ Create(c)
    \/ SetByUser
    \/ \E t \in NewThreads : Copy(t) \/ Free(t) \/ InitTls(t) \/ Exit(t)

Spec == Init /\ [][Next]_vars

-----------------------------------------------------------------------------
(* Correctness.                                                              *)

\* Every variable has the type the code gives it.
TypeOK ==
    /\ library \in {"init.c", "fork.c"} /\ size \in [Attrs -> Sizes]
    /\ call \in [Creators -> CallType]
    /\ heap \in [Cells -> Routines \cup {NULL}]
    /\ thread \in [NewThreads -> ThreadType]
    /\ asked \in [NewThreads -> Routines \cup {NULL}]

\* A thread runs what its own creator has asked for, though both objects and attributes are
\* used again as soon as they are free (init.c 73-82).
RunsWhatWasAsked ==
    \A t \in NewThreads : ThreadAt(t, "run") => thread[t].routine = asked[t]

\* Every thread has a stack of the size that the prologues count on, whatever the other
\* threads do with the attributes they share (fork.c 3-5, init.c 109-125).
StackSizeIsSet == \A t \in NewThreads : ~ThreadAt(t, "none") => thread[t].stack = BUDDY_STACK_SIZE

\* An object belongs to one call or one thread at a time and is in use as long as it does: no
\* thread reads or frees one that is free, or that is another's.
OneOwner ==
    /\ \A c, d \in Creators : c # d /\ call[c].cell # NULL => call[c].cell # call[d].cell
    /\ \A t, u \in NewThreads : t # u /\ thread[t].cell # NULL => thread[t].cell # thread[u].cell
    /\ \A c \in Creators, t \in NewThreads : call[c].cell # NULL => call[c].cell # thread[t].cell
    /\ \A c \in Creators : call[c].cell # NULL => heap[call[c].cell] # NULL
    /\ \A t \in NewThreads : thread[t].cell # NULL => heap[thread[t].cell] # NULL

\* What pthread_create promises: every thread runs what its creator asked for, on a stack of
\* the size that the prologues count on (fork.c 3-5, init.c 66-127).
CreatesAsAsked == RunsWhatWasAsked /\ StackSizeIsSet /\ OneOwner

-----------------------------------------------------------------------------
(* The inductive invariant.                                                  *)

\* The object holds what the caller has asked for from malloc to the copy of the new thread.
HandedOver ==
    /\ \A c \in Creators :
          /\ call[c].at # "none" => call[c].routine # NULL
          /\ call[c].at \in {"size", "malloc"} => call[c].cell = NULL
          /\ call[c].at = "create" /\ library = "init.c" => call[c].cell # NULL
          /\ call[c].cell # NULL => heap[call[c].cell] = call[c].routine
    /\ \A t \in NewThreads :
          /\ thread[t].at \in {"copy", "free"} <=> thread[t].cell # NULL
          /\ thread[t].at = "copy" => heap[thread[t].cell] = asked[t]
          /\ thread[t].at \in {"free", "init", "run"} => thread[t].routine = asked[t]

\* From pthread_attr_setstacksize to _pthread_create the attributes of a call have the size.
SizeStays ==
    \A c \in Creators :
        call[c].at \in {"malloc", "create"} /\ call[c].attr # NULL =>
            size[call[c].attr] = BUDDY_STACK_SIZE

\* What every step preserves.
IInv == TypeOK /\ OneOwner /\ HandedOver /\ SizeStays /\ StackSizeIsSet
=============================================================================
