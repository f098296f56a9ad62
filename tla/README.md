# A verification project for FlashStack

FlashStack keeps a shadow copy of every return address.  An instrumenter, put in
the place of the assembler, adds to the prologue of each function a copy of the
return address to the shadow stack; the epilogue it writes in the place of `ret`
drops the address on the call stack and jumps through the copy.  A run-time library gives each thread its shadow stack, moves the stack to random places
while the thread runs, and takes it away after the thread has ended.  This
directory holds TLA+ models of that code, TLC configurations that check them on
small instances, and theorems that TLAPS checks for instances of every size.

All paths below are relative to `src/FlashStack/`.

## Inventory

| Component | State | Operations | Hard behaviour | What makes it correct |
|---|---|---|---|---|
| Run time of the default build, `gs.rsp.c` | gs register, metadata and mapping of each thread's shadow stack; value of `thread_cleanup_key`; `_pthread_create`; `mutex`; `thread_info` | `init_shadow_stack`, `pthread_create`, `gs_rsp_runtime_rerandomize`, `thread_cleanup_handler`, `release_shadow_stack`, `add_memory_region`, `release_memory_region` | threads and the cleaner interleave; mremap and arch_prctl fail half way; the table is bounded; release is timed by counting destructor rounds; the cleaner is timed by a delay; fork copies a mutex that is held | a thread always has its own shadow stack; metadata and gs agree; no mapping leaks; the cleaner unmaps only what nobody uses |
| Run time of the FS/GS build, `fsgs.c` | two mappings per thread (shadow stack and a page of metadata), the state and the period counter in that page | as above; `mprotect` around each update | a handler that calls the run time in the middle of a move; protection of a page that has moved; a period that ends early | stack and page have one owner; the page is read-only outside updates; no state stays busy |
| Buddy scheme, `buddy_tls.c`, `init.c`, `simd_rand.c`, `weak_stack_size.s` | two pages of metadata below the shadow stack, the mask of the stack size, a random number per stack | `buddy_init_*_thread_tls`, `au_edu_unsw_SPA_init`, `au_edu_unsw_randomize` | the page is found by rounding the stack pointer; the size comes from the environment, from a changed binary and from the thread library | both pages agree; every address of the stack finds one; every live return address is changed with the number |
| Shared definitions, `spa.h` | none | sizes, masks, the period of moves, lengths of prologues | arithmetic at the borders of regions | the metadata lookup finds the right region |
| Hooks, `rt_lib.c` | pointers to the real functions | each hook calls the real function and moves the stack if the period is over; `buddy_init_rt_lib_hooker` | hooks run in constructors and signal handlers too, between any two steps of a move; a move may fail | data that leaves is followed by a move, data that comes in is preceded by one, at most a period away |
| Hooks of `pthread_create`, `fork.c`, `init.c`, `util.c` | pointer to the real function, an object on the heap for each new thread | set the stack size, wrap the start routine | attributes that threads share; the argument passes through the heap | the new thread runs what its creator gave, on a stack of the right size |
| Instrumenter, `afl-as.c` | a state machine over the lines of an assembly file: section, current function, labels; the list of protected functions | `add_instrumentation`, `edit_params`, `main`, the name tests, `is_protected_function` | hand-written assembly, sections that nest, several epilogues to one prologue; code that reads rsp before or after it has changed | every protected function copies its return address before its body and returns through the copy, in each of eleven builds |
| Wrappers, `afl-gcc.c`, `afl-rustc.c`, `main` of `afl-as.c` | an argument vector; a temporary file; a child | `find_as`, `edit_params`, `main` | options that turn each other off; a wrapper that finds itself; a child that is killed | the real tool is called once for each file, its failure is reported, and the file goes away |
| Allocator of the wrappers, `alloc-inl.h` | canaries around each block; with `DEBUG_BUILD` tables of what is allocated | `ck_alloc` to `ck_free` | growth that moves a block; mistakes of the client | blocks are whole; a double free or an overrun is refused |
| Rewriters, `code_rewriter.py`, `data_rewriter.py` | the files of a directory | walk, scan, replace, write | a pattern that begins inside another; the end of the file; a kill or a full disk between truncation and the end of the write | no file is half rewritten unless its own write was stopped |
| Sandbox filter, `SandboxFilterUtil.cpp` | none | `EvaluateSyscall` | calls that are made in two ways | the system calls of a move are allowed and nothing else is opened |
| Fault handlers of Firefox, `WasmSignalHandlers.cpp` | disposition of two signals, the previous ones, `sAlreadyHandlingTrap`, a Mach port and its thread | installation, `WasmTrapHandler`, `HandleTrap`, `MachExceptionHandlerThread` | faults inside the handler, several threads, an installation that fails half way | an expected trap is resumed as a whole; any other fault reaches the handler behind |
| `afl-as.h`, `debug.h`, `types.h`, `config.h` | - | - | - | not modelled |

How they interact: the instrumented code reaches the shadow stack by
`gs:(rsp - 2^47)`; hooks call the run time on the thread's own stack; the run
time is called by the C library through the constructor, through its own
`pthread_create` and through the destructor of `thread_cleanup_key`; exiting
threads and the cleaner share `thread_info` under `mutex`.  The first build prints
the names of protected functions; the file made of them decides in the second
build which calls skip a prologue, so the length that `spa.h` gives for a prologue
and the code that `afl-as.c` writes must fit.

## Modules

### `GsRspRuntime`: the run time of the default build

The address space is cut into granules of 8 MB.  A region is 10 MB at a multiple
of 8 MB, so the region at base b covers granule b and a part of b+1, and two
regions overlap exactly when their bases differ by at most one.  The metadata is
9.5 MB above the base, in granule b+1.  gs and `diff` are written as the base
they make rsp-relative accesses hit; the constant of the thread that the code
adds is left out.

| Variable | In the code |
|---|---|
| `mem` | which granules are mapped; the thread a granule was mapped for is history that only the properties use |
| `meta` | `struct gs_rsp_metadata` at each base; unmapped pages and fresh ones read as zero |
| `gs` | the gs register of each thread |
| `loc` | `pMetadata`, `old_shadow_stack`, `new_shadow_stack` and the loop index of the function a thread is in |
| `pc` | the function and the place between two accesses to shared state |
| `tsd`, `round`, `app` | value of `thread_cleanup_key`, the round of destructors the C library is in, the rounds that destructors of the application still ask for |
| `hook`, `cleaners` | `_pthread_create` is set; cleaner threads started |
| `lock`, `scan`, `info`, `lost` | `mutex`, the cleaner's index, `thread_info`, the threads that found it full |
| `fault` | a thread has touched pages that are not its own; absorbing |

| Action | Lines of `gs.rsp.c` |
|---|---|
| `InitMap`, `InitPublish` | 251-357 and 390-405: map a region, write the metadata, set gs, set the key |
| `CreateEnter`, `CreateHook`, `CreateClone` | 422-451: the unsynchronised test, the start of the cleaner, the start of the child |
| `RerandBegin`, `RerandAlloc`, `RerandMove`, `RerandSetGs`, `RerandFinish` | 515-645, one step per system call; every early exit and both rollbacks |
| `ThreadReturn`, `CleanupHandler`, `EndRound`, `ThreadEnd` | 402-405 and 649-662, and the C library's rounds of destructors |
| `ReleaseGivesUp`, `ReleaseLock`, `AddFind`, `AddStore` | 361-388 and 198-209; `ReleaseGivesUp` is the return at 367-369 |
| `CleanerLock`, `CleanerStep`, `CleanerUnlock`, `Expire` | 211-239; `Expire` is the passing of the ten seconds of line 87 |

What the model assumes, and where it comes from:

- mmap never returns pages in use (no MAP_FIXED); mremap with MAP_FIXED moves the
  pages and fails if one is missing; a failed mremap leaves the target mapped.
- The cleanup key is made in a constructor of priority 101 (line 667), so its
  handler is the first of each round of destructors.
- An application's destructors ask for at most `PTHREAD_DESTRUCTOR_ITERATIONS` - 1
  rounds: the comment at lines 650-654 excludes others (`MaxAppRounds`).
- Ten seconds after it has released its region a thread is gone (`MayExpire`): the
  code has no other protection at line 222.  With the delay left out
  (`DueIfValid`) the run `safety` finds a thread whose stack is unmapped under it.
- Thread identifiers are not used again within a run; the main thread does not
  exit (process exit ends everything); `pthread_create` of the library may fail.
- `Faults` names the system calls that may fail: `"mremap"`, `"prctl"` (ARCH_SET_GS)
  and `"getgs"` (ARCH_GET_GS in the lookup of an exiting thread, whose region is
  then recorded nowhere).
- When ARCH_SET_GS fails, the thread has lost its stack: at start the child still
  has the gs of its parent (line 335 does not look at the result), in a move the
  rollback at 601-603 writes to the pages that have just moved away.  The model
  ends in the fault `"prctl"` and says nothing of what follows.
- Between mremap (581) and ARCH_SET_GS (597) gs leads to a region whose pages have gone.
  There `StackIsOwn` speaks of the new region and `OthersKeepOut` of nothing; what a
  handler meets at that place is a window of `ReturnPath`, and only located.

Properties (each names the lines it is about in the module): `TypeOK`,
`StackIsOwn`, `NoFault`, `MetadataMatches`, `EntriesMapped`, `NoLeak`,
`DestructorsFirst`, `SingleCleaner`; the action properties `LostOnlyWhenFull` and
`OthersKeepOut`; the liveness properties `Reclaimed` and `ExitEnds`.

### `MCGsRspRuntime`

Gives the workers a symmetry set.  Main is kept apart: it never exits.

### `ReturnStack` and `ReturnPath`: calls and returns of one thread

`ReturnStack` is the promise: a return goes where its call came from.  Its state is
the list of return addresses of the calls under way and the place the last step
returned to.  Unprotected functions are under the promise too, since the models
contain nothing that overwrites the call stack; what they add is the question
whether protected and unprotected functions may be mixed.

`ReturnPath` is what the default build really executes.  A function is a record of
its return address and the word that holds it, its rsp, and the place it is at.

| Place | Meaning |
|---|---|
| `entry`, `body` | before and after the prologue, which copies the return address to the slot of its word (`afl-as.c` 7091-7093) |
| `link` | between the store of an instrumented call and the call, which skips the prologue (7305-7315, 7356-7365) |
| `leave` | between the two instructions of the epilogue: rsp has passed the return address, the jump through the slot is still to come (7548-7550) |
| `look`, `test`, `set`, `map`, `gs`, `clear`, `exit` | in `gs_rsp_runtime_rerandomize`: before reading gs (522), before the test (527-531), before setting `is_randomizing` (535), before mremap (581), before ARCH_SET_GS (597), before clearing `is_randomizing` (627), before its `ret` |

| Action | In the code |
|---|---|
| `Call`, `Locals`, `TailCall`, `PlainReturn`, `Unwind` | what compilers and the C library emit; unprotected functions are libraries, and the functions that lines 7045-7084 and 7518-7528 leave alone |
| `Prologue`, `LinkWrite`, `LinkCall`, `Drop`, `Jump` | the code that `afl-as.c` writes |
| `RerandCall`, `Look`, `Test`, `Set`, `Map`, `MapFails`, `SetGs`, `Clear` | `gs.rsp.c` 515-627.  The stores between 535 and 576 are one step: nobody but the move itself reads what they change until `is_randomizing` is 0 again |
| `Signal` | a handler starts beyond the red zone of whatever runs, protected or not, and may do all of the above |
| `SlotFault`, `MetadataFault` | an access through gs or `pMetadata` while the pages are elsewhere; the thread stops |

Here one thread's view is enough: `GsRspRuntime` shows that no other thread touches
its region.  A failing ARCH_SET_GS and a full address space are left to
`GsRspRuntime` as well.  Handlers on an alternative stack are not modelled: their
shadow slots would lie outside the region, which is why `is_on_stack_handler`
exists.

Properties: `SlotsAgree`, `SafeOutsideWindows`, `OneMove`, the refinement
`ReturnsMatch`, and the invariant `RInv` of the proofs.

### `MCReturnPath`

Names the two sets of places where the runs let signals arrive.

### `ShadowOwners` and `GsRspOwners`: what both run times promise

`ShadowOwners` is the abstract specification of a run time that uses gs: a thread
has at most one shadow stack, whose pages are its own; a stack is replaced at once
by a fresh one; the pages of an exited thread are kept from everybody until they are
given back.  `GsRspOwners` and the end of `FsGsRuntime` map their states to it: a
move happens at the mremap, between which and ARCH_SET_GS the stack is where gs is
about to lead, and a stack retires when its thread is gone.

### `ShadowLayout`: the arithmetic of one shadow stack

`GsRspRuntime` counts in granules; here rsp, gs and the hints of
`get_memory_at_random` are numbers.  `InitAttempt`, `InitAgain` and `InitSet` place the
first shadow stack (`gs.rsp.c` 253-357), `Call` and `Return` move rsp, and
`MoveBegin`, `MoveAttempt`, `MoveGivesUp` and `MoveFinish` are a move with its
attempts (515-645).  The sizes keep the order of the code's: 8 MB, 2 MB more, the
metadata 1.5 MB into those.

What it shows of the code: at every rsp below that of the thread's start, rounding
`rsp + gs` down finds the metadata (`MetadataFound`); at rsp at or above it, it does
not, so whatever the C library runs in the frames above the constructor must not
call the run time.  The code does not test gs at the start of a thread (line 335);
`GsInRange` says why it need not.  The test at line 555 never fails.

### `ForkRuntime`: fork

The library does nothing at a fork: the child inherits the mutex with its holder,
the table, and `_pthread_create`, which says that there is a cleaner.  One process
is followed: `Fork` takes us to the child.  The accesses to the table are finer than
in `GsRspRuntime`, since a fork may come between any two of them.

What it shows: a child that was forked while another thread held the mutex can
never release a stack (`ExitEnds` excepts exactly that case), and a child has no
cleaner, ever (`Reclaimed` excepts that one); but neither does harm
(`ForkSafe`): the held mutex is also what keeps the child off a half-written table.
The delay is counted with values of the time stamp that wrap, and `Skew` lets the
exiting thread's counter be ahead of the cleaner's.  The run has `Skew` = 0, where the
difference never wraps: with a positive one `UnmappedWhenOld` does not hold, since line
222 subtracts unsigned numbers.

### `FsGsRuntime`: the run time of the FS/GS build

| Variable | In `fsgs.c` |
|---|---|
| `own`, `ro` | which thread a mapping was made for; the pages that mprotect has closed |
| `open` | history: the pages of metadata that an early return has left writable |
| `stray` | history: the pages that a closing mprotect has hit although they were no longer the metadata of their thread |
| `meta` | `struct gs_metadata` of each page: where it is itself, the stack, the period counter, `is_randomizing`, the state |
| `gs`, `base`, `loc` | as in `GsRspRuntime` |
| `call` | the calls of `fsgs_runtime_rerandomize` of a thread, one for each handler that has interrupted another |
| `round`, `info`, `lock`, `scan`, `hook`, `lost` | destructor rounds, the table, its mutex, the cleaner |

`InitMeta` to `InitInfo` are 210-328; `Create` 421-452; `HookedCall`, `Signal`,
`Unprotect`, `SetBusy`, `Period`, `MapMeta`, `MapArea`, `Copy`, `Remap`, `SetGs`,
`Unmap`, `Clear`, `Protect` are the steps of 570-667; `CleanupHandler`, `Release`,
`Store` 136-147, 344-376 and 706-719; the cleaner 149-176.  `BadWrite` is a write to a
page that is not the thread's or is closed.

Handlers run at the places of `SignalPlaces`.  Two kinds of places are left out, since a
handler that moves the stack there makes its thread fault: between the read of gs at 574
and the mark at 584 the interrupted call would go on with a page that is gone, and
between mremap (640) and ARCH_SET_GS (647) there is no stack to run on.  The place
between `is_randomizing = 0` (665) and the closing mprotect (667) is not left out.  A
handler that moves there leaves the interrupted call with the pointer of 662, to a page
that is gone; if mmap has given the page to somebody else in the meantime, a stack or a
page that is being filled in is made read-only.  The model keeps those pages apart from
the others (`stray`), so that the properties say what holds besides: a fault needs a
stray page (`NoFault`), and what is read-only otherwise is metadata in use
(`ClosedInUse`).  Metadata can be written only in an update, and after an early end of a
period (590-592), which returns without the mprotect (`open`, `OpenInUpdate`).

### `BuddyStack`, `BuddyStart`: the buddy builds

`BuddyStack` is one stack at work: `Call`, `Return` and `Signal` run the prologue and
the epilogue on it; `Hooked` calls `au_edu_unsw_randomize`, whose steps are `Check`,
`Open`, `Own`, `Buddy`, `Add`, `Clear` and `Close` (`simd_rand.c` 65-119).  A slot
holds its return address plus the number of the page that the rsp of its function
finds.  A handler may interrupt it in front of any step in `SignalPlaces` and change
the number too; the runs allow every step but `Own`, where the code would fault (between
lines 93 and 94).  `BuddyStart` is how a stack gets this layout: the constructor
(`Hooker`, `OpenMask`, `WriteMask`, `CloseMask`, `InitMain`), and the other threads
(`InitOther`).  It assumes that the limit of the stack is at least four times the
size, as `code_rewriter.py` 211-215 asks.  A call of the randomizer before the
constructor has ended finds a page of zeros and gives up (`inited`).

### `ThreadCreate`, `RtHooks`: the preloaded libraries

`ThreadCreate` is `pthread_create` of `init.c` (43-139) and of `fork.c`: the size
goes into attributes that other threads may share, and the routine and its argument
through an object on the heap that the new thread frees.  Attributes with a stack of
their own are not modelled; when the real `pthread_create` fails, the object is lost.
`RtHooks` gives each hook of `rt_lib.c` its class - the real function first, or the
move first - with its look-up, and takes `DO_RANDOMIZATION` apart into the reads and
writes of the metadata: in the gs.rsp build `Find`, `Test`, `Set`, `Clock` (and `Quit`, or
`Stamp` and the move, which ends as `Moved` or `Failed`), in the buddy build `ReadLast`,
`ReadCur`, `Test`, `Open`, `Set`, `Stamp`, `Moved`.  A handler may call hooks between any
two of them.  `moved` and `failed` keep the clock that the last move of each kind began
with: a move for which no memory is found (`gs.rsp.c` 550-618) has set `cpu_cycles` all
the same (544), so that nothing is tried again for a period.  A hook whose pointer dates
from before a move that a handler has made (`seen`), or whose page the handler has made
read-only, `Faults`.  All hooks are off in the sources as they are (lines 190-251);
`Enabled` says which each `build` turns on.  `fsgs_runtime_rerandomize` as a hook's move is
not modelled; its own steps are in `FsGsRuntime`.

### `SpaAs`: the instrumenter as an automaton

One action for each kind of line that `add_instrumentation` tells apart
(`StartProc`, `EndProc`, `Ret`, `DirectCall`, `IndirectCall`, `ConditionalJump`,
`Section`, `Previous`, `Align`, `Width`, `Syntax`, `App`, `LocalLabel`, `Label`,
`Instruction`, `EndOfFile`).  The variables are those of the code (`instr_ok`,
`skip_csect`, `skip_intel`, `skip_app`, `start2end`, `in_customized_func`, ...);
beside them the module holds the file that is read, so that it can be any file or,
with `opt.features` empty, the output of a compiler.  A name is its answer to the three
name tests.

### `SpaCode`: the code that is inserted

Eleven builds, chosen by the macros of `spa.h`; for each the prologue, the epilogue
and the rewritten call as lists of instructions (7011-7256, 7276-7478, 7486-7651),
run one by one on registers and memory.  Between any two instructions a move may come
(`Move`): the random number changes, or the shadow area does.  `Window` names the
places where a move does break the code, of which the code has no protection;
`ReturnsHome` and `NoStrayAccess` are about all other places.  The length of a prologue,
which a rewritten call skips, is the literal of `spa.h` for that build (113, 126, 137),
held against the lengths of the instructions that the comments at 92-113 give; no
assembler is run.  Of the rewritten calls the direct one is executed.

### `ProtectedNames`: the list of protected functions

From the names that the jobs of the first build print, in any order, through the
sorted file, `List` reads the array (132-160), and `Search` is the binary search of
`is_protected_function`, one iteration a step.  The order of the file and that of
strcmp are separate constants: they agree since `env.sh` sets `LC_ALL=C`.  A file
whose last line has no newline loses a letter there (`Newlines`).

### `BuildDriver`, `AllocInl`, `Rewriter`

`BuildDriver` is one compilation: `FindAs`, `EditWord`, `AddWords`, `Exec` are
`afl-gcc.c` 66-349 (`Rustc` is `afl-rustc.c`), `Compile` stands for the compiler, and
`AsParams`, `AsCheck`, `AsWrite`, `AsFork`, `AsWait` are the processes of `afl-as.c`
6738-6867 and 7990-8069, of which one may be the assembler of another.  `AllocInl` is
the allocator with a client that makes mistakes, with and without `DEBUG_BUILD`
(`debug`, which also says what a client may call: `Operations`).
`Rewriter` is the loop of both tools over the files.  `Write` brings one field at a time
to the disk, a kill (`Killed`) or a full disk (`DiskFull`) stops it between any two, and
the runs after it take the beginning that is left for a whole file.  Its assumption `Apart` is that no prologue runs into the page
of the global size: the linker puts code and that page in different sections.

### `SandboxFilter`, `WasmSignals`, `WasmMach`, `WasmUnaligned`: Firefox

`SandboxFilter` evaluates every system call under every policy (`EvaluateSyscall`,
31-153), while a move makes its own.  `WasmSignals` is the Linux half of
`WasmSignalHandlers.cpp` (436-479, 688-756, 916-1130): installation with one
`sigaction` after the other, delivery, the trap handler and the way on to the previous
handler.  `WasmMach` is the macOS half (762-910): one thread answers the messages of
all.  FlashStack has taken SA_ONSTACK away (line 1038), since its shadow stack exists
for the thread's own stack only: an overflow of that stack now kills the process.
`WasmUnaligned` is what the file does for SIGBUS on 32-bit ARM (480-721): the word at
the pc is decoded field by field, and the access performed on the registers that the
kernel saved, next to an ideal machine (`ideal`) whose hardware performs it from the
architecture's definition of the instruction (`Encode`, `FirstByte`, `Target`).
FlashStack is for x86-64; this is the rest of a handler it changes.

### MC modules

`MCGsRspRuntime`, `MCReturnPath` and `MCFsGsRuntime` instantiate one module.  The
others put independent parts side by side: `MCRunTimes` the two run times,
`MCProcess` the six modules that surround the run time, `MCBuddy` the stack and its
start, `MCAssembly` the automaton on two kinds of files and the inserted code,
`MCToolchain` the five programs of a build (the allocator in both builds),
`MCLibraries` the hooks of `pthread_create` and those of `rt_lib.c`.  A variable (`part` or `library`) is chosen in
the initial state and says which part runs; the others keep one initial value.  The
states of such a run are the sum of those of its parts, not their product, and a
property is about the part it names.

## Runs

| Run | Instance | What it shows |
|---|---|---|
| `safety` | main and two workers, 7 granules, a table of one entry, two rounds, mremap may fail | every interleaving of two creations, moves, exits and scans.  7 granules are room for two threads' regions and a move; the table of one entry is full as soon as both workers exit.  About 508 000 states |
| `tsd` | main and one worker, 6 granules, two entries, four rounds as in the C library, destructors that run 0 to 3 times and may move the stack, mremap and both uses of arch_prctl may fail | the counting of destructor rounds, the rollbacks, the accounting of pages.  The system stops when a fault is reached, so deadlock is not checked here; it is in `safety`, `exit` and `path`.  About 46 000 states |
| `live` | both run times, main and one worker, 5 granules or 6 regions, fair | regions of exited threads are unmapped in the end, no thread stays busy, and both run times implement `ShadowOwners`.  8 159 states; the FS/GS part takes the lowest free region (`AnyRegion`), which the property does not depend on and `fsgs` does without |
| `exit` | main and two workers, 6 granules, one round, no failures, fair | the mutex is always given back and every exit ends |
| `path` | one thread, four words of call stack, red zone of one word, two return addresses, two places for the shadow stack; signals everywhere but in the two windows of a move | the promise holds and nothing faults.  Four words hold a move, a handler that interrupts it and another move in that handler.  About 482 000 states |
| `signals` | the same with signals everywhere; the thread may stop at a fault | moves do not nest; in a window a signal may stop the program, but no return goes wrong.  About 695 000 states |
| `fsgs` | three threads of which one moves, 6 regions, a table of one entry, two rounds, a move in every second period, two handlers | stacks, pages and entries keep their owners; what is read-only is metadata in use, but for stray pages, and metadata are writable only in an update or after an early return.  Three threads are needed for a stray page: the third takes the one that the move has given back.  6 regions hold the mappings of two threads and one move: two moves at a time exhaust the address space and wait at line 193, which may last for ever.  75 600 states up to symmetry |
| `process` | `ShadowLayout` with a region of 4 units at three places, one of them near the end of user space; fork with three threads, two entries and time stamps of 2 bits; two threads with two faults each; all answers of a policy and four kinds of systems; an address space of 32 bytes, of which 16 are the memory of the instance, two bases and three registers of either size | the six modules around the run time.  One unaligned access is enough: every byte of registers and memory is different at first, so that a byte in the wrong place shows.  37 827 states |
| `buddy` | stacks of 64 words, of which one ends at a granule and one does not; frames of 2 and 5 words, four functions or calls deep, two changes; three threads of every size at five places | rounding, changes and start.  Two changes are what one that interrupts another needs; frames of 5 words reach the guard page and both granules.  2.1 million states |
| `assembly` | a file of at most one function that may hold everything; a compiler's file of up to five functions of all classes in every build; one call in every build, on a stack of 8 words, two numbers, two moves | 1.1 million states.  One function is enough for the first part, since a function's state is reset at its end; section and syntax may change between any two lines |
| `toolchain` | five functions of two files, one of which both define; every command line of two words with every sanitizer, every kind of file with every switch and every place to find the wrapper; two pointers in one bucket, blocks of up to 4 bytes; three files, every place to stop a write, and two runs | 214 000 states.  Two words hold an option and its operand, also where the operand is missing |
| `libraries` | two creators with shared attributes, two new threads, two objects; two threads with hooks nested once, three calls of hooks, two periods | 2.1 million states up to symmetry |

The bounds are on threads, granules, table entries, rounds, moves and depths; the
theorems have none of them.  In `safety` to `exit` each thread is created once, which
bounds creations; moves are not bounded there.

`CHECK_DEADLOCK FALSE` stands where the modelled program may end or stop: after a
fault, after the last file, after the bounded number of calls.

Fairness of `GsRspRuntime` and `FsGsRuntime`: a thread that is inside the library
keeps running (weak fairness of `OwnStep`); the application need never create, move
or return.  A thread that asks for the mutex gets it (strong fairness of
`ReleaseLock`, `Release`): the cleaner sleeps 30 seconds between two scans, and other
threads hold it for one search of the table.  Destructors of the application return
(strong fairness of `EndRound` and `CleanupHandler`: moves called from a destructor
disable it for a while).  Time passes (`Expire`, `Tick`) and the cleaner is scheduled.
Elsewhere the fairness is that of a processor: a move goes on (`ShadowLayout`), a
handler that has begun goes on (`WasmSignals`), the Mach thread serves its port
(`WasmMach`; that it does is `PortIsServed`), a search goes on (`ProtectedNames`), a
build goes on (`BuildDriver`), and a run of a rewriter as long as nobody kills it and the
disk has room.

### What the runs look at

| Run | Properties |
|---|---|
| `safety` | `StackIsOwn`, `EntriesMapped`, `SingleCleaner`, `IInv`, `LostOnlyWhenFull`, `OthersKeepOut` |
| `tsd` | `NoFault`, `MetadataMatches`, `NoLeak`, `DestructorsFirst` |
| `live` | `StacksReclaimed` (both `Reclaimed`, and `BusyEnds`), `OwnersImplemented` |
| `exit` | `ExitEnds` |
| `path`, `signals` | `SlotsAgree`, `SafeOutsideWindows`; `OneMove`, the refinement `ReturnsMatch` |
| `fsgs` | `Safe` (one owner for each page, no fault unless a stray page, moves do not nest, no leak), `ReadOnlyPages` (`ClosedInUse`, `OpenInUpdate`) |
| `process` | `MetadataFound`, `ShadowSafe`; `ForkSafe`; `FaultsAreSorted` (`WasmSignals`: no recursion, the next handler is called, what a context says it has is installed; `WasmMach`: one reply for each fault, no thread is resumed half written; `WasmUnaligned`: an emulated access is what the hardware would do, within the bounds); `FilterSafe`; `Progress` |
| `buddy` | `ReturnsHome`, `FindsMetadata`, `ChangesAreWhole`; `StartsInOrder` |
| `assembly` | `ReturnsThroughOwnCopy`, `InsertsOnlyWhenAsked`; `CompilerFileComplete`; `CodeIsSound` |
| `toolchain` | `SearchIsExact`, `BuildInOrder`, `BlocksAreWhole`, `FilesInOrder`, `ProgramsEnd` |
| `libraries` | `CreatesAsAsked`, `HooksInOrder` |

A type invariant is a part of the property of its module where it is not listed.

## Theorems

`GsRspProofs` proves for every number of threads, granules, entries and rounds,
and every set of failing calls:

| Theorem | States |
|---|---|
| `Inductive` | `Spec => []IInv` |
| `TypeCorrect`, `StackSafe`, `NoStrayAccess`, `MetadataSafe`, `CleanerSafe`, `ReleasedLast`, `OneCleaner` | `Spec => []P` for `TypeOK`, `StackIsOwn`, `NoFault`, `MetadataMatches`, `EntriesMapped`, `DestructorsFirst`, `SingleCleaner` |
| `NothingLeaks` | `Spec => []NoLeak` |
| `NothingLostEarly`, `StacksLeftAlone` | `Spec => LostOnlyWhenFull`, `Spec => OthersKeepOut` |
| `OwnersKept` | `Spec => ImplementsOwners`: `GsRspRuntime` implements `ShadowOwners` |
| `PagesApart` | `Spec => []Owners!Disjoint` |

The theorems on `GsRspRuntime` rest on the assumptions on the constants (`MainAssumption`, `SizeAssumption`,
`TsdAssumption`) and on nothing else.  `IInv` has five parts.  `StackInv` says for each
location of a thread which region it owns, what its metadata is and where its
locals point: `StackIsOwn` alone does not survive `RerandMove`, which needs the
metadata to name the region that gs leads to.  `TsdInv` ties the value of the key
to the round (equal before the handler, one more after it), and bounds the rounds
left to the application by the rounds gone by.  `LockInv` says who holds the mutex
and that the slot found under it stays free until it is filled.  `EntryInv` says
that an entry's pages still belong to the thread that recorded them and that the
thread no longer moves.  `HookInv` says that before the first `pthread_create`
there is one thread only.  One lemma per action shows that the action keeps
`IInv`; the threads that do not act are handled by frame lemmas (`StackInvFrame`,
`StackInvOthers`, `TsdInvFrame`, `EntryInvFrame`).

`NothingLeaks` needs its own induction, relative to `IInv`: `LeakFrame` shows that a
granule stays accounted for while its holder keeps it, `HoldsFrame` that a thread
which does not act keeps what it holds.

`OwnersKept` needs a third induction.  `ThreadEnd` must retire exactly the stack of its
thread, also when the thread found the table full, and of such a thread `NoLeak` says
nothing: `Confined` adds that a thread has no page besides the stack of its gs and the
region of a move.  `NewIsFresh` then shows that `InitPublish` and `RerandMove` hand out
fresh pages, `EntryIsStack` that the table records the stack itself, and one lemma per
group of actions maps it to an action of `ShadowOwners` or to a stutter.

`ReturnPathProofs` proves for every size of the stack and of the red zone (at least
one word), any sets of return addresses and places, with and without instrumented
calls, and for every choice of where signals arrive:

| Theorem | States |
|---|---|
| `PathInductive` | `Spec => []RInv` |
| `SlotsSafe`, `MovesDoNotNest`, `WindowsOnly` | `Spec => []P` for `SlotsAgree`, `OneMove`, `SafeOutsideWindows` |
| `ReturnsImplement` | `Spec => ReturnsMatch`: `ReturnPath` implements `ReturnStack` |

`SlotsAgree` is not inductive: a write to a slot must be known to miss the slots of
all waiting functions.  `Ordered` says so: words of functions entered later lie
strictly beyond those of earlier ones, also beyond a slot that an instrumented call
has just filled, and that is where the red zone is needed (`SignalKeeps`).
`MoveInv` adds that a function at `set` has no move below it, since `Test` found
`is_randomizing` clear and whatever ran in between has ended.  `QuietInv` says that
outside the windows gs leads to the stack.  The steps of the refinement follow from
`PendingGrows`, `PendingCut` and `JumpTarget`.

`FsGsProofs` is about any number of threads, regions, entries, destructor rounds and
handlers, and any period:

| Theorem | States |
|---|---|
| `Inductive` | `Spec => []IInv` |
| `StacksAreSafe`, `ProtectsMetadata` | `Spec => []P` for `Safe` and `ReadOnlyPages` |
| `NoStrayElsewhere` | `Spec => [](stray = {} /\ ~fault)`, if no handler comes between 665 and 667 |
| `OwnersKept` | `Spec => ImplementsOwners`: `FsGsRuntime` implements `ShadowOwners` |

All suppose that handlers interrupt guarded places only (`SignalPlaces \subseteq
GuardedPlaces`): outside the library, where `is_randomizing` is set, where the state is
not yet `FLASH_STACK_INITED`, and before the closing mprotect.  They are those of the
runs; at the others the thread faults (see `FsGsRuntime` above).  `NoStrayElsewhere`
says that the place before the mprotect is the only one of them that closes a wrong page
or can end in a fault: its invariant `WInv` follows who has the page open.  `IInv` says of each thread what its locals lead to at every
place (`ThreadOK`, with one clause for the code below the handlers, `BaseOK`, and one
for the call in flight), that no call nests, that the closed pages are metadata in use,
and that every mapping is a stack's, a call's, an entry's or lost with a full table.
The proofs rest on one frame argument: a step of a thread changes pages, variables and
entries of that thread alone (`Local`), so whatever is said of the others stands
(`Undisturbed`).  Each action is then about its own thread.

`ProcessProofs` holds the theorems on the six modules of `MCProcess`.

| Theorem | States |
|---|---|
| `Inductive`, `TypeCorrect`, `MetadataIsFound`, `ShadowStaysOwn`, `GsStaysLegal`, `NothingIsLeft`, `ShadowIsSafe` | `Spec => []P` for `IInv` and the parts of `ShadowSafe`, for every size of a region and every place of the call stack that leaves 20 MB below it |
| `ForkInductive`, `ForkIsSafe`, `ForksAreSafe` | `ForkSafe`, for any number of threads, entries and forks, any delay and width of the time stamps |
| `FilterIsSafe` | `FilterSafe`, for every system, call and answer of a policy |
| `FaultsSorted` | `FaultsAreSorted` of `WasmSignals`, `WasmMach` and `WasmUnaligned` together, when `"overflow" \notin Kinds` |

The invariant of `ShadowLayout` fixes gs as what leads from `start` to the end of the
first region (`gs = ss + Region - start + UserSpace`), and the bases of all mappings
as multiples of a region; the rest is the arithmetic of rounding, in lemmas of its
own.  That of `ForkRuntime` lets one entry be untrue: the one the cleaner is at between
munmap and `valid = 0` (`Stale`), in this process or, for ever, in a child forked at
that moment.

`FaultsSorted` is three inductions.  `MachInv` says that there is one message for
each suspended thread (`Messages`) and what of a thread has been written when the server
is at a place (`Written`).  `SignalInv` says what the stack of handlers of a thread
looks like for each value of `sAlreadyHandlingTrap` (`FramesOK`), and that while no
fault of the program's own has come, every fault is a trap that finds both handlers in
place (`Calm`).  An overflow of the stack is excluded because it is no fault the handlers
see: without SA_ONSTACK (line 1038) the kernel kills the process.  `ArmInv` pairs the
machine with the ideal one: either both agree, or the ideal one is ahead by the access
that is being emulated (`Ahead`, `Pairs`).  That decoding gives back what was encoded is
a lemma for each field of an instruction, of arithmetic modulo powers of two.

`BuddyProofs`: `MetadataFound` says that for every stack and every rsp in it rounding
down leads to one of the two pages, wherever the stack ends; `MetadataApart` that no
slot lies in either; `TypeCorrect` and `MetadataCorrect` (`FindsMetadata`) take this to
every reachable state.

`ChangesWhole` and `ReturnsToCaller` prove `ChangesAreWhole` and `ReturnsHome` for any number and nesting of
handlers, provided none interrupts between lines 93 and 94 of `simd_rand.c`
(`"own" \notin SignalPlaces`).  There the page is open and not yet marked busy: a handler
that changes the number as well closes the page, and line 94 faults; the runs leave the
place out for the same reason.  Its invariant `WInv` says of each call of the library
what it still owes: until line 104 the slots below it match the old number, which only
the buddy has; until 115 they lack the offset; then they match.  Only one call can be in
the middle of a change, and whatever runs above it is a function or a call that is about
to be refused.

`EveryStackInOrder` proves `StartsInOrder` for any number of threads, any limit of at
least four times the size and any place of a stack.  The size may be anything but one
page, which `init.c` 149 does not exclude and in which the guard page of the thread
library leaves no room.  The invariant says that the mask is what the
environment asks for before any stack is laid out (`MaskInv`) and how a stack that has
been laid out lies to the mask (`LaidOut`); the two rounding functions of the code then
agree by arithmetic.

`SpaAsProofs` is about files of any length with any labels:

| Theorem | States |
|---|---|
| `TypeCorrect`, `CopiesMatch`, `AddsOnlyWhenAsked` | `Spec => []P` for `TypeOK`, `ReturnsThroughOwnCopy`, `InsertsOnlyWhenAsked` |
| `InsertedCodeSound` | `SpecAll => []CodeIsSound`: see below |
| `CompilerFilesProtected` | `Spec => []CompilerFileComplete`: in a compiler's file every function gets its own prologue, no plain return is left in a protected one, calls pass over prologues that copy only, no file is refused, and the printed names are those that a second build may rely on |

`CopiesMatch` needs no more than a relation between the flags of the names and
the prologue last written.  The others strengthen it by what is true between a label
and its `.cfi_startproc` in a compiler's file (`pending` names the function that the
flags are about, counts of both directives differ by one inside a function).

`InsertedCodeSound`, in the same module, proves `CodeIsSound` of `SpaCode`: every build,
size, mask, return address, place in the stack and number of moves.  (`Round` is the
`and` of the processor when the size is a power of two, as that of the code is; the
arithmetic holds for any.)  The instructions are data, so the proof executes them.  `Table` is an assertion for each
place between two instructions, build by build (`RegAt`, `BuddyAt`, `MsrAt` and so on):
how far rsp is from where it was at the entry, what the scratch registers hold, and
whether the slot holds the copy.  `Point` names the place, `Val` and `Copy` state a value
that is only known as long as no move fell in a window (`hit`).  One lemma for each kind
of instruction says what it does (`LoadStep`, `PopMStep`, ...), one for each build what
its code is (`RegCode`), one that every step leads from one assertion to the next
(`RegStep`, `RegBody`, `GsRspSkip`).  `MsrMove` and its like show that a move outside
the windows falsifies none: it carries the words of one area to the other (`AreaMoved`),
or writes a new mask and masks the copy again (`MaskMoved`).  For that the assertions
carry the copy up to the return, although the code has read it by then: a move in the
epilogue still masks it anew, and must not make the slot the value that the model keeps
for unmapped memory.  `Words` are the words that the code reads besides its slot,
`Kept` the registers that it must leave alone.  `WordAssumption` says that masks and
addresses are numbers.

`ToolchainProofs` has four parts.  `ListIsExact` (`SearchIsExact`) holds for every set of names and
every total order that the file is sorted by, `SearchStaysInRange`, `TypeCorrect`.
The invariant of the search is that the name, if it is in the list, is between `low`
and `high`; that one of two equal indices is reached is the usual halving argument.

`BlocksStayWhole` proves `BlocksAreWhole` of the allocator in both builds, for any
pointers, any hash and any client, provided the sum of `alloc-inl.h` 245 does not wrap
(the theorem's hypothesis; a block of a size near 2^32 would be smaller than its client
believes).  The invariant says of each block what its canaries and its memory hold
(`Whole`) and that the tables name a pointer once if it is in use and otherwise not at
all (`Exact`): the search for a slot in `TRK_alloc_buf` and the one in `TRK_free_buf`
stop at the first that fits.

`BuildsInOrder` proves `BuildInOrder` for every command line, environment and number of
files.  It speaks of no build in which a signal has killed the assembler: the wrapper takes
the status of such a child for success (`afl-as.c` 8068), and an object is missing.
`LineInv` follows the words: while they are edited, the two flags say what is
among them (`Edited`); each of the four parts that `edit_params` adds has its own words,
and together they name one directory (`OneB`) and rule nothing out (`Consistent`).
`WorkInv` follows the files: each is yet to come, in work or done, unless the build is
known to have failed or a signal has hidden that (`Accounted`); a copy on the disk is to
be kept, left by a process that ended in FATAL, or that of the process which waits for
the assembler (`CopyInv`).  When AFL_AS names the wrapper again, its child gets no
further than the check of AS_LOOP_ENV_VAR (`Second`).

`FilesStayWhole` proves `FilesInOrder` for any number of files of any content, any two
sizes and any number of runs, which a kill or a full disk stops anywhere.  `Overlap` compares the fields of any two
patterns: in one file no new one shares a place with an old one, and two old ones only
where a prologue runs into the page of the global size.  `Apart` excludes that (code and
the page are in different sections): without it the tool that comes first would hide from
the other what it looks for.  `Mix` is a file in which the patterns of some kinds are
replaced; a second pass adds its kinds (`MixTwice`), finds nothing new (`MixOld`) and
misses nothing (`MixKeeps`).  `Scanned` is the invariant of the loop: everything before
`i` is replaced, everything from `i` on is the file.  A write that is stopped leaves the
beginning of a `Blend`, in which each pattern is replaced or not: a run over such a
beginning leaves the beginning of another (`BegunMixes`), since no pattern that the write
cut in two shares a place with one that is whole.  `SizerInv` adds what is on the disk in
each step of a run, and `LossInv` that every file with a stopped write needs a run of its
own.  The rest of such a file is lost, and no later run notices.

`ThreadCreateProofs`: `AllAsAsked` (`CreatesAsAsked`) with its parts `RightRoutine`,
`RightSize`, `ObjectsHaveOneOwner`, for any number of threads, objects and attributes.
What has to be added is `HandedOver`, the way of routine and argument from the call
over the object to the new thread, and `SizeStays`: once a call has set the size of an
attribute object, every later call sets the same.

`HooksKeepOrder`, in the same module, proves `HooksInOrder` for any set of enabled hooks
in the builds of gs.rsp and of the buddy run time, any number of threads, any depth of
handlers, between any two steps, and any period.  What the property excuses it names
(`Answered`): the clock may be that of a move for which no memory was found, and a hook in a
handler finds the mark of a hook that has decided not to move and has not cleared it
(`gs.rsp.c` 539-540), and leaves without a move however late it is.  Without either of
the two the run `libraries` fails.  The invariant says
of every hook, also of those that wait below a handler, what it knows at its place
(`Fits`): which clock it is going to write, that the clock it has read is still that of the
metadata or an older one, and that its debt is paid by the clock of the metadata or will
be by a hook further down.  In the buddy build `cpu_cycles` may go back, when a handler has
moved after the interrupted hook read its clock; what is written is never older than any
hook of the thread (`HookStays`), which is all that the debts below need.  `MarkOK`
keeps the mark apart from the decisions to set it, and `Known` ties `cpu_cycles` to the
last move that ended or failed.

Only model-checked: all liveness, and with it `OwnersImplemented` as the runs check it
(the prover does not reason about fairness; the steps of the refinement are proved).

## What the texts say and the code does not

Met while modelling; each is modelled as the code has it.

- `afl-as.c` 7011: the prologue is written whether or not the line is in a section or
  syntax that is skipped; the comments at 7661, 7692 and 7704 say such lines are left
  alone.
- `afl-as.c` 7833-7836 prints the name of every function label, also where no prologue
  follows; `README.md` 146 takes the list for that of the protected functions.
  `CompilerFileComplete` says for which files both are the same (`NamesComplete`).
- `afl-as.c` 6625: names are compared with `libc_names` by prefix, so 264 names of the
  list for cpu2006 and 111 of that for httpd are never found.
- `afl-as.c` 144: the last byte of the last line is cut off even if it is no newline.
- `afl-as.c` 8068: `WEXITSTATUS` of an assembler that was killed is 0, which the
  compiler takes for success (`"killed"` in `SuccessIsComplete`).
- `afl-as.c` 6846: `strlen` is applied to a null pointer when the input is "-", since
  6826 sets it; the models end such a run there.
- `afl-gcc.c` 104 finds `afl-as` in the directory of the wrapper, but the compiler then
  looks for `as` in it.
- `afl-gcc.c` 264-276: `AFL_HARDEN` is refused with a sanitizer that the environment asks
  for, but not with the same one on the command line (`NotCombined`).
- `alloc-inl.h` 326: the terminator of `ck_memdup_str` overwrites the canary behind the
  block, so freeing it aborts; 245: the sum with `ALLOC_BLK_INC` may wrap.  Neither
  is reached: nothing calls the first, and sizes are small.  `bad` in `AllocInl`
  excepts the first, `Sizes` the second.
- `code_rewriter.py` 213: `int("unlimited")` raises an exception after the binaries
  have been changed.
- `gs.rsp.c` 86 and `fsgs.c` 80: both comments say ten seconds; the constant of
  `fsgs.c` is a hundred.
- `gs.rsp.c` 222: the difference of time stamps is unsigned, so a stamp from a core
  that is ahead makes it huge and the delay zero (`Skew` in `ForkRuntime`).
- `init.c` 149: the size from the environment is used unchecked; `BuddyStack` assumes
  what its layout needs of it (`BuddyAssumption`).

## Not modelled, and why

- Signals inside `pthread_create` or the release of a stack, and calls into the run
  time that malloc makes before the constructor has ended (`gs.rsp.c` 353).
- Handlers on an alternative stack: their shadow slots lie outside the region, which is
  why `is_on_stack_handler` exists; `SpaAs` shows only that such handlers are left
  alone.
- What follows a failed ARCH_SET_GS, and the unlooked-at mremaps of `fsgs.c` 640.
- Three results that nobody looks at: the creation of the cleaner fails (`gs.rsp.c`
  430; the hook is set all the same, and no cleaner ever runs), and so may
  pthread_attr_setstacksize and malloc in `init.c` 123 and 131.
- The indirect form of a rewritten call (`afl-as.c` 7299-7315): `SpaCode` executes the
  direct one.
- DO_RANDOMIZATION of the FS/GS build as what a hook calls: `FsGsRuntime` has the move
  itself, handlers included, and `RtHooks` the hooks of the two other builds.
- Counters that nothing reads (`gsrsp_total_*`), log output, and the spread of random
  addresses.
- That each hook of `rt_lib.c` passes its arguments on: one line each.
- The name tables of `afl-as.c`, which are data, and the spelling of a line, which is
  abstracted to its kind.  With the tables, almost half of that file's lines are no code.
- Of `WasmSignalHandlers.cpp` the machine contexts of other processors (58-430) and
  Windows; of `afl-as.h` the assembly text of AFL, which this repository does not emit;
  `types.h`, `config.h`, and the message macros of `debug.h` except FATAL.
- Test programs, scripts and the patched sources in other directories.

## Plan

The core, the other run times, the instrumenter and the tools are modelled.  What is
left is `HandlerStacks`: handlers on an alternative stack and the start-up of malloc.
