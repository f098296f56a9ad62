---------------------------- MODULE BuildDriver ----------------------------
(* One compilation through the wrappers: afl-gcc.c edits the command line    *)
(* and becomes the compiler, the compiler runs an assembler for each of its  *)
(* files, and main of afl-as.c, when that is the one it finds, writes an     *)
(* instrumented copy, hands it to the real assembler, waits for it, removes  *)
(* the copy and exits as it did.  afl-rustc.c only adds an option.           *)
(* What the copy holds is the subject of SpaAs.                              *)
EXTENDS Naturals, Sequences, FiniteSets

CONSTANTS
    Jobs,       \* what may be asked of the wrappers: records, see JobType
    Outcomes    \* how the real assembler may end

VARIABLES
    job,        \* the command line, the environment and what is on the disk
    pc,         \* where the build is
    next,       \* index of the argument edit_params looks at
    params,     \* cc_params: words, each with where it comes from
    flags,      \* fortify_set and asan_set
    dir,        \* as_path
    todo,       \* files the compiler has yet to assemble
    procs,      \* processes of afl-as.c, the child of each after it
    temps,      \* copies on the disk, each with the process that wrote it
    objects,    \* files assembled, each with how often it was instrumented
    code,       \* exit status of the build
    failures    \* what went wrong
vars == <<job, pc, next, params, flags, dir, todo, procs, temps, objects, code, failures>>

-----------------------------------------------------------------------------
(* Types.                                                                    *)

\* Environment variables; "AFL_QUIET" also stands for an error output that is no terminal.
Switches == {"AFL_HARDEN", "AFL_USE_ASAN", "AFL_USE_MSAN", "AFL_NO_BUILTIN",
             "AFL_KEEP_ASSEMBLY", "AFL_QUIET", "bad_ratio"}
Words == {"-B", "-Bdir", "-integrated-as", "-pipe", "-fsanitize=address",
          "-fsanitize=memory", "FORTIFY_SOURCE", "file"}
Added == {"-B", "dir", "-no-integrated-as", "-fstack-protector-all", "-D_FORTIFY_SOURCE=2",
          "-U_FORTIFY_SOURCE", "-fsanitize=address", "-fsanitize=memory", "-fno-builtin",
          "-Wl", "no-integrated-as"}
\* A file of assembly: its name ("file", "-", "--version" or another option), whether it is
\* in a temporary directory, and what its .cfi_startproc and .cfi_endproc are.
File == [name : {"file", "-", "--version", "-option"}, temp : BOOLEAN,
         procs : {"none", "equal", "unequal"}]
JobType == [tool : {"gcc", "clang", "rustc"}, words : Seq(Words), env : SUBSET Switches,
            afl_as : {"none", "wrapper"}, afl_path : BOOLEAN, slash : BOOLEAN,
            disk : SUBSET {"path/as", "argv0/afl-as", "argv0/as", "default/as"},
            files : Seq(File)]

DriverAssumption == Jobs \subseteq JobType /\ Outcomes \subseteq {"ended_0", "ended_1", "killed"}

Set(x) == x \in job.env
User(w) == [by |-> "user", word |-> w]
Ours(w) == [by |-> "wrapper", word |-> w]
WordsOf(by) == {params[i].word : i \in {j \in DOMAIN params : params[j].by = by}}
AllWords == WordsOf("user") \cup WordsOf("wrapper")

\* FATAL and PFATAL (debug.h 199-227).
Fatal(why) == pc' = "done" /\ code' = 1 /\ failures' = failures \cup {why}

-----------------------------------------------------------------------------
(* afl-gcc.c: find_as, edit_params and main.                                 *)

asVars == <<todo, procs, temps, objects>>

\* The directories find_as tries, in its order, each with the file it looks for.
FoundIn ==
    IF job.afl_path /\ "path/as" \in job.disk THEN "path"
    ELSE IF job.slash /\ "argv0/afl-as" \in job.disk THEN "argv0"
    ELSE IF "default/as" \in job.disk THEN "default"
    ELSE "none"

FindAs ==
    /\ pc = "find" /\ job.tool # "rustc"
    /\ IF FoundIn = "none"
       THEN Fatal("no wrapper") /\ UNCHANGED dir
       ELSE pc' = "words" /\ dir' = FoundIn /\ UNCHANGED <<code, failures>>
    /\ UNCHANGED <<job, next, params, flags, asVars>>

\* afl-rustc.c looks for nothing (line 86) and edits nothing but what it adds.
Rustc ==
    /\ pc = "find" /\ job.tool = "rustc"
    /\ params' = [i \in DOMAIN job.words |-> User(job.words[i])]
                   \o <<Ours("-C"), Ours("no-integrated-as")>>
    /\ pc' = "exec"
    /\ UNCHANGED <<job, next, flags, dir, asVars, code, failures>>

NothingDropped == {}
Dropped == {"-integrated-as", "-pipe"}
NothingConsumed(w) == IF w = "-B" THEN 0 ELSE 1
ConsumedUnchecked(w) == IF w = "-B" THEN 2 ELSE 1
\* "-B" on its own takes the word behind it, if there is one, along (line 206).
Consumed(w) == IF w = "-B" /\ next < Len(job.words) THEN 2 ELSE 1

\* One turn of the loop of lines 199-247.
EditWord ==
    /\ pc = "words" /\ next <= Len(job.words)
    /\ LET w == job.words[next]
       IN  IF w \in {"-B", "-Bdir"}
           THEN next' = next + Consumed(w) /\ UNCHANGED <<params, flags>>
           ELSE /\ next' = next + 1
                /\ params' = IF w \in Dropped THEN params ELSE Append(params, User(w))
                /\ flags' = [asan |-> flags.asan \/ w \in {"-fsanitize=address",
                                                          "-fsanitize=memory"},
                             fortify |-> flags.fortify \/ w = "FORTIFY_SOURCE"]
    /\ UNCHANGED <<job, pc, dir, asVars, code, failures>>

Assembler == <<Ours("-B"), Ours(dir)>>
             \o (IF job.tool = "clang" THEN <<Ours("-no-integrated-as")>> ELSE <<>>)
Hardening ==
    IF ~Set("AFL_HARDEN") THEN <<>>
    ELSE <<Ours("-fstack-protector-all")>>
         \o (IF flags.fortify THEN <<>> ELSE <<Ours("-D_FORTIFY_SOURCE=2")>>)

NoConflict == FALSE
\* Lines 264-293: what the command line asks for is not looked at.
Conflict ==
    /\ ~flags.asan
    /\ \/ Set("AFL_USE_ASAN") /\ (Set("AFL_USE_MSAN") \/ Set("AFL_HARDEN"))
       \/ Set("AFL_USE_MSAN") /\ Set("AFL_HARDEN")
Sanitizer ==
    IF flags.asan THEN <<>>
    ELSE IF Set("AFL_USE_ASAN") THEN <<Ours("-U_FORTIFY_SOURCE"), Ours("-fsanitize=address")>>
    ELSE IF Set("AFL_USE_MSAN") THEN <<Ours("-U_FORTIFY_SOURCE"), Ours("-fsanitize=memory")>>
    ELSE <<>>
Rest == (IF Set("AFL_NO_BUILTIN") THEN <<Ours("-fno-builtin")>> ELSE <<>>) \o <<Ours("-Wl")>>

AddWords ==
    /\ pc = "words" /\ next > Len(job.words)
    /\ IF Conflict
       THEN Fatal("conflict") /\ UNCHANGED params
       ELSE /\ params' = params \o Assembler \o Hardening \o Sanitizer \o Rest
            /\ pc' = "exec" /\ UNCHANGED <<code, failures>>
    /\ UNCHANGED <<job, next, flags, dir, asVars>>

Exec ==
    /\ pc = "exec"
    /\ \/ pc' = "compile" /\ UNCHANGED <<code, failures>>
       \/ Fatal("exec")                                     \* line 408
    /\ UNCHANGED <<job, next, params, flags, dir, asVars>>

-----------------------------------------------------------------------------
(* The compiler: it runs `as' of the directory named by -B for each file.    *)

AsOf == [path |-> "path/as", argv0 |-> "argv0/as", default |-> "default/as"]
RunsWrapper ==
    /\ Ours("-B") \in {params[i] : i \in DOMAIN params}
    /\ AsOf[dir] \in job.disk
Process(file, n) == [pc |-> "start", file |-> file, times |-> n, pass_thru |-> FALSE]

Compile ==
    /\ pc = "compile" /\ procs = <<>> /\ todo # <<>>
    /\ IF RunsWrapper
       THEN procs' = <<Process(Head(todo), 0)>> /\ UNCHANGED objects
       ELSE UNCHANGED procs /\ objects' = objects \cup {[file |-> Head(todo), times |-> 0]}
    /\ todo' = Tail(todo)
    /\ UNCHANGED <<job, pc, next, params, flags, dir, temps, code, failures>>

Finish ==
    /\ pc = "compile" /\ procs = <<>> /\ todo = <<>>
    /\ pc' = "done" /\ code' = 0
    /\ UNCHANGED <<job, next, params, flags, dir, asVars, failures>>

-----------------------------------------------------------------------------
(* afl-as.c: main and edit_params.  The last of procs is the one that runs.  *)

ccVars == <<job, next, params, flags, dir, todo>>
Depth == Len(procs)
Top == procs[Depth]
At(where) == pc = "compile" /\ procs # <<>> /\ Top.pc = where
Become(p) == procs' = [procs EXCEPT ![Depth] = p]
Goto(where) == Become([Top EXCEPT !.pc = where])
Temp == [depth |-> Depth, file |-> Top.file, kept |-> Set("AFL_KEEP_ASSEMBLY")]

\* A process ends.  The one that waits for it goes on with the status; the compiler gives up
\* when the status is not 0 (external).
Exit(status, why) ==
    IF Depth > 1
    THEN /\ procs' = [SubSeq(procs, 1, Depth - 1)
                        EXCEPT ![Depth - 1].pc = IF status = 0 THEN "ended_0" ELSE "ended_1"]
         /\ failures' = failures \cup why
         /\ UNCHANGED <<pc, code>>
    ELSE /\ procs' = <<>>
         /\ failures' = failures \cup why
         /\ IF status = 0 THEN UNCHANGED <<pc, code>> ELSE pc' = "done" /\ code' = 1

\* Lines 6815-6863.  Of the child of a wrapper the input is its copy, which is in the
\* temporary directory and as well formed as the file.
AsParams ==
    /\ At("start")
    /\ CASE Top.file.name = "--version" -> Goto("check") /\ UNCHANGED <<pc, code, failures>>
         [] Top.file.name = "-option" -> Exit(1, {"usage"})
         [] Top.file.name = "-" -> Exit(1, {"null"})       \* strlen(NULL), line 6846
         [] Top.file.name = "file" ->
              /\ Become([Top EXCEPT !.pc = "check",
                           !.pass_thru = ~Top.file.temp /\ Top.file.procs # "equal"])
              /\ UNCHANGED <<pc, code, failures>>
    /\ UNCHANGED <<ccVars, temps, objects>>

LoopIgnored == FALSE
\* AS_LOOP_ENV_VAR (lines 8028-8031): set for the children of the process.
Looping == Depth > 1

\* Lines 8021-8031.
AsCheck ==
    /\ At("check")
    /\ IF Set("bad_ratio") THEN Exit(1, {"ratio"})
       ELSE IF Looping THEN Exit(1, {"loop"})
       ELSE /\ Goto(IF Top.file.name = "--version" THEN "fork" ELSE "write")
            /\ UNCHANGED <<pc, code, failures>>
    /\ UNCHANGED <<ccVars, temps, objects>>

\* add_instrumentation: it opens the file (line 6900), writes all of it and only then
\* compares the numbers (lines 7962-7966).
Refused == ~Set("AFL_QUIET") /\ ~Top.pass_thru /\ Top.file.procs = "unequal"

AsWrite ==
    /\ At("write")
    /\ \/ /\ Exit(1, {"open"}) /\ UNCHANGED temps
       \/ /\ temps' = temps \cup {Temp}
          /\ IF Refused THEN Exit(1, {"unequal"})
             ELSE /\ Become([Top EXCEPT !.pc = "fork",
                               !.times = IF Top.pass_thru THEN @ ELSE @ + 1])
                  /\ UNCHANGED <<pc, code, failures>>
    /\ UNCHANGED <<ccVars, objects>>

\* Lines 8055-8060.  What AFL_AS names is run instead of /usr/bin/as.
AsFork ==
    /\ At("fork")
    /\ \/ Exit(1, {"fork"}) /\ UNCHANGED objects
       \/ /\ job.afl_as = "wrapper"
          /\ procs' = Append([procs EXCEPT ![Depth].pc = "wait"],
                             Process([Top.file EXCEPT !.temp = TRUE], Top.times))
          /\ UNCHANGED <<pc, code, failures, objects>>
       \/ /\ job.afl_as = "none"
          /\ \E o \in Outcomes :
                /\ Goto(o)
                /\ objects' = IF o = "ended_0" /\ Top.file.name = "file"
                              THEN objects \cup {[file |-> Top.file, times |-> Top.times]}
                              ELSE objects
                /\ failures' = failures \cup ({o} \ {"ended_0"})
          /\ UNCHANGED <<pc, code>>
    /\ UNCHANGED <<ccVars, temps>>

Kept(t) == {}
\* Line 8066.
Unlinked(t) == IF Set("AFL_KEEP_ASSEMBLY") THEN {} ELSE {t}

StatusIgnored(how) == 0
\* WEXITSTATUS: 0 for a process that a signal has ended.
ExitStatus(how) == IF how = "ended_1" THEN 1 ELSE 0

\* Lines 8064-8068.
AsWait ==
    /\ \E how \in {"ended_0", "ended_1", "killed"} :
          /\ At(how)
          /\ Exit(ExitStatus(how), {})
    /\ temps' = temps \ Unlinked(Temp)
    /\ UNCHANGED <<ccVars, objects>>

-----------------------------------------------------------------------------

Init ==
    /\ job \in Jobs
    /\ pc = "find" /\ next = 1 /\ params = <<>> /\ dir = "none"
    /\ flags = [asan |-> FALSE, fortify |-> FALSE]
    /\ todo = job.files /\ procs = <<>> /\ temps = {} /\ objects = {}
    /\ code = 0 /\ failures = {}

Next ==
    \/ FindAs \/ Rustc \/ EditWord \/ AddWords \/ Exec \/ Compile \/ Finish
    \/ AsParams \/ AsCheck \/ AsWrite \/ AsFork \/ AsWait

Spec == Init /\ [][Next]_vars
\* A process that can go on does.
FairSpec == Spec /\ WF_vars(Next)

-----------------------------------------------------------------------------
(* Correctness.                                                              *)

\* Every variable has the type the code gives it.
TypeOK ==
    /\ pc \in {"find", "words", "exec", "compile", "done"}
    /\ next \in 1 .. Len(job.words) + 1
    /\ WordsOf("user") \subseteq Words
    /\ WordsOf("wrapper") \subseteq Added \cup {"-C", "path", "argv0", "default"}
    /\ flags \in [asan : BOOLEAN, fortify : BOOLEAN]
    /\ dir \in {"none", "path", "argv0", "default"}
    /\ \A i \in DOMAIN procs : /\ procs[i].file \in File /\ procs[i].times \in 0 .. Depth
                               /\ i < Depth => procs[i].pc = "wait"
    /\ \A o \in objects : o.file \in File
    /\ code \in {0, 1}

Running == pc = "compile" \/ (pc = "done" /\ failures \cap {"no wrapper", "conflict", "exec"} = {})

\* The compiler is told of one directory of assemblers, ours, and is never asked for its
\* own assembler or for a pipe to one, whatever the user has written (afl-gcc.c 202-209,
\* 232-253).
OneAssembler ==
    Running /\ job.tool # "rustc" =>
        /\ WordsOf("user") \cap {"-B", "-Bdir", "-integrated-as", "-pipe"} = {}
        /\ Cardinality({i \in DOMAIN params : params[i].word = "-B"}) = 1
        /\ job.tool = "clang" => "-no-integrated-as" \in AllWords

\* What the environment asks for is never combined with what rules it out (afl-gcc.c
\* 264-293), and no word of ours that defines FORTIFY_SOURCE stands beside one of the
\* user's or one of ours that undefines it.
NotCombined ==
    Running =>
        /\ {"-fsanitize=address", "-fsanitize=memory"} \cap WordsOf("wrapper") # {} =>
              /\ {"-fsanitize=address", "-fsanitize=memory"} \cap WordsOf("user") = {}
              /\ "-fstack-protector-all" \notin AllWords
        /\ ~({"-fsanitize=address", "-fsanitize=memory"} \subseteq WordsOf("wrapper"))
        /\ "-D_FORTIFY_SOURCE=2" \in AllWords =>
              {"-U_FORTIFY_SOURCE", "FORTIFY_SOURCE"} \cap AllWords = {}

\* An object of a build with the wrapper's directory is instrumented exactly once, unless it
\* comes from a file that is not the compiler's and whose procedures are not balanced
\* (afl-as.c 6830-6843): also when AFL_AS names the wrapper again.
InstrumentedOnce ==
    /\ \A i \in DOMAIN procs : procs[i].times <= 1
    /\ RunsWrapper => \A o \in objects :
          o.times = IF o.file.temp \/ o.file.procs = "equal" THEN 1 ELSE 0

\* A copy outlives the build only when it was to be kept or when the process that wrote it
\* has ended in FATAL (afl-as.c 7964, 8062-8066).
NoCopyLeft ==
    pc = "done" => \A t \in temps : t.kept \/ failures \cap {"unequal", "fork"} # {}

\* A build that says it has succeeded has assembled every file: what fails in the
\* assembler, in the copy or in a check reaches the compiler (afl-as.c 8068).  A signal is
\* the exception: WEXITSTATUS of its status is 0.
SuccessIsComplete ==
    pc = "done" /\ code = 0 /\ "killed" \notin failures =>
        \A i \in DOMAIN job.files :
            job.files[i].name = "file" => \E o \in objects : o.file = job.files[i]

\* What every state of a build keeps: the command line is ours and consistent, no file is
\* done twice, and none is lost or left behind but for the exceptions named above (afl-gcc.c
\* 132-349, afl-as.c 7990-8069).
BuildInOrder ==
    TypeOK /\ OneAssembler /\ NotCombined /\ InstrumentedOnce /\ NoCopyLeft /\ SuccessIsComplete

\* Whatever the words are and whatever AFL_AS names, the build comes to an end (afl-gcc.c
\* 199-247, afl-as.c 8028-8031).
Ends == <>(pc = "done")
=============================================================================
