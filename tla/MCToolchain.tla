---------------------------- MODULE MCToolchain ----------------------------
(* The programs of a build: the list of protected functions and its search,   *)
(* the wrappers of compiler and assembler, their allocator, and the tools     *)
(* that change the size of the stack in binaries.  A run is about one of      *)
(* them: part says which, and the variables of the others stay as they are.   *)
EXTENDS ProtectedNames, TLC

CONSTANTS Commands, Outcomes, Ptrs, Null, Hash, Sizes, MaxAlloc, BlockInc, Operations, Wrap,
          exe, so, obj, Files, Elf, Original, Old, New, Limits, MaxRuns

VARIABLES
    part,
    job, where, next, params, flags, dir, todo, procs, temps, objects, code, failures,
    debug, heap, wants, TRK, end, bad, slipped,
    disk, cut, tool, files, fpath, bin_img, i, at, runs

-----------------------------------------------------------------------------
(* The list.  Names in the order of strcmp: upper case, the underscore, lower *)
(* case.  "Open", "run" and "runner" name no function of MCDefines; two files *)
(* define a static function of one name.                                      *)

InBytes == <<"Open", "Run", "_init", "abort", "abortgo", "run", "runn", "runner">>
MCNames == {InBytes[k] : k \in DOMAIN InBytes}
OrderOf(s) == {<<s[p[1]], s[p[2]]>> : p \in {q \in (DOMAIN s) \X (DOMAIN s) : q[1] < q[2]}}
MCOrder == OrderOf(InBytes)
\* Only the last name of a file is ever cut: here, "runn".
MCChop == [n \in MCNames |->
    CASE n = "runner" -> "runn" [] n = "runn" -> "run" [] OTHER -> "no name"]
MCNone == "no name"
MCPrefixed == {"abort", "abortgo"}
MCJobs == {1, 2}
MCDefines == <<<<"runn", "_init">>, <<"Run", "runn", "abortgo">>>>

-----------------------------------------------------------------------------
(* The wrappers: every command line of at most two words and every           *)
(* sanitizer; every file, directory and switch of the assembler, with a       *)
(* second file behind it; every way to look for the wrapper.                  *)

Plain == [tool |-> "clang", words |-> <<"file">>, env |-> {}, afl_as |-> "none",
          afl_path |-> TRUE, slash |-> TRUE, disk |-> {"path/as"},
          files |-> <<[name |-> "file", temp |-> TRUE, procs |-> "equal"]>>]

Kinds == INSTANCE BuildDriver WITH Jobs <- {}, pc <- where

WordJobs ==
    {[Plain EXCEPT !.tool = t, !.words = w, !.env = e] :
        t \in {"gcc", "clang", "rustc"}, w \in UNION {[1 .. n -> Kinds!Words] : n \in 0 .. 2},
        e \in SUBSET {"AFL_HARDEN", "AFL_USE_ASAN", "AFL_USE_MSAN"}}
FileJobs ==
    {[Plain EXCEPT !.tool = t, !.env = e, !.afl_as = a, !.files = <<f, g>>] :
        t \in {"gcc", "rustc"},
        e \in SUBSET {"AFL_KEEP_ASSEMBLY", "AFL_QUIET", "bad_ratio", "AFL_NO_BUILTIN"},
        a \in {"none", "wrapper"},
        f \in {x \in Kinds!File : x.name # "-"}, g \in {x \in Kinds!File : x.name = "file"}}
PathJobs ==
    {[Plain EXCEPT !.afl_path = a, !.slash = s, !.disk = d] :
        a \in BOOLEAN, s \in BOOLEAN,
        d \in SUBSET {"path/as", "argv0/afl-as", "argv0/as", "default/as"}}

MCCommands == {Plain} \cup WordJobs \cup FileJobs \cup PathJobs

Driver == INSTANCE BuildDriver WITH Jobs <- Commands, pc <- where

-----------------------------------------------------------------------------
(* The allocator, as the Makefile builds it and with DEBUG_BUILD, where two   *)
(* pointers share a bucket and the client does not use what it has freed.     *)

MCHash == [p \in Ptrs |-> 1]
Honest == {"alloc", "memdup", "free", "realloc", "realloc_block", "overrun"}
MCOperations == [d \in BOOLEAN |->
    IF d THEN Honest ELSE Honest \cup {"memdup_str", "free again", "realloc again"}]

Blocks == INSTANCE AllocInl

-----------------------------------------------------------------------------
(* The rewriters.  The executable has a prologue that begins anew in its      *)
(* middle, an epilogue and the global size; the library has what only looks   *)
(* like a pattern, and a prologue before an epilogue that the end of the file *)
(* cuts off.  What is already of the new size, the second run meets.          *)

Image == INSTANCE Rewriter
    WITH Files <- {}, Elf <- {}, Original <- <<>>, todo <- files, pc <- at
MCFiles == {exe, so, obj}
MCElf == {exe, so}
MCOriginal == [f \in MCFiles |->
    CASE f = exe -> <<Image!in, Image!Bytes(Old)>> \o Image!prolog(Old)
                    \o Image!epilog(Old) \o Image!global_stack_size(Old)
      [] f = so  -> <<Image!out, Image!Bytes(Old), Image!Bytes(New)>>
                    \o Image!prolog(Old) \o SubSeq(Image!epilog(Old), 1, 4)
      [] f = obj -> Image!prolog(Old)]

Sizer == INSTANCE Rewriter WITH todo <- files, pc <- at

-----------------------------------------------------------------------------

ASSUME ToolConstants ==
    Driver!DriverAssumption /\ Blocks!AllocAssumption /\ Sizer!RewriterAssumption

drivervars == <<job, where, next, params, flags, dir, todo, procs, temps, objects, code,
                failures>>
blockvars == <<debug, heap, wants, TRK, end, bad, slipped>>
sizervars == <<disk, cut, tool, files, fpath, bin_img, i, at, runs>>
allvars == <<part, vars, drivervars, blockvars, sizervars>>

InitAll ==
    /\ part \in {"list", "driver", "blocks", "sizer"}
    /\ Init /\ Sizer!Init
    /\ Blocks!Init /\ (part = "blocks" \/ ~debug)
    /\ Driver!Init /\ (part = "driver" \/ job = Plain)

Listing == part = "list" /\ Next /\ UNCHANGED <<part, drivervars, blockvars, sizervars>>
Driving == part = "driver" /\ Driver!Next /\ UNCHANGED <<part, vars, blockvars, sizervars>>
Allocating == part = "blocks" /\ Blocks!Next /\ UNCHANGED <<part, vars, drivervars, sizervars>>
Sizing == part = "sizer" /\ Sizer!Next /\ UNCHANGED <<part, vars, drivervars, blockvars>>

\* A build goes on; a search and a rewriting run that have begun go on.
SpecAll ==
    /\ InitAll /\ [][Listing \/ Driving \/ Allocating \/ Sizing]_allvars
    /\ WF_drivervars(part = "driver" /\ Driver!Next) /\ Fairness /\ Sizer!Fairness

-----------------------------------------------------------------------------
\* No file of a build is done twice; none is lost unless a signal killed its assembler, or
\* left behind unless a wrapper ended in FATAL (afl-gcc.c 132-349, afl-as.c 7990-8069).
BuildInOrder == part = "driver" => Driver!BuildInOrder

\* Blocks are whole and mistakes refused, in both builds (alloc-inl.h 79-455).
BlocksAreWhole == part = "blocks" => Blocks!BlocksAreWhole

\* No file is half rewritten, but one whose write a kill or a full disk has stopped
\* (code_rewriter.py 138-240, data_rewriter.py).
FilesInOrder == part = "sizer" => Sizer!FilesInOrder

\* Every search, every build and every run that is not killed comes to its end (afl-as.c
\* 6698-6711, afl-gcc.c 199-247, code_rewriter.py 154-179).
ProgramsEnd == SearchEnds /\ (part = "driver" => Driver!Ends) /\ Sizer!RunEnds
=============================================================================
