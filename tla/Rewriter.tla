------------------------------ MODULE Rewriter ------------------------------
(* code_rewriter.py and data_rewriter.py: they walk over the files of a      *)
(* directory and, in every executable and shared library, replace the size   *)
(* of the stack in the code of the prologues and epilogues, or in the page   *)
(* of the global size.  A run may be killed or find the disk full, also in    *)
(* the middle of a write, and be started again.                              *)
EXTENDS Integers, Sequences, FiniteSets

CONSTANTS
    Files, Elf,     \* the files, and those is_elf_file accepts
    Original,       \* file -> its content behind the ELF mark: byte strings and numbers
    Old, New,       \* the sizes on the command line
    Wrap,           \* number of values of a four-byte field
    Limits,         \* what "ulimit -s" may print: "number" or "unlimited"
    MaxRuns         \* bound: how often the tools are started

Tools == {"code", "data"}

VARIABLES
    disk,           \* file -> its content
    tool, todo,     \* the run: which tool, and the files it has not come to
    fpath, bin_img, i,  \* modify_one_bin_file
    cut,            \* history: files whose write was stopped in its middle
    pc, runs
runVars == <<tool, todo, runs>>
fileVars == <<fpath, bin_img, i>>
vars == <<disk, cut, runVars, fileVars, pc>>

-----------------------------------------------------------------------------
(* Patterns: bytes that never change, and the four bytes of a size as one.   *)

in == Wrap
add == Wrap + 1
out == Wrap + 2
rsp == Wrap + 3
jmp == Wrap + 4
magic == Wrap + 5
\* get_four_bytes(-x), get_n_bytes(-x, 8).
Bytes(x) == (Wrap - x) % Wrap
prolog(x) == <<in, Bytes(x), Bytes(2 * x), add, Bytes(x)>>
\* The longer one.
epilog(x) == <<out, Bytes(x), Bytes(x), Bytes(2 * x), rsp, jmp>>
global_stack_size(x) == <<Bytes(x), magic>>

Patterns(t, x) == IF t = "code" THEN <<prolog(x), epilog(x)>> ELSE <<global_stack_size(x)>>
Shortest(t) == IF t = "code" THEN Len(prolog(Old)) ELSE Len(global_stack_size(Old))

\* is_matching, also where the image ends first.
is_matching(img, at, pattern) ==
    /\ at + Len(pattern) - 1 <= Len(img)
    /\ \A k \in 1 .. Len(pattern) : img[at + k - 1] = pattern[k]

\* Code is in no section with the page of the global size: none runs into its mark.
Apart(img) ==
    \A k \in DOMAIN img :
        is_matching(img, k, prolog(Old)) =>
            ~(k + Len(prolog(Old)) \in DOMAIN img /\ img[k + Len(prolog(Old))] = magic)

RewriterAssumption ==
    /\ Files # {} /\ IsFiniteSet(Files) /\ Elf \subseteq Files
    /\ {Old, New, Wrap} \subseteq Nat \ {0} /\ MaxRuns \in Nat
    /\ Old # New /\ 2 * Old < Wrap /\ 2 * New < Wrap
    /\ Original \in [Files -> Seq(Nat)] /\ \A f \in Elf : Apart(Original[f])

HalfModified(img, at, pattern) ==
    [j \in DOMAIN img |-> IF j = at + 1 THEN pattern[2] ELSE img[j]]
\* modify_prolog_bytes, modify_epilog_bytes, modify_bytes.
Modified(img, at, pattern) ==
    [j \in DOMAIN img \cup at .. at + Len(pattern) - 1 |->
        IF j \in at .. at + Len(pattern) - 1 THEN pattern[j - at + 1] ELSE img[j]]

-----------------------------------------------------------------------------
(* One run.                                                                  *)

Start(t) ==
    /\ pc = "idle" /\ runs < MaxRuns
    /\ tool' = t /\ todo' = Files /\ runs' = runs + 1 /\ pc' = "walking"
    /\ UNCHANGED <<disk, cut, fileVars>>

\* os.walk gives the files in any order; what is no ELF file is left alone.
Skip(f) ==
    /\ pc = "walking" /\ f \in todo /\ (f \notin Elf \/ disk[f] = <<>>)
    /\ todo' = todo \ {f}
    /\ UNCHANGED <<disk, cut, tool, runs, fileVars, pc>>

Read(f) ==
    /\ pc = "walking" /\ f \in todo /\ f \in Elf /\ disk[f] # <<>>
    /\ todo' = todo \ {f} /\ fpath' = f
    /\ bin_img' = disk[f] /\ i' = 1 /\ pc' = "scanning"
    /\ UNCHANGED <<disk, cut, tool, runs>>

PastEnd == i - 1 <= Len(bin_img)
TooEarly == i <= Len(bin_img) - Shortest(tool)
\* The condition of the loop, with the first place counted as 1.
InImage == i - 1 <= Len(bin_img) - Shortest(tool)

ScanStuck ==
    /\ pc = "scanning" /\ InImage
    /\ LET old == Patterns(tool, Old)
           hits == {k \in DOMAIN old : is_matching(bin_img, i, old[k])}
       IN  IF hits = {} THEN UNCHANGED <<bin_img, i>>
           ELSE i' = i + Len(old[CHOOSE k \in hits : TRUE]) /\ UNCHANGED bin_img
    /\ UNCHANGED <<disk, cut, runVars, fpath, pc>>
\* One turn of the loop.
Scan ==
    /\ pc = "scanning" /\ InImage
    /\ LET old == Patterns(tool, Old)
           new == Patterns(tool, New)
           hits == {k \in DOMAIN old : is_matching(bin_img, i, old[k])}
       IN  IF hits = {}
           THEN i' = i + 1 /\ UNCHANGED bin_img
           ELSE LET k == CHOOSE k \in hits : \A l \in hits : k <= l
                IN  /\ bin_img' = Modified(bin_img, i, new[k])
                    /\ i' = i + Len(old[k])
    /\ UNCHANGED <<disk, cut, runVars, fpath, pc>>

\* open(..., "wb") cuts the file off.
Truncate ==
    /\ pc = "scanning" /\ ~InImage
    /\ disk' = [disk EXCEPT ![fpath] = <<>>] /\ pc' = "writing"
    /\ UNCHANGED <<cut, runVars, fileVars>>

\* f.write brings the image to the disk part by part.  A part that ends within a field
\* counts as one that ends before it: no pattern has half a field.
Write ==
    /\ pc = "writing"
    /\ LET part == SubSeq(bin_img, 1, Len(disk[fpath]) + 1)
       IN  /\ disk' = [disk EXCEPT ![fpath] = part]
           /\ pc' = IF part = bin_img THEN "written" ELSE "writing"
    /\ UNCHANGED <<cut, runVars, fileVars>>

\* A write that fails is an exception that nothing handles; what is written stays.
DiskFull ==
    /\ pc = "writing"
    /\ pc' = "exception" /\ cut' = cut \cup {fpath}
    /\ UNCHANGED <<disk, runVars, fileVars>>

\* The size of the stack is looked at after every file: what is no number is an exception.
CheckLimit ==
    /\ pc = "written"
    /\ \E limit \in Limits : pc' = IF limit = "unlimited" THEN "exception" ELSE "walking"
    /\ UNCHANGED <<disk, cut, runVars, fileVars>>

End ==
    /\ pc = "walking" /\ todo = {}
    /\ pc' = "ended"
    /\ UNCHANGED <<disk, cut, runVars, fileVars>>

Killed ==
    /\ pc \in {"walking", "scanning", "writing", "written"}
    /\ pc' = "idle" /\ bin_img' = <<>> /\ i' = 1
    /\ cut' = IF pc = "writing" THEN cut \cup {fpath} ELSE cut
    /\ UNCHANGED <<disk, runVars, fpath>>

Again ==
    /\ pc \in {"ended", "exception"} /\ runs < MaxRuns
    /\ pc' = "idle" /\ bin_img' = <<>> /\ i' = 1
    /\ UNCHANGED <<disk, cut, runVars, fpath>>

-----------------------------------------------------------------------------

Init ==
    /\ disk = Original /\ cut = {} /\ tool = "code" /\ todo = {} /\ runs = 0 /\ pc = "idle"
    /\ fpath = (CHOOSE f \in Files : TRUE) /\ bin_img = <<>> /\ i = 1

Next ==
    \/ \E t \in Tools : Start(t)
    \/ \E f \in Files : Skip(f) \/ Read(f)
    \/ Scan \/ Truncate \/ Write \/ DiskFull \/ CheckLimit \/ End \/ Killed \/ Again

\* A run goes on as long as it is not killed.
Fairness ==
    WF_vars((\E f \in Files : Skip(f) \/ Read(f)) \/ Scan \/ Truncate \/ Write \/ CheckLimit \/ End)

Spec == Init /\ [][Next]_vars /\ Fairness

-----------------------------------------------------------------------------
(* Correctness, against a definition that does not scan: the places where a  *)
(* pattern is, which never overlap.                                          *)

Places(img, t, x) ==
    {p \in (DOMAIN Patterns(t, x)) \X (DOMAIN img) : is_matching(img, p[2], Patterns(t, x)[p[1]])}
Covers(t, p, j) == j \in p[2] .. p[2] + Len(Patterns(t, Old)[p[1]]) - 1
Wanted(img, t) ==
    LET places == Places(img, t, Old)
    IN  [j \in DOMAIN img |->
            IF \E p \in places : Covers(t, p, j)
            THEN LET p == CHOOSE p \in places : Covers(t, p, j)
                 IN  Patterns(t, New)[p[1]][j - p[2] + 1]
            ELSE img[j]]
\* The original with nothing, the code, the data or both replaced.
Stages(f) ==
    LET code == Wanted(Original[f], "code")
        data == Wanted(Original[f], "data")
        both == [j \in DOMAIN code |-> IF code[j] # Original[f][j] THEN code[j] ELSE data[j]]
    IN  {code, data, both}

\* The fields of a pattern at place p of the original, as far as the file goes.
Shows(f, t, p, x) ==
    LET pattern == Patterns(t, x)[p[1]]
    IN  \A k \in DOMAIN pattern :
            p[2] + k - 1 \in DOMAIN disk[f] => disk[f][p[2] + k - 1] = pattern[k]

\* The beginning of the original, with each pattern in it replaced as a whole or not at
\* all and nothing else touched.
Beginning(f) ==
    LET found == {w \in Tools \X ((1 .. 2) \X DOMAIN Original[f]) :
                    w[2] \in Places(Original[f], w[1], Old)}
    IN  /\ Len(disk[f]) < Len(Original[f])
        /\ \A w \in found : Shows(f, w[1], w[2], Old) \/ Shows(f, w[1], w[2], New)
        /\ \A j \in DOMAIN disk[f] :
              disk[f][j] = Original[f][j] \/ \E w \in found : Covers(w[1], w[2], j)

\* Every variable has the type the code gives it.
TypeOK ==
    /\ pc \in {"idle", "walking", "scanning", "writing", "written", "ended", "exception"}
    /\ tool \in Tools /\ todo \subseteq Files /\ fpath \in Files
    /\ runs \in 0 .. MaxRuns /\ cut \subseteq Files
    /\ i \in 1 .. Len(bin_img) + 1

\* The file that the tool has opened for writing and not written yet.
Open(f) == pc = "writing" /\ f = fpath

\* However often the tools are run, stopped and run again, a file is the original with all
\* the old sizes of the code, of the data or of both replaced and nothing else touched.
\* The exception is a file whose write a kill or a full disk has stopped: the end of it is
\* gone for good, and later runs take what is left for a whole file (code_rewriter.py
\* 154-179, 201-202).
AllOrNothing ==
    \A f \in Files :
        \/ disk[f] = Original[f]
        \/ f \in Elf /\ Beginning(f) /\ (f \in cut \/ Open(f))
        \/ f \in Elf /\ disk[f] \in Stages(f)

\* A run that comes to its end has left no old size in any file, also not in one that is
\* no longer whole.
EndedIsComplete == pc = "ended" => \A f \in Elf : Places(disk[f], tool, Old) = {}

\* A run that is stopped loses at most one file, the one it was writing.
OneLossPerRun ==
    Cardinality({f \in Files : Len(disk[f]) < Len(Original[f]) /\ ~Open(f)}) <= runs

\* What every run keeps: a file is rewritten as a whole or not at all, unless the write
\* itself was stopped, and each run loses at most one file in this way.
FilesInOrder == TypeOK /\ AllOrNothing /\ EndedIsComplete /\ OneLossPerRun

\* A run that is not killed comes to its end.
RunEnds == pc = "walking" ~> pc \in {"ended", "exception", "idle"}
=============================================================================
