--------------------------- MODULE ProtectedNames ---------------------------
(* The list of protected functions.  A first build prints the name of every  *)
(* function it instruments; the shell makes a sorted file of them; in the    *)
(* second build every run of the assembler reads the file and links a direct *)
(* call past the prologue of its target when a binary search finds the name. *)
EXTENDS Integers, Sequences, FiniteSets

CONSTANTS
    Names, None,
    ByteOrder,      \* strcmp: the pairs of names of which the first is smaller
    FileOrder,      \* the order sort uses; env.sh sets LC_ALL=C
    Chop,           \* name -> the name without its last byte
    Prefixed,       \* names that begin with an entry of libc_names or libcxx_names
    Jobs, Defines,  \* a job of the first build -> the functions it instruments
    Newlines        \* whether the last line of the file ends like the others

Total(order) ==
    /\ order \subseteq Names \X Names
    /\ \A a \in Names : <<a, a>> \notin order
    /\ \A a, b \in Names : a # b => <<a, b>> \in order \/ <<b, a>> \in order
    /\ \A a, b, c \in Names : <<a, b>> \in order /\ <<b, c>> \in order => <<a, c>> \in order

ASSUME OrderAssumption == Total(ByteOrder) /\ Total(FileOrder)
ASSUME NameAssumption ==
    /\ None \notin Names /\ Prefixed \subseteq Names
    /\ Chop \in [Names -> Names \cup {None}] /\ Newlines \subseteq BOOLEAN
ASSUME JobAssumption == Defines \in [Jobs -> Seq(Names)]

VARIABLES
    pc,
    printed,        \* job -> how many names it has printed
    log,            \* the output of the first build
    file, newline,  \* the file of names and how it ends
    list,           \* spa_protected_funcs; its first element is [1]
    name, low, high \* the locals of is_protected_function
buildVars == <<printed, log>>
fileVars == <<file, newline>>
searchVars == <<name, low, high>>
vars == <<pc, buildVars, fileVars, list, searchVars>>

Below(a, b) == <<a, b>> \in ByteOrder
Count(s, x) == Cardinality({i \in DOMAIN s : s[i] = x})
\* What uniq leaves of the lines with x.
Runs(s, x) == Cardinality({i \in DOMAIN s : s[i] = x /\ (i > 1 => s[i - 1] # x)})
Sorted(s, order) == \A i, j \in DOMAIN s : i < j => <<s[j], s[i]>> \notin order
Defined == UNION {{Defines[j][i] : i \in DOMAIN Defines[j]} : j \in Jobs}

-----------------------------------------------------------------------------
(* The first build and the file that is made of its output.                  *)

\* Line 7836; the jobs of make -j print in any order.
PrintName(j) ==
    /\ pc = "first" /\ printed[j] < Len(Defines[j])
    /\ printed' = [printed EXCEPT ![j] = @ + 1]
    /\ log' = Append(log, Defines[j][printed[j] + 1])
    /\ UNCHANGED <<pc, fileVars, list, searchVars>>

AnyFile(s) ==
    {f \in UNION {[1 .. n -> Names] : n \in 0 .. Len(s)} :
        \A x \in Names : Count(f, x) = Runs(s, x)}
\* grep, awk, uniq and sort.
SortedFile(s) == {f \in AnyFile(s) : Sorted(f, FileOrder)}

List ==
    /\ pc = "first" /\ \A j \in Jobs : printed[j] = Len(Defines[j])
    /\ file' \in SortedFile(log) /\ newline' \in Newlines
    /\ pc' = "listed"
    /\ UNCHANGED <<buildVars, list, searchVars>>

-----------------------------------------------------------------------------
(* The second build: one run of the assembler and the calls it reads.        *)

\* The last byte of every line becomes its end, also when it is no newline; a line of one
\* byte is skipped.
Lines(f, ended) ==
    IF ended \/ f = <<>> THEN f
    ELSE SubSeq(f, 1, Len(f) - 1) \o
         (IF Chop[f[Len(f)]] = None THEN <<>> ELSE <<Chop[f[Len(f)]]>>)

\* fopen, and PFATAL when it fails.
spa_open_protected_funcs_list ==
    /\ pc = "listed"
    /\ \/ pc' = "reading" /\ list' = Lines(file, newline)
       \/ pc' = "fatal" /\ UNCHANGED list
    /\ UNCHANGED <<buildVars, fileVars, searchVars>>

\* The environment does not name a list.
NoList ==
    /\ pc = "listed"
    /\ pc' = "reading" /\ list' = <<>>
    /\ UNCHANGED <<buildVars, fileVars, searchVars>>

\* is_libcxx_func_called, is_libc_func_called: an entry is a prefix of the line.
IsLibrary(f) == f \in Prefixed

\* Lines 7318-7336: a call through the PLT or of a library function stays as it is.
Call(f, plt) ==
    /\ pc = "reading"
    /\ name' = f
    /\ IF plt THEN pc' = "plt" /\ UNCHANGED <<low, high>>
       ELSE IF IsLibrary(f) THEN pc' = "library" /\ UNCHANGED <<low, high>>
       ELSE pc' = "search" /\ low' = 0 /\ high' = Len(list) - 1
    /\ UNCHANGED <<buildVars, fileVars, list>>

Mid == (low + high) \div 2
SameStart(a, b) == a = b \/ Chop[b] = a
\* strcmp gives 0.
Same(a, b) == a = b
More == low < high
\* The condition of the loop of is_protected_function.
InRange == low <= high
StepOver(mid) == low' = mid + 2 /\ UNCHANGED <<pc, high>>
StepNowhere(mid) == low' = mid /\ UNCHANGED <<pc, high>>
StepUp(mid) == low' = mid + 1 /\ UNCHANGED <<pc, high>>
StepBelow(mid) == high' = mid - 2 /\ UNCHANGED <<pc, low>>
StepDown(mid) == high' = mid - 1 /\ UNCHANGED <<pc, low>>

\* One turn of the loop.
Search ==
    /\ pc = "search"
    /\ IF ~InRange THEN pc' = "unfound" /\ UNCHANGED <<low, high>>
       ELSE IF Same(name, list[Mid + 1]) THEN pc' = "linked" /\ UNCHANGED <<low, high>>
       ELSE IF Below(list[Mid + 1], name) THEN StepUp(Mid)
       ELSE StepDown(Mid)
    /\ UNCHANGED <<buildVars, fileVars, list, name>>

\* The call is written, and the next line is read.
Written ==
    /\ pc \in {"plt", "library", "linked", "unfound"}
    /\ pc' = "reading"
    /\ UNCHANGED <<buildVars, fileVars, list, searchVars>>

-----------------------------------------------------------------------------

Init ==
    /\ pc = "first" /\ printed = [j \in Jobs |-> 0] /\ log = <<>>
    /\ file = <<>> /\ newline = TRUE /\ list = <<>>
    /\ name = None /\ low = 0 /\ high = -1

Next ==
    \/ \E j \in Jobs : PrintName(j)
    \/ List
    \/ spa_open_protected_funcs_list \/ NoList
    \/ \E f \in Names, plt \in BOOLEAN : Call(f, plt)
    \/ Search
    \/ Written

\* The search is a loop of a running program.
Fairness == WF_vars(Search)

Spec == Init /\ [][Next]_vars /\ Fairness

-----------------------------------------------------------------------------
(* Correctness.                                                              *)

\* Every variable has the type the code gives it.
TypeOK ==
    /\ pc \in {"first", "listed", "fatal", "reading", "search",
               "plt", "library", "linked", "unfound"}
    /\ printed \in [Jobs -> Nat] /\ log \in Seq(Names)
    /\ file \in Seq(Names) /\ newline \in BOOLEAN /\ list \in Seq(Names)
    /\ name \in Names \cup {None}
    /\ low \in Nat /\ high \in Nat \cup {-1}

\* The search never reads an element the list does not have (line 6702), and while it goes
\* on a name of a list whose last line is whole lies between its bounds.
SearchInRange ==
    pc = "search" =>
        /\ low <= high + 1 /\ high < Len(list)
        /\ newline => \A i \in DOMAIN list : list[i] = name => low < i /\ i <= high + 1

\* With a list whose last line is whole, a call is linked past the prologue only of a
\* function the first build has instrumented (lines 7336, 7836).
LinkedWasNamed == newline /\ pc = "linked" => name \in Defined

\* With such a list the search finds every function the first build has named (lines 119,
\* 6671, README.md 146).  Without it the last name has lost a letter.
NamedIsFound == newline /\ pc = "unfound" /\ list # <<>> => name \notin Defined

\* The binary search is exact, and stays inside the list.
SearchIsExact == SearchInRange /\ LinkedWasNamed /\ NamedIsFound

\* Every search comes to an end.
SearchEnds == pc = "search" ~> pc # "search"
=============================================================================
