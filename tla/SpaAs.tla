------------------------------- MODULE SpaAs -------------------------------
(* The instrumenter of afl-as.c, add_instrumentation (lines 6872-7980): one *)
(* pass over the lines of an assembly file that adds a prologue behind      *)
(* .cfi_startproc, replaces ret, and rewrites calls.  A line is one of the  *)
(* kinds that the code tells apart, a name is its class under the three     *)
(* name tests (lines 6540-6621).  What a prologue does when it runs is in   *)
(* SpaCode.  The module holds the automaton, and next to it the file that   *)
(* is being read: which lines may come next.                                *)
EXTENDS Naturals, FiniteSets

CONSTANTS
    Funcs,        \* labels without a leading dot
    Class,        \* the class of each: what the name tests answer
    LibcNamed,    \* labels that start with a name of the two tables of libraries
    Options,      \* command lines, environments, builds and files under test
    None          \* no label yet

Classes == {"ordinary", "main", "customized", "handler", "no_instr"}
Schemes == {"gs_rsp", "fs_gs", "shadesmar", "always"}
\* What a file may hold besides what compilers write.
Features == {"sections", "bare", "syntax", "inner", "unbalanced"}
\* Of the file: its features, the labels it may use, and a bound on .cfi_startproc and on
\* .cfi_endproc.
OptionType == [scheme : Schemes, pass_thru : BOOLEAN, use_64bit : BOOLEAN,
               clang_mode : BOOLEAN, with_64 : BOOLEAN, calls : BOOLEAN,
               be_quiet : BOOLEAN, full_ratio : BOOLEAN, list : SUBSET Funcs,
               features : SUBSET Features, labels : SUBSET Funcs, procs : Nat]

ASSUME ClassAssumption == Class \in [Funcs -> Classes]
ASSUME OptionAssumption == Options \subseteq OptionType
ASSUME NoneAssumption == None \notin Funcs
\* Every name of customized_libc_funcs starts with a name of libc_names
\* (for instance lines 1283, 2275, 894, 626).
ASSUME LibcAssumption == {f \in Funcs : Class[f] = "customized"} \subseteq LibcNamed

VARIABLES
    \* the automaton
    instr_ok, skip_csect, skip_intel, skip_app,        \* where the line is
    skip_next_label, instrument_next, ins_lines,       \* the comments kept from AFL
    start2end, n_start, n_end,                         \* functions
    in_main, is_main_exe,
    in_customized_func, in_no_instr_func, on_stack_handler,
    opt, pc,
    \* the file
    sec, cur, pending, inasm, seen,
    \* what has been written; only properties read these
    prologue, slotret, plainret, inner, inserted, printed, stored, called

modeVars == <<instr_ok, skip_csect, skip_intel, skip_app>>
noteVars == <<skip_next_label, instrument_next, ins_lines>>
procVars == <<start2end, n_start, n_end>>
nameVars == <<in_main, is_main_exe, in_customized_func, in_no_instr_func,
              on_stack_handler>>
fileVars == <<sec, cur, pending, inasm, seen>>
bodyVars == <<prologue, slotret, plainret, inner>>
outVars  == <<inserted, printed, stored, called>>
vars == <<modeVars, noteVars, procVars, nameVars, opt, pc, fileVars, bodyVars,
          outVars>>

\* A file without any is the output of a compiler.
Has(feature) == feature \in opt.features

Init ==
    /\ instr_ok = FALSE /\ skip_csect = FALSE
    /\ skip_intel = FALSE /\ skip_app = FALSE
    /\ skip_next_label = FALSE /\ instrument_next = FALSE /\ ins_lines = FALSE
    /\ start2end = FALSE /\ n_start = 0 /\ n_end = 0
    /\ in_main = FALSE /\ is_main_exe = FALSE
    /\ in_customized_func = FALSE /\ in_no_instr_func = FALSE
    /\ on_stack_handler = FALSE
    /\ opt \in Options /\ pc = "reading"
    \* a compiler names a section first; as starts in .text, the automaton does not
    /\ sec \in (IF Has("sections") THEN {"text", "other"} ELSE {"other"})
    /\ cur = None /\ pending = FALSE /\ inasm = FALSE /\ seen = {}
    /\ prologue = "plain" /\ slotret = FALSE /\ plainret = FALSE /\ inner = FALSE
    /\ inserted = {} /\ printed = {} /\ stored = {} /\ called = {}

-----------------------------------------------------------------------------
(* Tests that several stages share.                                         *)

\* The stages for calls, for the deferred comment and for labels want all four.
ReadsCode == instr_ok /\ ~skip_csect /\ ~skip_intel /\ ~skip_app

\* The prologue asks for these two only, the epilogue also for the two skips.
Inserts == ~opt.pass_thru /\ opt.use_64bit
ReplacesRetBlind == opt.use_64bit /\ start2end
ReplacesRet == Inserts /\ ~skip_intel /\ ~skip_app /\ start2end

RewritesCalls ==
    /\ opt.calls /\ opt.scheme \in {"gs_rsp", "fs_gs"}
    /\ Inserts /\ ReadsCode /\ start2end /\ opt.with_64

\* R(100) < inst_ratio
Chosen == IF opt.full_ratio THEN {TRUE} ELSE BOOLEAN

\* Code has been inserted here.
Mark == inserted' = inserted \cup {[sec |-> sec, off |-> skip_intel \/ skip_csect]}

\* What the prologue stage writes; the schemes without exceptions are "always".
SchemePrologue(scheme, handler, customized, no_instr) ==
    IF scheme = "always" THEN "store"
    ELSE IF no_instr THEN "plain"
    ELSE IF scheme # "shadesmar" /\ handler THEN "count"
    ELSE IF customized THEN "init"
    ELSE IF scheme = "shadesmar" THEN "plain"
    ELSE "store"

\* Whether the epilogue stage writes a jump through the copy.
SchemeReturnsMalloc(scheme, handler, customized, no_instr) ==
    scheme = "always" \/ (scheme # "shadesmar" /\ ~handler /\ ~no_instr)
SchemeReturns(scheme, handler, customized, no_instr) ==
    \/ scheme = "always"
    \/ scheme # "shadesmar" /\ ~handler /\ ~customized /\ ~no_instr

\* A line of code: the deferred comment is written in front of it.
Deferred ==
    IF ~opt.pass_thru /\ ReadsCode /\ instrument_next
    THEN instrument_next' = FALSE /\ ins_lines' = TRUE
    ELSE UNCHANGED <<instrument_next, ins_lines>>

\* Where the file may have code.
CodeHere == pc = "reading" /\ (sec = "text" \/ Has("sections"))
            /\ (start2end \/ (pending /\ Has("bare")))

-----------------------------------------------------------------------------
(* One action for each kind of line.                                        *)

\* "\t.cfi_startproc\n".  The label came before.
StartProc ==
    /\ pc = "reading" /\ ~inasm /\ n_start < opt.procs
    /\ pending \/ Has("unbalanced")
    /\ start2end => Has("unbalanced")
    /\ start2end' = TRUE /\ n_start' = n_start + 1
    /\ pending' = FALSE
    /\ prologue' = IF Inserts
                   THEN SchemePrologue(opt.scheme, on_stack_handler,
                                       in_customized_func, in_no_instr_func)
                   ELSE "plain"
    /\ slotret' = FALSE /\ plainret' = FALSE /\ inner' = FALSE
    /\ stored' = IF prologue' = "store" THEN stored \cup {cur} ELSE stored
    /\ IF prologue' # "plain" THEN Mark ELSE UNCHANGED inserted
    /\ UNCHANGED <<modeVars, noteVars, n_end, nameVars, opt, pc, sec, cur, inasm,
                   seen, printed, called>>

\* "\t.cfi_endproc\n"
EndProcTwice ==
    /\ pc = "reading" /\ ~inasm /\ n_end < opt.procs
    /\ sec = "text" \/ Has("sections")
    /\ start2end \/ Has("unbalanced")
    /\ start2end' = FALSE /\ n_end' = n_end + 2
    /\ UNCHANGED <<modeVars, noteVars, n_start, nameVars, opt, pc, fileVars,
                   bodyVars, outVars>>
EndProc ==
    /\ pc = "reading" /\ ~inasm /\ n_end < opt.procs
    /\ sec = "text" \/ Has("sections")
    /\ start2end \/ Has("unbalanced")
    /\ start2end' = FALSE /\ n_end' = n_end + 1
    /\ UNCHANGED <<modeVars, noteVars, n_start, nameVars, opt, pc, fileVars,
                   bodyVars, outVars>>

\* "\tcallq\t*...": the address is compared with the first bytes of a prologue
\* when the call runs; the rewritten call passes over the prologue if they agree.
IndirectCall ==
    /\ CodeHere
    /\ Deferred
    /\ IF RewritesCalls THEN Mark ELSE UNCHANGED inserted
    /\ UNCHANGED <<modeVars, skip_next_label, procVars, nameVars, opt, pc, fileVars,
                   bodyVars, printed, stored, called>>

\* Without the test for names of libraries.
DirectCallUntested(f, plt) ==
    /\ CodeHere /\ f \in opt.labels
    /\ Class[f] \notin {"handler", "no_instr"}
    /\ Deferred
    /\ IF RewritesCalls /\ ~plt /\ f \in opt.list
       THEN Mark /\ called' = called \cup {f}
       ELSE UNCHANGED <<inserted, called>>
    /\ UNCHANGED <<modeVars, skip_next_label, procVars, nameVars, opt, pc, fileVars,
                   bodyVars, printed, stored>>

\* "\tcallq\tf", with or without @PLT.  Names of libraries are kept, names of
\* the list are called behind their prologue, others are kept.  Handlers are
\* called by the kernel only, and no function has the one name of no_instr_funcs.
DirectCall(f, plt) ==
    /\ CodeHere /\ f \in opt.labels
    /\ Class[f] \notin {"handler", "no_instr"}
    /\ Deferred
    /\ IF RewritesCalls /\ ~plt /\ f \notin LibcNamed /\ f \in opt.list
       THEN Mark /\ called' = called \cup {f}
       ELSE UNCHANGED <<inserted, called>>
    /\ UNCHANGED <<modeVars, skip_next_label, procVars, nameVars, opt, pc, fileVars,
                   bodyVars, printed, stored>>

\* "\tret\n" or "\tretq\n"
Ret ==
    /\ CodeHere
    /\ Deferred
    /\ IF ReplacesRet /\ SchemeReturns(opt.scheme, on_stack_handler,
                                       in_customized_func, in_no_instr_func)
       THEN slotret' = TRUE /\ Mark /\ UNCHANGED plainret
       ELSE /\ plainret' = (plainret \/ (start2end /\ ~inasm))
            /\ UNCHANGED <<slotret, inserted>>
    /\ UNCHANGED <<modeVars, skip_next_label, procVars, nameVars, opt, pc, fileVars,
                   prologue, inner, printed, stored, called>>

\* Any other instruction.
Instruction ==
    /\ CodeHere
    /\ Deferred
    /\ UNCHANGED <<modeVars, skip_next_label, procVars, nameVars, opt, pc, fileVars,
                   bodyVars, outVars>>

\* "\tj..." but not jmp: a comment behind the jump.
ConditionalJump ==
    /\ CodeHere
    /\ \E hit \in Chosen :
          IF ~opt.pass_thru /\ ReadsCode
          THEN /\ instrument_next' = FALSE
               /\ ins_lines' = (ins_lines \/ instrument_next \/ hit)
          ELSE UNCHANGED <<instrument_next, ins_lines>>
    /\ UNCHANGED <<modeVars, skip_next_label, procVars, nameVars, opt, pc, fileVars,
                   bodyVars, outVars>>

\* As if every .section were left until the next .text.
SectionSticky(s) ==
    /\ pc = "reading" /\ (inasm => Has("sections"))
    /\ sec' = s
    /\ instr_ok' = (s = "text" /\ ~start2end /\ ~opt.pass_thru)
    /\ UNCHANGED <<skip_csect, skip_intel, skip_app, noteVars, procVars, nameVars, opt,
                   pc, cur, pending, inasm, seen, bodyVars, outVars>>

\* "\t.text", "\t.section ...", "\t.data", "\t.bss".  Compilers leave .text inside
\* a function for a table of jumps and come back.
Section(s) ==
    /\ pc = "reading" /\ (inasm => Has("sections"))
    /\ sec' = s
    /\ instr_ok' = IF opt.pass_thru THEN instr_ok ELSE s = "text"
    /\ UNCHANGED <<skip_csect, skip_intel, skip_app, noteVars, procVars, nameVars, opt,
                   pc, cur, pending, inasm, seen, bodyVars, outVars>>

\* "\t.previous", "\t.popsection": no stage looks at them.
Previous(s) ==
    /\ pc = "reading" /\ Has("sections")
    /\ sec' = s
    /\ UNCHANGED <<modeVars, noteVars, procVars, nameVars, opt, pc, cur, pending,
                   inasm, seen, bodyVars, outVars>>

\* "\t.p2align <digit>\n": with gcc the mark of a table of jumps
Align ==
    /\ pc = "reading"
    /\ skip_next_label' = (skip_next_label
                            \/ (~opt.pass_thru /\ ~opt.clang_mode /\ instr_ok))
    /\ UNCHANGED <<modeVars, instrument_next, ins_lines, procVars, nameVars, opt, pc,
                   fileVars, bodyVars, outVars>>

\* ".code32", ".code64"
Width(bits) ==
    /\ pc = "reading" /\ Has("syntax")
    /\ skip_csect' = IF opt.pass_thru THEN skip_csect
                     ELSE (bits = 32) = opt.use_64bit
    /\ UNCHANGED <<instr_ok, skip_intel, skip_app, noteVars, procVars, nameVars, opt, pc,
                   fileVars, bodyVars, outVars>>

\* ".intel_syntax", ".att_syntax"
Syntax(intel) ==
    /\ pc = "reading" /\ Has("syntax")
    /\ skip_intel' = IF opt.pass_thru THEN skip_intel ELSE intel
    /\ UNCHANGED <<instr_ok, skip_csect, skip_app, noteVars, procVars, nameVars, opt, pc,
                   fileVars, bodyVars, outVars>>

\* As if "#NO_APP" also were read as "#APP".
AppSticky(on) ==
    /\ pc = "reading" /\ start2end /\ inasm # on
    /\ inasm' = on
    /\ skip_app' = (skip_app \/ ~opt.pass_thru)
    /\ UNCHANGED <<instr_ok, skip_csect, skip_intel, noteVars, procVars, nameVars, opt,
                   pc, sec, cur, pending, seen, bodyVars, outVars>>

\* "#APP", "#NO_APP" around the text of an asm statement
App(on) ==
    /\ pc = "reading" /\ start2end /\ inasm # on
    /\ inasm' = on
    /\ skip_app' = IF opt.pass_thru THEN skip_app ELSE on
    /\ UNCHANGED <<instr_ok, skip_csect, skip_intel, noteVars, procVars, nameVars, opt,
                   pc, sec, cur, pending, seen, bodyVars, outVars>>

\* ".L<digit>", ".LBB" (clang), or another label with a leading dot
LocalLabel(kind) ==
    /\ pc = "reading"
    /\ IF /\ ~opt.pass_thru /\ ReadsCode
          /\ kind = "number" \/ (kind = "lbb" /\ opt.clang_mode)
       THEN \E hit \in Chosen :
               IF hit THEN /\ skip_next_label' = FALSE
                           /\ instrument_next' = (instrument_next \/ ~skip_next_label)
                      ELSE UNCHANGED <<skip_next_label, instrument_next>>
       ELSE UNCHANGED <<skip_next_label, instrument_next>>
    /\ UNCHANGED <<modeVars, ins_lines, procVars, nameVars, opt, pc, fileVars, bodyVars,
                   outVars>>

\* A label without a leading dot.  Outside of a function it names the next one;
\* inside one it clears what the flags say of the function.
Label(f) ==
    /\ pc = "reading" /\ ~inasm /\ f \in opt.labels /\ f \notin seen
    /\ sec = "text" \/ Has("sections")
    /\ start2end => Has("inner")
    /\ pending => Has("bare")
    /\ seen' = seen \cup {f}
    /\ cur' = IF start2end THEN cur ELSE f
    /\ pending' = (pending \/ ~start2end)
    /\ IF ~opt.pass_thru /\ ReadsCode
       THEN /\ instrument_next' = TRUE
            /\ in_main' = (Class[f] = "main" /\ ~start2end)
            /\ is_main_exe' = (is_main_exe \/ in_main')
            /\ printed' = IF start2end THEN printed ELSE printed \cup {f}
            /\ in_customized_func' = (Class[f] = "customized" /\ ~start2end)
            /\ in_no_instr_func' = (Class[f] = "no_instr" /\ ~start2end)
            /\ on_stack_handler' = (Class[f] = "handler" /\ ~start2end)
            /\ inner' = (inner \/ start2end)
       ELSE UNCHANGED <<instrument_next, nameVars, printed, inner>>
    /\ UNCHANGED <<modeVars, skip_next_label, ins_lines, procVars, opt, pc, sec, inasm,
                   prologue, slotret, plainret, inserted, stored, called>>

\* The end of the file: the two counts are compared unless the build is quiet.
EndOfFile ==
    /\ pc = "reading" /\ ~inasm
    /\ start2end => Has("unbalanced")
    /\ pending => Has("bare")
    /\ pc' = IF ~opt.be_quiet /\ ~opt.pass_thru /\ n_start # n_end
             THEN "fatal" ELSE "done"
    /\ UNCHANGED <<modeVars, noteVars, procVars, nameVars, opt, fileVars, bodyVars,
                   outVars>>

Next ==
    \/ StartProc \/ EndProc
    \/ IndirectCall \/ Ret \/ Instruction \/ ConditionalJump
    \/ \E f \in Funcs, plt \in BOOLEAN : DirectCall(f, plt)
    \/ \E s \in {"text", "other"} : Section(s) \/ Previous(s)
    \/ Align
    \/ \E bits \in {32, 64} : Width(bits)
    \/ \E on \in BOOLEAN : Syntax(on) \/ App(on)
    \/ \E kind \in {"number", "lbb", "other"} : LocalLabel(kind)
    \/ \E f \in Funcs : Label(f)
    \/ EndOfFile

Spec == Init /\ [][Next]_vars

-----------------------------------------------------------------------------
(* Properties.                                                              *)

TypeOK ==
    /\ instr_ok \in BOOLEAN /\ skip_csect \in BOOLEAN
    /\ skip_intel \in BOOLEAN /\ skip_app \in BOOLEAN
    /\ skip_next_label \in BOOLEAN /\ instrument_next \in BOOLEAN
    /\ ins_lines \in BOOLEAN /\ start2end \in BOOLEAN
    /\ in_main \in BOOLEAN /\ is_main_exe \in BOOLEAN
    /\ in_customized_func \in BOOLEAN /\ in_no_instr_func \in BOOLEAN
    /\ on_stack_handler \in BOOLEAN
    /\ pending \in BOOLEAN /\ inasm \in BOOLEAN
    /\ slotret \in BOOLEAN /\ plainret \in BOOLEAN /\ inner \in BOOLEAN
    /\ n_start \in 0..opt.procs /\ n_end \in 0..opt.procs
    /\ opt \in Options
    /\ pc \in {"reading", "done", "fatal"}
    /\ sec \in {"text", "other"}
    /\ cur \in Funcs \cup {None} /\ seen \subseteq Funcs
    /\ prologue \in {"plain", "store", "init", "count"}
    /\ inserted \subseteq [sec : {"text", "other"}, off : BOOLEAN]
    /\ printed \subseteq Funcs /\ stored \subseteq Funcs \cup {None}
    /\ called \subseteq Funcs

\* The prologue that a function's own name calls for.
Wanted(f) == SchemePrologue(opt.scheme, Class[f] = "handler",
                            Class[f] = "customized", Class[f] = "no_instr")

\* A jump through the copy is only written into a function whose prologue makes
\* the copy, whatever the file holds; a label inside the function, which clears
\* the flags between the two, is the one exception (lines 7007-7258, 7481-7653
\* and 7821-7868).
ReturnsThroughOwnCopy == slotret => prologue = "store" \/ inner

\* In the output of a compiler no return of a function that makes the copy is left
\* as it was: neither sections, nor asm statements, nor names change the flags
\* between .cfi_startproc and ret.
NoUncopiedReturn == plainret => prologue # "store"

\* In the output of a compiler each function gets the prologue of its own name: the
\* flags set at its label are neither those of the function before it nor lost
\* (lines 7821-7868, used at 7045-7095).
OwnPrologue == start2end => prologue = IF Inserts THEN Wanted(cur) ELSE "plain"

\* The names printed for the list of protected functions (line 7836) hold every
\* function that makes a copy, and of the others only those that lines 6540-6621
\* name.
NamesComplete == pc = "done" /\ Inserts =>
    /\ stored \subseteq printed
    /\ {f \in printed : Wanted(f) = "store"} \subseteq stored

\* A direct call passes over the prologue of functions that make a copy only: the
\* prologue of malloc and its relatives, which starts the run time, is never
\* passed over although the list holds their names (lines 7322-7371).
SkipsOnlyCopies == called \subseteq {f \in Funcs : Wanted(f) = "store"}

\* With pass_thru nothing is added and nothing printed, in a 32-bit file no code
\* is added.
InsertsOnlyWhenAsked ==
    /\ opt.pass_thru => inserted = {} /\ ~ins_lines /\ printed = {}
    /\ ~opt.use_64bit => inserted = {}

\* The output of a compiler is never refused at line 7963.
NeverRefused == pc # "fatal"

\* A file that a compiler wrote is instrumented without a gap: every function by its own
\* name, every return of one that copies, and the list is true
\* (lines 6872-7980).
CompilerFileComplete ==
    /\ TypeOK
    /\ opt.features = {} =>
          /\ NoUncopiedReturn /\ OwnPrologue /\ NamesComplete /\ SkipsOnlyCopies
          /\ NeverRefused

=============================================================================
