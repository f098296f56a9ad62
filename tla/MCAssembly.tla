----------------------------- MODULE MCAssembly -----------------------------
(* The instrumenter, on a file that may hold anything and on the output of a  *)
(* compiler, and the code that it inserts.  A run is about one of the two.    *)
EXTENDS SpaAs

CONSTANTS HandFuncs, HandProcs, CompilerProcs, Builds, Size, User, Masks, Rets, MaxMoves

VARIABLES part, build, at, i, reg, mem, gs, area, entry, target, fault, hit, moves, linked

ClassOf(f) ==
    CASE f = "malloc" -> "customized" [] f = "trap" -> "handler"
      [] f = "holder" -> "no_instr" [] f = "main" -> "main" [] OTHER -> "ordinary"
MCClass == [f \in Funcs |-> ClassOf(f)]
MCLibcNamed == {"malloc"}

Base(labels, features, procs) ==
    [scheme |-> "gs_rsp", pass_thru |-> FALSE, use_64bit |-> TRUE,
     clang_mode |-> FALSE, with_64 |-> TRUE, calls |-> TRUE, be_quiet |-> FALSE,
     full_ratio |-> TRUE, list |-> labels,
     features |-> features, labels |-> labels, procs |-> procs]

\* Any file in the default build without rewritten calls, asked to insert code or not.
HandOptions ==
    LET base == [Base(HandFuncs, Features, HandProcs) EXCEPT !.calls = FALSE]
    IN  {base, [base EXCEPT !.pass_thru = TRUE], [base EXCEPT !.use_64bit = FALSE]}

\* The output of a compiler in every build, with and without rewritten calls.
CompilerOptions ==
    LET base == Base(Funcs, {}, CompilerProcs)
    IN  {[base EXCEPT !.scheme = s] : s \in Schemes}
        \cup {[base EXCEPT !.calls = FALSE, !.clang_mode = TRUE, !.full_ratio = FALSE],
              [base EXCEPT !.with_64 = FALSE]}
MCOptions == HandOptions \cup CompilerOptions

Code == INSTANCE SpaCode

ASSUME CodeAssumption ==
    Code!BuildAssumption /\ Code!SizeAssumption /\ Code!WordAssumption

codevars == <<build, at, i, reg, mem, gs, area, entry, target, fault, hit, moves, linked>>
allvars == <<part, vars, codevars>>

InitAll ==
    /\ part \in {"file", "code"}
    /\ Init /\ (part = "file" \/ opt = Base(Funcs, {}, CompilerProcs))
    /\ IF part = "code" THEN Code!Init
       ELSE /\ build = "none" /\ at = "none" /\ i = 0 /\ reg = 0 /\ mem = 0 /\ gs = 0
            /\ area = 0 /\ entry = 0 /\ target = 0 /\ fault = FALSE /\ hit = FALSE
            /\ moves = 0 /\ linked = FALSE

Read == part = "file" /\ Next /\ UNCHANGED <<part, codevars>>
RunCode == part = "code" /\ Code!Next /\ UNCHANGED <<part, vars>>

SpecAll == InitAll /\ [][Read \/ RunCode]_allvars

-----------------------------------------------------------------------------
\* The inserted code brings every call home in every build (afl-as.c 7011-7256, 7486-7651).
CodeIsSound == part = "code" => Code!CodeIsSound
=============================================================================
