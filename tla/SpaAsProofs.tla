---------------------------- MODULE SpaAsProofs ----------------------------
(* Theorems about SpaAs for every set of labels, every class of them, every *)
(* option and every bound: what holds of any file, and what holds of the    *)
(* output of a compiler, which has none of the features.  And about SpaCode *)
(* for every build, size, mask and return address: a call through the       *)
(* inserted code comes home.                                                *)
EXTENDS MCAssembly, Integers, Sequences, TLAPS


\* Until a label inside the function clears them, the flags are those that the
\* prologue was chosen by.
CopyInv ==
    /\ slotret => prologue = "store" \/ inner
    /\ start2end /\ Inserts /\ ~inner =>
          prologue = SchemePrologue(opt.scheme, on_stack_handler,
                                    in_customized_func, in_no_instr_func)

\* The flags are those of f.
FlagsOf(f) ==
    /\ in_customized_func <=> Class[f] = "customized"
    /\ in_no_instr_func <=> Class[f] = "no_instr"
    /\ on_stack_handler <=> Class[f] = "handler"

\* In the output of a compiler the automaton knows where it is.
PlaceInv ==
    /\ ~skip_csect /\ ~skip_intel /\ ~inner
    /\ ~opt.pass_thru => /\ (instr_ok <=> sec = "text")
                         /\ (skip_app <=> inasm)
    /\ inasm => start2end
    /\ pending => ~start2end
    /\ pending \/ start2end => /\ cur \in Funcs
                               /\ Inserts => FlagsOf(cur) /\ cur \in printed

\* What has been written follows from the names.
WrittenInv ==
    /\ OwnPrologue
    /\ NoUncopiedReturn
    /\ SkipsOnlyCopies
    /\ Inserts => /\ stored \subseteq printed
                  /\ \A f \in printed : Wanted(f) = "store"
                                        => f \in stored \/ (pending /\ f = cur)

\* Every .cfi_startproc but that of an open function has its .cfi_endproc.
CountInv ==
    /\ n_start = n_end + (IF start2end THEN 1 ELSE 0)
    /\ NeverRefused

CompilerInv == TypeOK /\ PlaceInv /\ WrittenInv /\ CountInv
-----------------------------------------------------------------------------

LEMMA BoundIsNat == opt \in Options => opt.procs \in Nat
BY OptionAssumption DEF OptionType

LEMMA TypeInit == Init => TypeOK
<1> SUFFICES ASSUME Init PROVE TypeOK
    OBVIOUS
<1>1. n_start \in 0..opt.procs /\ n_end \in 0..opt.procs
    BY BoundIsNat DEF Init
<1>2. sec \in {"text", "other"}
    BY DEF Init
<1>3. /\ inserted \subseteq [sec : {"text", "other"}, off : BOOLEAN]
      /\ printed \subseteq Funcs /\ stored \subseteq Funcs \cup {None}
      /\ called \subseteq Funcs /\ seen \subseteq Funcs
      /\ cur \in Funcs \cup {None}
    BY DEF Init
<1> QED
    BY <1>1, <1>2, <1>3 DEF Init, TypeOK

LEMMA TypeNext == TypeOK /\ [Next]_vars => TypeOK'
<1> SUFFICES ASSUME TypeOK, [Next]_vars PROVE TypeOK'
    OBVIOUS
<1> USE DEF modeVars, noteVars, procVars, nameVars, fileVars, bodyVars, outVars
<1>a. ASSUME Deferred PROVE (instrument_next \in BOOLEAN /\ ins_lines \in BOOLEAN)'
    BY <1>a DEF Deferred, TypeOK
<1>b. ASSUME Mark PROVE (inserted \subseteq [sec : {"text", "other"}, off : BOOLEAN])'
    BY <1>b DEF Mark, TypeOK
<1>1. CASE StartProc
    <2>1. (inserted \subseteq [sec : {"text", "other"}, off : BOOLEAN])'
        BY <1>1, <1>b DEF StartProc, TypeOK
    <2>2. prologue' \in {"plain", "store", "init", "count"}
        BY <1>1 DEF StartProc, SchemePrologue
    <2>3. n_start' \in 0..opt.procs
        BY <1>1, BoundIsNat DEF StartProc, TypeOK
    <2>4. stored' \subseteq Funcs \cup {None}
        BY <1>1 DEF StartProc, TypeOK
    <2>5. /\ start2end' \in BOOLEAN /\ pending' \in BOOLEAN /\ slotret' \in BOOLEAN
          /\ plainret' \in BOOLEAN /\ inner' \in BOOLEAN
        BY <1>1 DEF StartProc
    <2>6. UNCHANGED <<modeVars, noteVars, n_end, nameVars, opt, pc, sec, cur, inasm,
                      seen, printed, called>>
        BY <1>1 DEF StartProc
    <2> QED
        BY <2>1, <2>2, <2>3, <2>4, <2>5, <2>6 DEF TypeOK
<1>2. CASE EndProc
    <2>1. n_end' \in 0..opt.procs
        BY <1>2, BoundIsNat DEF EndProc, TypeOK
    <2>2. start2end' \in BOOLEAN
        BY <1>2 DEF EndProc
    <2>3. UNCHANGED <<modeVars, noteVars, n_start, nameVars, opt, pc, fileVars,
                      bodyVars, outVars>>
        BY <1>2 DEF EndProc
    <2> QED
        BY <2>1, <2>2, <2>3 DEF TypeOK
<1>3. CASE IndirectCall \/ Instruction
    BY <1>3, <1>a, <1>b DEF IndirectCall, Instruction, TypeOK
<1>4. CASE \E f \in Funcs, plt \in BOOLEAN : DirectCall(f, plt)
    BY <1>4, <1>a, <1>b DEF DirectCall, TypeOK
<1>5. CASE Ret
    <2>1. slotret' \in BOOLEAN /\ plainret' \in BOOLEAN
        BY <1>5 DEF Ret, TypeOK
    <2> QED
        BY <1>5, <1>a, <1>b, <2>1 DEF Ret, TypeOK
<1>6. CASE ConditionalJump
    <2>1. instrument_next' \in BOOLEAN /\ ins_lines' \in BOOLEAN
        BY <1>6 DEF ConditionalJump, TypeOK
    <2> QED
        BY <1>6, <2>1 DEF ConditionalJump, TypeOK
<1>7. CASE \E s \in {"text", "other"} : Section(s) \/ Previous(s)
    <2>1. sec' \in {"text", "other"} /\ instr_ok' \in BOOLEAN
        BY <1>7 DEF Section, Previous, TypeOK
    <2>2. UNCHANGED <<skip_csect, skip_intel, skip_app, noteVars, procVars, nameVars,
                      opt, pc, cur, pending, inasm, seen, bodyVars, outVars>>
        BY <1>7 DEF Section, Previous
    <2> QED
        BY <2>1, <2>2 DEF TypeOK
<1>8. CASE Align
    <2>1. skip_next_label' \in BOOLEAN
        BY <1>8 DEF Align
    <2> QED
        BY <1>8, <2>1 DEF Align, TypeOK
<1>9. CASE \E bits \in {32, 64} : Width(bits)
    <2>1. skip_csect' \in BOOLEAN
        BY <1>9 DEF Width, TypeOK
    <2> QED
        BY <1>9, <2>1 DEF Width, TypeOK
<1>10. CASE \E on \in BOOLEAN : Syntax(on) \/ App(on)
    BY <1>10 DEF Syntax, App, TypeOK
<1>11. CASE \E kind \in {"number", "lbb", "other"} : LocalLabel(kind)
    <2>1. skip_next_label' \in BOOLEAN /\ instrument_next' \in BOOLEAN
        BY <1>11 DEF LocalLabel, TypeOK
    <2> QED
        BY <1>11, <2>1 DEF LocalLabel, TypeOK
<1>12. CASE \E f \in Funcs : Label(f)
    <2>1. PICK f \in Funcs : Label(f)
        BY <1>12
    <2>2. pending' \in BOOLEAN /\ seen' \subseteq Funcs
          /\ cur' \in Funcs \cup {None}
        BY <2>1 DEF Label, TypeOK
    <2>3. /\ in_main' \in BOOLEAN /\ is_main_exe' \in BOOLEAN
          /\ in_customized_func' \in BOOLEAN /\ in_no_instr_func' \in BOOLEAN
          /\ on_stack_handler' \in BOOLEAN /\ inner' \in BOOLEAN
          /\ instrument_next' \in BOOLEAN /\ printed' \subseteq Funcs
        <3>1. CASE ~opt.pass_thru /\ ReadsCode
            BY <2>1, <3>1 DEF Label, TypeOK
        <3>2. CASE ~(~opt.pass_thru /\ ReadsCode)
            BY <2>1, <3>2 DEF Label, TypeOK
        <3> QED
            BY <3>1, <3>2
    <2> QED
        BY <2>1, <2>2, <2>3 DEF Label, TypeOK
<1>13. CASE EndOfFile
    <2>1. pc' \in {"reading", "done", "fatal"}
        BY <1>13 DEF EndOfFile
    <2> QED
        BY <1>13, <2>1 DEF EndOfFile, TypeOK
<1>14. CASE UNCHANGED vars
    BY <1>14 DEF vars, TypeOK
<1> QED
    BY <1>1, <1>2, <1>3, <1>4, <1>5, <1>6, <1>7, <1>8, <1>9, <1>10, <1>11, <1>12,
       <1>13, <1>14 DEF Next

LEMMA CopyInit == Init => CopyInv
BY DEF Init, CopyInv

LEMMA CopyNext == CopyInv /\ [Next]_vars => CopyInv'
<1> SUFFICES ASSUME CopyInv, [Next]_vars PROVE CopyInv'
    OBVIOUS
<1> USE DEF CopyInv, Inserts
<1>1. CASE StartProc
    BY <1>1 DEF StartProc, nameVars
<1>2. CASE EndProc
    BY <1>2 DEF EndProc, nameVars, bodyVars
<1>3. CASE IndirectCall \/ Instruction \/ ConditionalJump \/ Align \/ EndOfFile
    BY <1>3 DEF IndirectCall, Instruction, ConditionalJump, Align, EndOfFile,
                nameVars, bodyVars, procVars
<1>4. CASE \E f \in Funcs, plt \in BOOLEAN : DirectCall(f, plt)
    BY <1>4 DEF DirectCall, nameVars, bodyVars, procVars
<1>5. CASE Ret
    <2>1. UNCHANGED <<start2end, prologue, inner, opt, nameVars>>
        BY <1>5 DEF Ret, nameVars, procVars
    <2>2. CASE slotret' = slotret
        BY <2>1, <2>2 DEF nameVars
    <2>3. CASE /\ ReplacesRet
               /\ SchemeReturns(opt.scheme, on_stack_handler,
                                in_customized_func, in_no_instr_func)
        BY <2>1, <2>3 DEF nameVars, ReplacesRet, SchemeReturns, SchemePrologue
    <2> QED
        BY <1>5, <2>2, <2>3 DEF Ret
<1>6. CASE \E s \in {"text", "other"} : Section(s) \/ Previous(s)
    BY <1>6 DEF Section, Previous, nameVars, bodyVars, procVars
<1>7. CASE \E bits \in {32, 64} : Width(bits)
    BY <1>7 DEF Width, nameVars, bodyVars, procVars
<1>8. CASE \E on \in BOOLEAN : Syntax(on) \/ App(on)
    BY <1>8 DEF Syntax, App, nameVars, bodyVars, procVars
<1>9. CASE \E kind \in {"number", "lbb", "other"} : LocalLabel(kind)
    BY <1>9 DEF LocalLabel, nameVars, bodyVars, procVars
<1>10. CASE \E f \in Funcs : Label(f)
    <2>1. UNCHANGED <<start2end, prologue, slotret, opt>>
        BY <1>10 DEF Label, procVars
    <2>2. CASE start2end /\ ~opt.pass_thru /\ ReadsCode
        <3>1. inner'
            BY <1>10, <2>2 DEF Label
        <3> QED
            BY <2>1, <3>1
    <2>3. CASE ~(~opt.pass_thru /\ ReadsCode)
        <3>1. UNCHANGED <<nameVars, inner>>
            BY <1>10, <2>3 DEF Label
        <3> QED
            BY <2>1, <3>1 DEF nameVars
    <2>4. CASE ~start2end /\ ~opt.pass_thru /\ ReadsCode
        <3>1. inner' <=> inner
            BY <1>10, <2>4 DEF Label
        <3> QED
            BY <2>1, <2>4, <3>1
    <2> QED
        BY <2>2, <2>3, <2>4
<1>11. CASE UNCHANGED vars
    BY <1>11 DEF vars, nameVars, bodyVars, procVars
<1> QED
    BY <1>1, <1>2, <1>3, <1>4, <1>5, <1>6, <1>7, <1>8, <1>9, <1>10, <1>11 DEF Next

\* Whatever the file holds, a function returns through a copy that its own prologue
\* has made, or a label inside it has made the instrumenter forget what it is
\* (afl-as.c 7007-7258, 7481-7653).
THEOREM CopiesMatch == Spec => []ReturnsThroughOwnCopy
<1>1. CopyInv => ReturnsThroughOwnCopy
    BY DEF CopyInv, ReturnsThroughOwnCopy
<1> QED
    BY CopyInit, CopyNext, <1>1, PTL DEF Spec
-----------------------------------------------------------------------------

LEMMA AskedInit == Init => InsertsOnlyWhenAsked
BY DEF Init, InsertsOnlyWhenAsked

LEMMA AskedNext == InsertsOnlyWhenAsked /\ [Next]_vars => InsertsOnlyWhenAsked'
<1> SUFFICES ASSUME InsertsOnlyWhenAsked, [Next]_vars PROVE InsertsOnlyWhenAsked'
    OBVIOUS
<1> USE DEF InsertsOnlyWhenAsked, noteVars, outVars
<1>a. ASSUME Deferred PROVE opt.pass_thru /\ ~ins_lines => ~ins_lines'
    BY <1>a DEF Deferred
<1>1. CASE StartProc
    BY <1>1 DEF StartProc, Inserts
<1>2. CASE EndProc \/ Align \/ EndOfFile
    BY <1>2 DEF EndProc, Align, EndOfFile
<1>3. CASE IndirectCall \/ Instruction
    BY <1>3, <1>a DEF IndirectCall, Instruction, RewritesCalls, Inserts
<1>4. CASE \E f \in Funcs, plt \in BOOLEAN : DirectCall(f, plt)
    BY <1>4, <1>a DEF DirectCall, RewritesCalls, Inserts
<1>5. CASE Ret
    BY <1>5, <1>a DEF Ret, ReplacesRet, Inserts
<1>6. CASE ConditionalJump
    BY <1>6 DEF ConditionalJump
<1>7. CASE \E s \in {"text", "other"} : Section(s) \/ Previous(s)
    BY <1>7 DEF Section, Previous
<1>8. CASE \E bits \in {32, 64} : Width(bits)
    BY <1>8 DEF Width
<1>9. CASE \E on \in BOOLEAN : Syntax(on) \/ App(on)
    BY <1>9 DEF Syntax, App
<1>10. CASE \E kind \in {"number", "lbb", "other"} : LocalLabel(kind)
    BY <1>10 DEF LocalLabel
<1>11. CASE \E f \in Funcs : Label(f)
    BY <1>11 DEF Label
<1>12. CASE UNCHANGED vars
    BY <1>12 DEF vars
<1> QED
    BY <1>1, <1>2, <1>3, <1>4, <1>5, <1>6, <1>7, <1>8, <1>9, <1>10, <1>11, <1>12
       DEF Next

\* A file that is only passed on gets nothing, a 32-bit file gets no code (the tests
\* of pass_thru and use_64bit at lines 6948, 7011, 7264, 7273, 7481, 7659).
THEOREM AddsOnlyWhenAsked == Spec => []InsertsOnlyWhenAsked
BY AskedInit, AskedNext, PTL DEF Spec

-----------------------------------------------------------------------------

LEMMA CompilerInit == opt.features = {} /\ Init => CompilerInv
BY TypeInit DEF Init, CompilerInv, PlaceInv, WrittenInv, CountInv, OwnPrologue,
                NoUncopiedReturn, SkipsOnlyCopies, NeverRefused, Has

\* A step that leaves the functions, their flags and the place alone.
LEMMA CompilerFrame ==
    ASSUME PlaceInv, WrittenInv, CountInv,
           UNCHANGED <<modeVars, procVars, nameVars, opt, pc, sec, cur, pending, inasm,
                       prologue, inner, printed, stored>>,
           called' = called, plainret' = plainret
    PROVE  PlaceInv' /\ WrittenInv' /\ CountInv'
BY DEF PlaceInv, WrittenInv, CountInv, OwnPrologue, NoUncopiedReturn, SkipsOnlyCopies,
       NeverRefused, FlagsOf, Wanted, Inserts, modeVars, procVars, nameVars

LEMMA CompilerNext ==
    opt.features = {} /\ CompilerInv /\ [Next]_vars => CompilerInv'
<1> SUFFICES ASSUME opt.features = {}, CompilerInv, [Next]_vars
             PROVE  PlaceInv' /\ WrittenInv' /\ CountInv'
    BY TypeNext DEF CompilerInv
<1> USE DEF CompilerInv, Has
<1>1. CASE StartProc
    <2>1. pending /\ cur \in Funcs /\ ~start2end
        BY <1>1 DEF StartProc, PlaceInv
    <2>2. prologue' = IF Inserts THEN Wanted(cur) ELSE "plain"
        BY <1>1, <2>1 DEF StartProc, PlaceInv, FlagsOf, Wanted, SchemePrologue
    <2>3. UNCHANGED <<modeVars, nameVars, opt, pc, sec, cur, inasm, printed, called,
                      n_end>>
        BY <1>1 DEF StartProc
    <2>4. start2end' /\ ~pending' /\ ~plainret' /\ ~inner' /\ n_start' = n_start + 1
        BY <1>1 DEF StartProc
    <2>5. PlaceInv'
        BY <2>1, <2>3, <2>4 DEF PlaceInv, FlagsOf, Inserts, modeVars, nameVars
    <2>6. Inserts /\ Wanted(cur) = "store" => stored' = stored \cup {cur}
        BY <1>1, <2>2 DEF StartProc
    <2>7. stored' \in {stored, stored \cup {cur}}
        BY <1>1 DEF StartProc
    <2>8. WrittenInv'
        <3>1. OwnPrologue'
            BY <2>2, <2>3 DEF OwnPrologue, Inserts, Wanted
        <3>2. NoUncopiedReturn' /\ SkipsOnlyCopies'
            BY <2>3, <2>4 DEF NoUncopiedReturn, WrittenInv, SkipsOnlyCopies, Wanted
        <3>3. ASSUME Inserts' PROVE stored' \subseteq printed'
            BY <2>1, <2>3, <2>7, <3>3 DEF WrittenInv, PlaceInv, Inserts
        <3>4. ASSUME Inserts', NEW f \in printed', Wanted(f)' = "store"
              PROVE  f \in stored'
            BY <2>1, <2>3, <2>6, <2>7, <3>4 DEF WrittenInv, Inserts, Wanted
        <3> QED
            BY <3>1, <3>2, <3>3, <3>4 DEF WrittenInv
    <2>9. CountInv'
        BY <2>1, <2>3, <2>4 DEF CountInv, NeverRefused, TypeOK
    <2> QED
        BY <2>5, <2>8, <2>9
<1>2. CASE EndProc
    <2>1. start2end /\ ~start2end' /\ n_end' = n_end + 1 /\ ~inasm
        BY <1>2 DEF EndProc
    <2>2. UNCHANGED <<modeVars, n_start, nameVars, opt, pc, fileVars, bodyVars, outVars>>
        BY <1>2 DEF EndProc
    <2>3. PlaceInv'
        BY <2>1, <2>2 DEF PlaceInv, FlagsOf, Inserts, modeVars, nameVars, fileVars,
                          bodyVars, outVars
    <2>4. WrittenInv'
        BY <2>1, <2>2 DEF WrittenInv, OwnPrologue, NoUncopiedReturn, SkipsOnlyCopies,
                          Wanted, Inserts, fileVars, bodyVars, outVars
    <2>5. CountInv'
        BY <2>1, <2>2 DEF CountInv, NeverRefused, TypeOK
    <2> QED
        BY <2>3, <2>4, <2>5
<1>3. CASE IndirectCall \/ Instruction \/ ConditionalJump \/ Align
    BY <1>3, CompilerFrame DEF IndirectCall, Instruction, ConditionalJump, Align,
                               fileVars, bodyVars, outVars
<1>4. CASE \E f \in Funcs, plt \in BOOLEAN : DirectCall(f, plt)
    <2>1. PICK f \in Funcs, plt \in BOOLEAN : DirectCall(f, plt)
        BY <1>4
    <2>2. UNCHANGED <<modeVars, procVars, nameVars, opt, pc, fileVars, bodyVars,
                      printed, stored>>
        BY <2>1 DEF DirectCall
    <2>3. CASE called' = called
        BY <2>2, <2>3, CompilerFrame DEF fileVars, bodyVars
    <2>4. CASE RewritesCalls /\ f \notin LibcNamed /\ called' = called \cup {f}
        <3>1. Class[f] \notin {"customized", "handler", "no_instr"}
            BY <2>1, <2>4, LibcAssumption DEF DirectCall
        <3>2. Wanted(f) = "store"
            BY <2>4, <3>1 DEF Wanted, SchemePrologue, RewritesCalls
        <3>3. SkipsOnlyCopies'
            BY <2>2, <2>4, <3>2 DEF SkipsOnlyCopies, WrittenInv, Wanted
        <3>4. PlaceInv' /\ CountInv'
            BY <2>2 DEF PlaceInv, CountInv, NeverRefused, FlagsOf, Inserts, modeVars,
                        procVars, nameVars, fileVars, bodyVars
        <3>5. WrittenInv'
            BY <2>2, <3>3 DEF WrittenInv, OwnPrologue, NoUncopiedReturn, Wanted,
                              Inserts, procVars, fileVars, bodyVars
        <3> QED
            BY <3>4, <3>5
    <2> QED
        BY <2>1, <2>3, <2>4 DEF DirectCall
<1>5. CASE Ret
    <2>1. UNCHANGED <<modeVars, procVars, nameVars, opt, pc, sec, cur, pending, inasm,
                      prologue, inner, printed, stored, called>>
        BY <1>5 DEF Ret, fileVars
    <2>2. CASE plainret' <=> plainret
        BY <2>1, <2>2 DEF PlaceInv, WrittenInv, CountInv, OwnPrologue, NoUncopiedReturn,
           SkipsOnlyCopies, NeverRefused, FlagsOf, Wanted, Inserts, modeVars, procVars,
           nameVars
    <2>3. CASE /\ start2end /\ ~inasm
               /\ ~(/\ ReplacesRet
                    /\ SchemeReturns(opt.scheme, on_stack_handler,
                                     in_customized_func, in_no_instr_func))
        <3>1. prologue # "store"
            BY <2>3 DEF ReplacesRet, SchemeReturns, WrittenInv, OwnPrologue, Wanted,
                        SchemePrologue, PlaceInv, FlagsOf, Inserts
        <3> QED
            BY <2>1, <3>1 DEF PlaceInv, WrittenInv, CountInv, OwnPrologue,
               NoUncopiedReturn, SkipsOnlyCopies, NeverRefused, FlagsOf, Wanted, Inserts,
               modeVars, procVars, nameVars
    <2> QED
        BY <1>5, <2>2, <2>3 DEF Ret
<1>6. CASE \E s \in {"text", "other"} : Section(s) \/ Previous(s)
    <2>1. PICK s \in {"text", "other"} : Section(s)
        BY <1>6 DEF Previous
    <2>2. UNCHANGED <<skip_csect, skip_intel, skip_app, procVars, nameVars, opt, pc, cur,
                      pending, inasm, bodyVars, outVars>>
        BY <2>1 DEF Section
    <2>3. sec' = s /\ (~opt.pass_thru => (instr_ok' <=> s = "text"))
        BY <2>1 DEF Section
    <2>4. PlaceInv'
        BY <2>2, <2>3 DEF PlaceInv, FlagsOf, Inserts, nameVars, procVars, bodyVars,
                          outVars
    <2>5. WrittenInv' /\ CountInv'
        BY <2>2 DEF WrittenInv, CountInv, OwnPrologue, NoUncopiedReturn, SkipsOnlyCopies,
                    NeverRefused, Wanted, Inserts, procVars, bodyVars, outVars
    <2> QED
        BY <2>4, <2>5
<1>7. CASE \E bits \in {32, 64} : Width(bits)
    BY <1>7 DEF Width
<1>8. CASE \E on \in BOOLEAN : Syntax(on) \/ App(on)
    <2>1. PICK on \in BOOLEAN : App(on)
        BY <1>8 DEF Syntax
    <2>2. UNCHANGED <<instr_ok, skip_csect, skip_intel, procVars, nameVars, opt, pc, sec,
                      cur, pending, bodyVars, outVars>>
        BY <2>1 DEF App
    <2>3. start2end /\ inasm' = on /\ (~opt.pass_thru => skip_app' = on)
        BY <2>1 DEF App
    <2>4. PlaceInv'
        BY <2>2, <2>3 DEF PlaceInv, FlagsOf, Inserts, nameVars, procVars, bodyVars,
                          outVars
    <2>5. WrittenInv' /\ CountInv'
        BY <2>2 DEF WrittenInv, CountInv, OwnPrologue, NoUncopiedReturn, SkipsOnlyCopies,
                    NeverRefused, Wanted, Inserts, procVars, bodyVars, outVars
    <2> QED
        BY <2>4, <2>5
<1>9. CASE \E kind \in {"number", "lbb", "other"} : LocalLabel(kind)
    BY <1>9, CompilerFrame DEF LocalLabel, fileVars, bodyVars, outVars
<1>10. CASE \E f \in Funcs : Label(f)
    <2>1. PICK f \in Funcs : Label(f)
        BY <1>10
    <2>2. /\ sec = "text" /\ ~inasm /\ ~start2end /\ ~pending
          /\ cur' = f /\ pending'
        BY <2>1 DEF Label
    <2>3. UNCHANGED <<modeVars, procVars, opt, pc, sec, inasm, prologue, plainret, stored,
                      called>>
        BY <2>1 DEF Label
    <2>4. CASE ~opt.pass_thru
        <3>1. ReadsCode
            BY <2>2, <2>4 DEF ReadsCode, PlaceInv
        <3>2. FlagsOf(f)' /\ printed' = printed \cup {f} /\ ~inner'
            BY <2>1, <2>2, <2>4, <3>1 DEF Label, FlagsOf, PlaceInv
        <3>3. PlaceInv'
            BY <2>2, <2>3, <3>2 DEF PlaceInv, modeVars, procVars
        <3>4. WrittenInv'
            BY <2>2, <2>3, <3>2 DEF WrittenInv, OwnPrologue, NoUncopiedReturn,
               SkipsOnlyCopies, Wanted, Inserts, procVars
        <3> QED
            BY <2>3, <3>3, <3>4 DEF CountInv, NeverRefused, procVars
    <2>5. CASE opt.pass_thru
        <3>1. UNCHANGED <<nameVars, printed, inner>>
            BY <2>1, <2>5 DEF Label
        <3> QED
            BY <2>2, <2>3, <2>5, <3>1 DEF PlaceInv, WrittenInv, CountInv, OwnPrologue,
               NoUncopiedReturn, SkipsOnlyCopies, NeverRefused, FlagsOf, Wanted, Inserts,
               modeVars, procVars, nameVars
    <2> QED
        BY <2>4, <2>5
<1>11. CASE EndOfFile
    <2>1. n_start = n_end
        BY <1>11, BoundIsNat DEF EndOfFile, CountInv, TypeOK
    <2>2. pc' # "fatal"
        BY <1>11, <2>1 DEF EndOfFile
    <2>3. UNCHANGED <<modeVars, procVars, nameVars, opt, fileVars, bodyVars, outVars>>
        BY <1>11 DEF EndOfFile
    <2> QED
        BY <2>2, <2>3 DEF PlaceInv, WrittenInv, CountInv, OwnPrologue, NoUncopiedReturn,
           SkipsOnlyCopies, NeverRefused, FlagsOf, Wanted, Inserts, modeVars, procVars,
           nameVars, fileVars, bodyVars, outVars
<1>12. CASE UNCHANGED vars
    BY <1>12, CompilerFrame DEF vars, fileVars, bodyVars, outVars
<1> QED
    BY <1>1, <1>2, <1>3, <1>4, <1>5, <1>6, <1>7, <1>8, <1>9, <1>10, <1>11, <1>12
       DEF Next
\* Every state is well typed (afl-as.c 6877-6889).
THEOREM TypeCorrect == Spec => []TypeOK
BY TypeInit, TypeNext, PTL DEF Spec

\* The command line, the build and the kind of the file stay as they are.
LEMMA SameOptions == [Next]_vars => opt' = opt
BY DEF Next, vars, StartProc, EndProc, IndirectCall, DirectCall, Ret, Instruction,
       ConditionalJump, Section, Previous, Align, Width, Syntax, App, LocalLabel, Label,
       EndOfFile

\* The end of the file does not come between a label and its function.
LEMMA EndsOutside ==
    ASSUME opt.features = {}, pc = "done" => ~pending, [Next]_vars
    PROVE  (pc = "done" => ~pending)'
BY DEF Next, vars, fileVars, StartProc, EndProc, IndirectCall, DirectCall, Ret,
       Instruction, ConditionalJump, Section, Previous, Align, Width, Syntax, App,
       LocalLabel, Label, EndOfFile, CodeHere, Has

\* In the output of a compiler: every function gets the prologue that its name calls
\* for, none that makes the copy returns without it, calls pass over such prologues
\* only, the printed names are those of the functions that make a copy and of those that
\* the name tests except, and the file is never refused (afl-as.c 7007-7653, 7821-7868,
\* 7836, 7963).
THEOREM CompilerFilesProtected == Spec => []CompilerFileComplete
<1> DEFINE Inv == TypeOK /\ (opt.features = {} => CompilerInv /\ (pc = "done" => ~pending))
<1>1. Init => Inv
    BY TypeInit, CompilerInit DEF Init
<1>2. Inv /\ [Next]_vars => Inv'
    BY TypeNext, CompilerNext, SameOptions, EndsOutside
<1>3. Inv => CompilerFileComplete
    BY DEF CompilerInv, WrittenInv, CountInv, NamesComplete, CompilerFileComplete
<1> QED
    BY <1>1, <1>2, <1>3, PTL DEF Spec

-----------------------------------------------------------------------------
(* One call through the inserted code.  What holds between any two of its    *)
(* instructions is written down build by build: where rsp is, and, as long   *)
(* as no move fell in a window, what the scratch registers and the slot of   *)
(* the call hold.                                                            *)

RegNames == {"rsp", "rax", "r10", "r11", "rdi", "rsi", "rdx", "rcx", "zero"}
Moved == {"buddy_tls", "buddy_size", "gs_rsp", "fs_gs", "fs_gs_msr"}
Callers == {"init", "count"}

Point(place, k, up) == at = place /\ i = k /\ reg["rsp"] = entry.rsp + up
Val(r, v) == ~hit => reg[r] = v
Copy(v) == ~hit => mem[Code!Slot] = v
HomeTarget == ~hit => target = entry.ret
Distance == (1 + area) * Size
\* Nothing has been copied yet.
Fresh(k) == Point("prologue", k, 0) /\ ~linked
\* Behind a prologue of k - 1 instructions, in the body and in front of the epilogue.
Around(k) == Point("prologue", k, 0) \/ Point("body", k, 0) \/ Point("epilogue", 1, 0)

ShadowCopy == mem[entry.rsp + 1 - Size] = entry.ret
ShadowAt ==
    \/ Fresh(1)
    \/ Point("prologue", 2, 1) /\ ShadowCopy
    \/ (Around(3) \/ Point("epilogue", 2, 1)) /\ ShadowCopy
    \/ Point("epilogue", 3, 1) /\ Val("r11", entry.ret)
    \/ Point("returned", 4, 1) /\ HomeTarget

RegAt ==
    \/ Fresh(1)
    \/ Fresh(2) /\ Val("rax", entry.ret)
    \/ Around(3) /\ Copy(entry.ret)
    \/ Point("epilogue", 2, 0) /\ Val("r11", entry.ret)
    \/ Point("epilogue", 3, 1) /\ Val("r11", entry.ret)
    \/ Point("returned", 4, 1) /\ HomeTarget

GlobalAt ==
    \/ Fresh(1)
    \/ Fresh(2) /\ Val("rax", Code!RandomVal)
    \/ Fresh(3) /\ Val("rax", Code!RandomVal + entry.ret)
    \/ Around(4) /\ Copy(Code!RandomVal + entry.ret)
    \/ Point("epilogue", 2, 0) /\ Val("r11", Code!RandomVal + entry.ret)
    \/ Point("epilogue", 3, 0) /\ Val("r11", entry.ret)
    \/ Point("epilogue", 4, 1) /\ Val("r11", entry.ret)
    \/ Point("returned", 5, 1) /\ HomeTarget

BuddyAt ==
    \/ Fresh(1)
    \/ Fresh(2) /\ Val("r11", entry.rsp)
    \/ Fresh(3) /\ Val("r11", 2 * Size)
    \/ Fresh(4) /\ Val("r11", mem[0])
    \/ Fresh(5) /\ Val("r11", mem[0] + entry.ret)
    \/ Around(6) /\ Copy(mem[0] + entry.ret)
    \/ Point("epilogue", 2, 0) /\ Copy(mem[0] + entry.ret) /\ Val("r10", entry.rsp)
    \/ Point("epilogue", 3, 0) /\ Copy(mem[0] + entry.ret) /\ Val("r10", 2 * Size)
    \/ /\ Point("epilogue", 4, 0) /\ Copy(mem[0] + entry.ret) /\ Val("r10", 2 * Size)
       /\ Val("r11", mem[0] + entry.ret)
    \/ Point("epilogue", 5, 0) /\ Copy(mem[0] + entry.ret) /\ Val("r11", entry.ret)
    \/ Point("epilogue", 6, 1) /\ Copy(mem[0] + entry.ret) /\ Val("r11", entry.ret)
    \/ Point("returned", 7, 1) /\ HomeTarget

\* A mask, and the masked address with it.
Both == ~hit => reg["r11"] \in Nat /\ reg["r10"] = reg["r11"] + entry.ret
SizeAt ==
    \/ Fresh(1)
    \/ Fresh(2) /\ Val("r11", entry.rsp)
    \/ Fresh(3) /\ Val("r11", entry.rsp) /\ Val("r10", Code!MaskVar)
    \/ Fresh(4) /\ Val("r11", entry.rsp) /\ Val("r10", -Size)
    \/ Fresh(5) /\ Val("r11", 2 * Size) /\ Val("r10", -Size)
    \/ Fresh(6) /\ Val("r11", mem[0]) /\ Val("r10", -Size)
    \/ Fresh(7) /\ Val("r11", mem[0] + entry.ret) /\ Val("r10", -Size)
    \/ Around(8) /\ Copy(mem[0] + entry.ret)
    \/ Point("epilogue", 2, 0) /\ Copy(mem[0] + entry.ret) /\ Val("r11", entry.rsp)
    \/ /\ Point("epilogue", 3, 0) /\ Copy(mem[0] + entry.ret) /\ Val("r11", entry.rsp)
       /\ Val("r10", Code!MaskVar)
    \/ /\ Point("epilogue", 4, 0) /\ Copy(mem[0] + entry.ret) /\ Val("r11", entry.rsp)
       /\ Val("r10", -Size)
    \/ /\ Point("epilogue", 5, 0) /\ Copy(mem[0] + entry.ret) /\ Val("r11", 2 * Size)
       /\ Val("r10", -Size)
    \/ /\ Point("epilogue", 6, 0) /\ Copy(mem[0] + entry.ret) /\ Val("r11", mem[0])
       /\ Val("r10", -Size)
    \* the mask may change again: both have been read
    \/ Point("epilogue", 7, 0) /\ Copy(mem[0] + entry.ret) /\ Both
    \/ Point("epilogue", 8, 0) /\ Copy(mem[0] + entry.ret) /\ Val("r10", entry.ret)
    \/ Point("epilogue", 9, 1) /\ Copy(mem[0] + entry.ret) /\ Val("r10", entry.ret)
    \/ Point("returned", 10, 1) /\ HomeTarget

GsRspAt ==
    \/ Point("link", 1, 1) /\ linked /\ Val("r11", entry.ret)
    \/ Point("link", 2, 1) /\ linked /\ Val("r11", entry.ret) /\ Val("r10", -User)
    \/ Point("link", 3, 1) /\ linked /\ Copy(entry.ret)
    \/ Fresh(1)
    \/ Fresh(2) /\ Val("r11", entry.ret)
    \/ Fresh(3) /\ Val("r11", entry.ret) /\ Val("r10", -User)
    \/ Around(4) /\ Copy(entry.ret)
    \/ Point("epilogue", 2, 0) /\ Copy(entry.ret) /\ Val("r10", -User)
    \/ Point("epilogue", 3, 1) /\ Copy(entry.ret) /\ Val("r10", -User)
    \/ Point("returned", 4, 1) /\ HomeTarget

FsGsAt ==
    \/ Point("link", 1, 1) /\ linked /\ Val("r11", entry.ret)
    \/ Point("link", 2, 1) /\ linked /\ Val("r11", entry.ret) /\ Val("r10", Distance)
    \/ Point("link", 3, 1) /\ linked /\ Copy(entry.ret)
    \/ Fresh(1)
    \/ Fresh(2) /\ Val("r11", entry.ret)
    \/ Fresh(3) /\ Val("r11", entry.ret) /\ Val("r10", Distance)
    \/ Around(4) /\ Copy(entry.ret)
    \/ Point("epilogue", 2, 0) /\ Copy(entry.ret) /\ Val("r11", Distance)
    \/ Point("epilogue", 3, 0) /\ Val("r11", entry.ret)
    \/ Point("epilogue", 4, 1) /\ Val("r11", entry.ret)
    \/ Point("returned", 5, 1) /\ HomeTarget

Masked == mem[Code!Meta + 2] + entry.ret
MsrAt ==
    \/ Point("link", 1, 1) /\ linked /\ Val("r11", entry.ret)
    \/ Point("link", 2, 1) /\ linked /\ Val("r11", Masked)
    \/ Point("link", 3, 1) /\ linked /\ Val("r11", Masked) /\ Val("r10", Distance)
    \/ Point("link", 4, 1) /\ linked /\ Copy(Masked)
    \/ Fresh(1)
    \/ Fresh(2) /\ Val("r11", entry.ret)
    \/ Fresh(3) /\ Val("r11", Masked)
    \/ Fresh(4) /\ Val("r11", Masked) /\ Val("r10", Distance)
    \/ Around(5) /\ Copy(Masked)
    \/ Point("epilogue", 2, 0) /\ Copy(Masked) /\ Val("r11", Distance)
    \/ Point("epilogue", 3, 0) /\ Copy(Masked) /\ Val("r11", Masked)
    \/ Point("epilogue", 4, 0) /\ Copy(Masked) /\ Val("r11", entry.ret)
    \/ Point("epilogue", 5, 1) /\ Copy(Masked) /\ Val("r11", entry.ret)
    \/ Point("returned", 6, 1) /\ HomeTarget

ShadesmarAt == Around(1) \/ (Point("returned", 2, 1) /\ HomeTarget)

\* The arguments, saved on the stack and restored from it.
Args(s) == /\ "rdi" \in s => reg["rdi"] = 1
           /\ "rsi" \in s => reg["rsi"] = 2
           /\ "rdx" \in s => reg["rdx"] = 3
Saved(n) == /\ n > 0 => mem[entry.rsp - 1] = 1
            /\ n > 1 => mem[entry.rsp - 2] = 2
            /\ n > 2 => mem[entry.rsp - 3] = 3
CallAt ==
    \/ Fresh(1) /\ Args({"rdi", "rsi", "rdx"})
    \/ Point("prologue", 2, -1) /\ Args({"rdi", "rsi", "rdx"}) /\ Saved(1)
    \/ Point("prologue", 3, -2) /\ Args({"rdi", "rsi", "rdx"}) /\ Saved(2)
    \/ Point("prologue", 4, -3) /\ Saved(3)
    \/ Point("prologue", 5, -3) /\ Saved(3)
    \/ Point("prologue", 6, -2) /\ Args({"rdx"}) /\ Saved(2)
    \/ Point("prologue", 7, -1) /\ Args({"rdx", "rsi"}) /\ Saved(1)
    \/ Point("prologue", 8, 0) /\ Args({"rdi", "rsi", "rdx"})
    \/ Point("body", 8, 0) /\ Args({"rdi", "rsi", "rdx"})
    \/ Point("epilogue", 1, 0)
    \/ Point("returned", 2, 1) /\ HomeTarget

Table ==
    /\ build = "shadow_stack" => ShadowAt
    /\ build = "via_reg" => RegAt
    /\ build = "global" => GlobalAt
    /\ build = "buddy_tls" => BuddyAt
    /\ build = "buddy_size" => SizeAt
    /\ build = "gs_rsp" => GsRspAt
    /\ build = "fs_gs" => FsGsAt
    /\ build = "fs_gs_msr" => MsrAt
    /\ build = "shadesmar" => ShadesmarAt
    /\ build \in Callers => CallAt

Shape ==
    /\ build \in Builds /\ area \in {0, 1} /\ moves \in 0 .. MaxMoves
    /\ {fault, hit, linked} \subseteq BOOLEAN
    /\ DOMAIN reg = RegNames /\ DOMAIN mem = Code!Addresses /\ reg["zero"] = 0
    /\ entry.rsp \in 2 * Size + 3 .. 3 * Size - 2 /\ entry.ret \in Rets
    /\ gs = IF build = "gs_rsp" THEN User + Distance ELSE Code!Meta
    /\ build \notin Moved => ~hit
    /\ linked => build \in DOMAIN Code!LinkOf

\* The words that the code reads besides its slot.
Words ==
    /\ ~fault
    /\ mem[entry.rsp] = entry.ret
    /\ mem[Code!Slot] # Code!Unmapped /\ mem[entry.rsp + 1 - Size] # Code!Unmapped
    /\ mem[0] \in Nat /\ mem[Code!Meta + 2] \in Nat /\ mem[Code!MaskVar] = -Size
    /\ build \in {"fs_gs", "fs_gs_msr"} => mem[Code!Meta + 1] = Distance

\* What the prologue leaves alone, and the result.
Kept ==
    /\ at \in {"link", "prologue", "body"} =>
          /\ build \notin {"via_reg", "global"} \cup Callers => reg["rax"] = 11
          /\ build \notin Callers => /\ Args({"rdi", "rsi", "rdx"})
                                     /\ reg["rcx"] = 4
    /\ at \in {"epilogue", "returned"} => reg["rax"] = Code!Result

CodeInv == part = "code" => Shape /\ (~hit => Words) /\ Kept /\ Table

-----------------------------------------------------------------------------
(* The processor.  A step executes one instruction, or stops at an address   *)
(* that a move in a window made wrong.                                       *)

Stuck == fault' = TRUE /\ hit /\ UNCHANGED <<reg, mem, target, i, at>>
Goes == i' = i + 1 /\ at' = at /\ fault' = fault
SetReg(r, v) ==
    /\ DOMAIN reg' = RegNames /\ reg'[r] = v
    /\ \A q \in RegNames \ {r} : reg'[q] = reg[q]
SetMem(a, v) ==
    /\ DOMAIN mem' = DOMAIN mem /\ mem'[a] = v
    /\ \A b \in DOMAIN mem \ {a} : mem'[b] = mem[b]

LEMMA Sizes ==
  /\ Size \in Nat /\ Size >= 2 /\ User \in Nat /\ User > 100 * Size
  /\ Masks \subseteq Nat /\ Rets \subseteq Nat /\ MaxMoves \in Nat
  /\ Code!Meta = 6 * Size /\ Code!MaskVar = 6 * Size + 5
BY CodeAssumption DEF Code!SizeAssumption, Code!WordAssumption, Code!Meta, Code!MaskVar

LEMMA TwoTimes ==
  ASSUME NEW x \in 2 * Size .. 3 * Size - 1
  PROVE  x \div Size = 2
<1> DEFINE q == x \div Size
<1>0. Size \in Nat /\ Size >= 2
  BY Sizes
<1>1. q \in Int /\ Size * q <= x /\ x < Size * q + Size
  <2>1. x = Size * (x \div Size) + (x % Size) /\ x % Size \in 0 .. Size - 1 /\ x \div Size \in Int
    BY <1>0
  <2> QED
    BY <1>0, <2>1
<1> HIDE DEF q
<1>2. ~(q >= 3)
  <2> SUFFICES ASSUME q >= 3 PROVE FALSE
    OBVIOUS
  <2>1. Size * (q - 3) >= 0 /\ Size * (q - 3) = Size * q - 3 * Size /\ Size * q \in Int
    BY <1>0, <1>1
  <2> QED
    BY <1>0, <1>1, <2>1
<1>3. ~(q <= 1)
  <2> SUFFICES ASSUME q <= 1 PROVE FALSE
    OBVIOUS
  <2>1. Size * (1 - q) >= 0 /\ Size * (1 - q) = Size - Size * q /\ Size * q \in Int
    BY <1>0, <1>1
  <2> QED
    BY <1>0, <1>1, <2>1
<1> QED
  BY <1>1, <1>2, <1>3 DEF q

\* Rounding an address of the stack gives its first word.
LEMMA RoundDown ==
  ASSUME NEW x \in 2 * Size .. 3 * Size - 1
  PROVE  Code!Round(x, -Size) = 2 * Size
<1>1. -(-Size) = Size
  BY Sizes
<1>2. x \div Size = 2
  BY TwoTimes
<1> QED
  BY <1>1, <1>2 DEF Code!Round

\* What an instruction does to a register is one update.
LEMMA OneRegister ==
  ASSUME DOMAIN reg = RegNames, NEW r \in RegNames, NEW v, reg' = [reg EXCEPT ![r] = v]
  PROVE  SetReg(r, v)
BY DEF SetReg

LEMMA OneWord ==
  ASSUME NEW a \in DOMAIN mem, NEW v, mem' = [mem EXCEPT ![a] = v]
  PROVE  SetMem(a, v)
BY DEF SetMem

LEMMA Executes ==
  ASSUME Code!Step, NEW c, c = Code!Code[i], \A a \in Code!Touches(c) : ~hit => Code!Mapped(a)
  PROVE  \/ Stuck
         \/ /\ reg' = Code!Registers(c) /\ mem' = Code!Memory(c) /\ target' = Code!Target(c)
            /\ i' = i + 1 /\ at' = (IF Code!Leaves(c) THEN "returned" ELSE at)
            /\ fault' = fault /\ \A a \in Code!Touches(c) : Code!Mapped(a)
<1>1. CASE \A a \in Code!Touches(c) : Code!Mapped(a)
  BY <1>1 DEF Code!Step
<1>2. CASE ~ \A a \in Code!Touches(c) : Code!Mapped(a)
  <2>1. hit
    BY <1>2
  <2> QED
    BY <1>2, <2>1 DEF Code!Step, Stuck
<1> QED
  BY <1>1, <1>2

LEMMA LoadStep ==
  ASSUME Code!Step, DOMAIN reg = RegNames, NEW m, NEW r \in RegNames, NEW len,
         Code!Code[i] = Code!Load(m, r, len), ~hit => Code!Mapped(Code!Where(m))
  PROVE  Stuck \/ (SetReg(r, mem[Code!Where(m)]) /\ mem' = mem /\ Goes)
<1> DEFINE c == Code!Code[i]
<1>1. c.op = "load" /\ c.m = m /\ c.r = r
  BY DEF Code!Load, Code!Ins
<1> HIDE DEF c
<1>2. Code!Touches(c) = {Code!Where(m)}
  BY <1>1 DEF Code!Touches, Code!Reads
<1>3. /\ Code!Registers(c) = [reg EXCEPT ![r] = mem[Code!Where(m)]] /\ Code!Memory(c) = mem
      /\ ~Code!Leaves(c)
  BY <1>1 DEF Code!Registers, Code!Memory, Code!Value, Code!Leaves
<1>4. Stuck \/ (reg' = Code!Registers(c) /\ mem' = Code!Memory(c) /\ Goes)
  BY <1>2, <1>3, Executes DEF c, Goes
<1> QED
  BY <1>3, <1>4, OneRegister

LEMMA AddMStep ==
  ASSUME Code!Step, DOMAIN reg = RegNames, NEW m, NEW r \in RegNames, NEW len,
         Code!Code[i] = Code!AddM(m, r, len), ~hit => Code!Mapped(Code!Where(m))
  PROVE  Stuck \/ (SetReg(r, reg[r] + mem[Code!Where(m)]) /\ mem' = mem /\ Goes)
<1> DEFINE c == Code!Code[i]
<1>1. c.op = "addm" /\ c.m = m /\ c.r = r
  BY DEF Code!AddM, Code!Ins
<1> HIDE DEF c
<1>2. Code!Touches(c) = {Code!Where(m)}
  BY <1>1 DEF Code!Touches, Code!Reads
<1>3. /\ Code!Registers(c) = [reg EXCEPT ![r] = reg[r] + mem[Code!Where(m)]]
      /\ Code!Memory(c) = mem /\ ~Code!Leaves(c)
  BY <1>1 DEF Code!Registers, Code!Memory, Code!Value, Code!Leaves
<1>4. Stuck \/ (reg' = Code!Registers(c) /\ mem' = Code!Memory(c) /\ Goes)
  BY <1>2, <1>3, Executes DEF c, Goes
<1> QED
  BY <1>3, <1>4, OneRegister

LEMMA SubMStep ==
  ASSUME Code!Step, DOMAIN reg = RegNames, NEW m, NEW r \in RegNames,
         Code!Code[i] = Code!SubM(m, r), ~hit => Code!Mapped(Code!Where(m))
  PROVE  Stuck \/ (SetReg(r, reg[r] - mem[Code!Where(m)]) /\ mem' = mem /\ Goes)
<1> DEFINE c == Code!Code[i]
<1>1. c.op = "subm" /\ c.m = m /\ c.r = r
  BY DEF Code!SubM, Code!Ins
<1> HIDE DEF c
<1>2. Code!Touches(c) = {Code!Where(m)}
  BY <1>1 DEF Code!Touches, Code!Reads
<1>3. /\ Code!Registers(c) = [reg EXCEPT ![r] = reg[r] - mem[Code!Where(m)]]
      /\ Code!Memory(c) = mem /\ ~Code!Leaves(c)
  BY <1>1 DEF Code!Registers, Code!Memory, Code!Value, Code!Leaves
<1>4. Stuck \/ (reg' = Code!Registers(c) /\ mem' = Code!Memory(c) /\ Goes)
  BY <1>2, <1>3, Executes DEF c, Goes
<1> QED
  BY <1>3, <1>4, OneRegister

LEMMA MovStep ==
  ASSUME Code!Step, DOMAIN reg = RegNames, NEW s, NEW r \in RegNames,
         Code!Code[i] = Code!Mov(s, r)
  PROVE  SetReg(r, reg[s]) /\ mem' = mem /\ Goes
<1> DEFINE c == Code!Code[i]
<1>1. c.op = "mov" /\ c.s = s /\ c.r = r
  BY DEF Code!Mov, Code!Ins
<1> HIDE DEF c
<1>2. Code!Touches(c) = {}
  BY <1>1 DEF Code!Touches, Code!Reads
<1>3. /\ Code!Registers(c) = [reg EXCEPT ![r] = reg[s]]
      /\ Code!Memory(c) = mem /\ ~Code!Leaves(c)
  BY <1>1 DEF Code!Registers, Code!Memory, Code!Value, Code!Leaves
<1>4. reg' = Code!Registers(c) /\ mem' = Code!Memory(c) /\ Goes
  BY <1>2, <1>3 DEF Code!Step, c, Goes
<1> QED
  BY <1>3, <1>4, OneRegister

LEMMA SubStep ==
  ASSUME Code!Step, DOMAIN reg = RegNames, NEW s, NEW r \in RegNames,
         Code!Code[i] = Code!Sub(s, r)
  PROVE  SetReg(r, reg[r] - reg[s]) /\ mem' = mem /\ Goes
<1> DEFINE c == Code!Code[i]
<1>1. c.op = "sub" /\ c.s = s /\ c.r = r
  BY DEF Code!Sub, Code!Ins
<1> HIDE DEF c
<1>2. Code!Touches(c) = {}
  BY <1>1 DEF Code!Touches, Code!Reads
<1>3. /\ Code!Registers(c) = [reg EXCEPT ![r] = reg[r] - reg[s]]
      /\ Code!Memory(c) = mem /\ ~Code!Leaves(c)
  BY <1>1 DEF Code!Registers, Code!Memory, Code!Value, Code!Leaves
<1>4. reg' = Code!Registers(c) /\ mem' = Code!Memory(c) /\ Goes
  BY <1>2, <1>3 DEF Code!Step, c, Goes
<1> QED
  BY <1>3, <1>4, OneRegister

LEMMA AndStep ==
  ASSUME Code!Step, DOMAIN reg = RegNames, NEW s, NEW r \in RegNames,
         Code!Code[i] = Code!And(s, r)
  PROVE  SetReg(r, Code!Round(reg[r], reg[s])) /\ mem' = mem /\ Goes
<1> DEFINE c == Code!Code[i]
<1>1. c.op = "and" /\ c.s = s /\ c.r = r
  BY DEF Code!And, Code!Ins
<1> HIDE DEF c
<1>2. Code!Touches(c) = {}
  BY <1>1 DEF Code!Touches, Code!Reads
<1>3. /\ Code!Registers(c) = [reg EXCEPT ![r] = Code!Round(reg[r], reg[s])]
      /\ Code!Memory(c) = mem /\ ~Code!Leaves(c)
  BY <1>1 DEF Code!Registers, Code!Memory, Code!Value, Code!Leaves
<1>4. reg' = Code!Registers(c) /\ mem' = Code!Memory(c) /\ Goes
  BY <1>2, <1>3 DEF Code!Step, c, Goes
<1> QED
  BY <1>3, <1>4, OneRegister

LEMMA AndIStep ==
  ASSUME Code!Step, DOMAIN reg = RegNames, NEW n, NEW r \in RegNames,
         Code!Code[i] = Code!AndI(n, r)
  PROVE  SetReg(r, Code!Round(reg[r], n)) /\ mem' = mem /\ Goes
<1> DEFINE c == Code!Code[i]
<1>1. c.op = "andi" /\ c.n = n /\ c.r = r
  BY DEF Code!AndI, Code!Ins
<1> HIDE DEF c
<1>2. Code!Touches(c) = {}
  BY <1>1 DEF Code!Touches, Code!Reads
<1>3. /\ Code!Registers(c) = [reg EXCEPT ![r] = Code!Round(reg[r], n)]
      /\ Code!Memory(c) = mem /\ ~Code!Leaves(c)
  BY <1>1 DEF Code!Registers, Code!Memory, Code!Value, Code!Leaves
<1>4. reg' = Code!Registers(c) /\ mem' = Code!Memory(c) /\ Goes
  BY <1>2, <1>3 DEF Code!Step, c, Goes
<1> QED
  BY <1>3, <1>4, OneRegister

LEMMA AddIStep ==
  ASSUME Code!Step, DOMAIN reg = RegNames, NEW n, NEW r \in RegNames,
         Code!Code[i] = Code!AddI(n, r)
  PROVE  SetReg(r, reg[r] + n) /\ mem' = mem /\ Goes
<1> DEFINE c == Code!Code[i]
<1>1. c.op = "addi" /\ c.n = n /\ c.r = r
  BY DEF Code!AddI, Code!Ins
<1> HIDE DEF c
<1>2. Code!Touches(c) = {}
  BY <1>1 DEF Code!Touches, Code!Reads
<1>3. /\ Code!Registers(c) = [reg EXCEPT ![r] = reg[r] + n]
      /\ Code!Memory(c) = mem /\ ~Code!Leaves(c)
  BY <1>1 DEF Code!Registers, Code!Memory, Code!Value, Code!Leaves
<1>4. reg' = Code!Registers(c) /\ mem' = Code!Memory(c) /\ Goes
  BY <1>2, <1>3 DEF Code!Step, c, Goes
<1> QED
  BY <1>3, <1>4, OneRegister

LEMMA SubIStep ==
  ASSUME Code!Step, DOMAIN reg = RegNames, NEW n, NEW r \in RegNames,
         Code!Code[i] = Code!SubI(n, r)
  PROVE  SetReg(r, reg[r] + (-n)) /\ mem' = mem /\ Goes
<1> DEFINE c == Code!Code[i]
<1>1. c.op = "addi" /\ c.n = -n /\ c.r = r
  BY DEF Code!SubI, Code!Ins
<1> HIDE DEF c
<1>2. Code!Touches(c) = {}
  BY <1>1 DEF Code!Touches, Code!Reads
<1>3. /\ Code!Registers(c) = [reg EXCEPT ![r] = reg[r] + (-n)]
      /\ Code!Memory(c) = mem /\ ~Code!Leaves(c)
  BY <1>1 DEF Code!Registers, Code!Memory, Code!Value, Code!Leaves
<1>4. reg' = Code!Registers(c) /\ mem' = Code!Memory(c) /\ Goes
  BY <1>2, <1>3 DEF Code!Step, c, Goes
<1> QED
  BY <1>3, <1>4, OneRegister

LEMMA MovIStep ==
  ASSUME Code!Step, DOMAIN reg = RegNames, NEW n, NEW len, NEW r \in RegNames,
         Code!Code[i] = Code!MovI(n, r, len)
  PROVE  SetReg(r, n) /\ mem' = mem /\ Goes
<1> DEFINE c == Code!Code[i]
<1>1. c.op = "movi" /\ c.n = n /\ c.r = r
  BY DEF Code!MovI, Code!Ins
<1> HIDE DEF c
<1>2. Code!Touches(c) = {}
  BY <1>1 DEF Code!Touches, Code!Reads
<1>3. /\ Code!Registers(c) = [reg EXCEPT ![r] = n]
      /\ Code!Memory(c) = mem /\ ~Code!Leaves(c)
  BY <1>1 DEF Code!Registers, Code!Memory, Code!Value, Code!Leaves
<1>4. reg' = Code!Registers(c) /\ mem' = Code!Memory(c) /\ Goes
  BY <1>2, <1>3 DEF Code!Step, c, Goes
<1> QED
  BY <1>3, <1>4, OneRegister

LEMMA StoreStep ==
  ASSUME Code!Step, DOMAIN mem = Code!Addresses, NEW s, NEW m, NEW len,
         Code!Code[i] = Code!Store(s, m, len), ~hit => Code!Mapped(Code!Where(m))
  PROVE  Stuck \/ (SetMem(Code!Where(m), reg[s]) /\ reg' = reg /\ Goes)
<1> DEFINE c == Code!Code[i]
<1>1. c.op = "store" /\ c.m = m /\ c.s = s
  BY DEF Code!Store, Code!Ins
<1> HIDE DEF c
<1>2. Code!Touches(c) = {Code!Where(m)}
  BY <1>1 DEF Code!Touches, Code!Reads
<1>3. /\ Code!Memory(c) = [mem EXCEPT ![Code!Where(m)] = reg[s]]
      /\ Code!Registers(c) = reg /\ ~Code!Leaves(c)
  BY <1>1 DEF Code!Registers, Code!Memory, Code!Leaves
<1>4. Stuck \/ (/\ reg' = Code!Registers(c) /\ mem' = Code!Memory(c) /\ Goes
                /\ Code!Where(m) \in DOMAIN mem)
  BY <1>2, <1>3, Executes DEF c, Goes, Code!Mapped
<1> QED
  BY <1>3, <1>4, OneWord

LEMMA PopMStep ==
  ASSUME Code!Step, DOMAIN reg = RegNames, DOMAIN mem = Code!Addresses, NEW b, NEW o,
         Code!Code[i] = Code!PopM(Code!Mem(b, o)), ~hit => Code!Mapped(reg["rsp"] + 1 + o)
  PROVE  Stuck \/ (/\ SetMem(reg["rsp"] + 1 + o, mem[reg["rsp"]])
                   /\ SetReg("rsp", reg["rsp"] + 1) /\ Goes)
<1> DEFINE c == Code!Code[i]
           a == reg["rsp"] + 1 + o
<1>1. c.op = "popm" /\ c.m.off = o
  BY DEF Code!PopM, Code!Ins, Code!Mem
<1> HIDE DEF c
<1>2. Code!Touches(c) = {a}
  BY <1>1 DEF Code!Touches, Code!Reads
<1>3. /\ Code!Memory(c) = [mem EXCEPT ![a] = mem[reg["rsp"]]]
      /\ Code!Registers(c) = [reg EXCEPT !["rsp"] = reg["rsp"] + 1] /\ ~Code!Leaves(c)
  BY <1>1 DEF Code!Registers, Code!Memory, Code!Leaves
<1> HIDE DEF a
<1>4. Stuck \/ (/\ reg' = Code!Registers(c) /\ mem' = Code!Memory(c) /\ Goes
                /\ a \in DOMAIN mem)
  BY <1>2, <1>3, Executes DEF c, Goes, Code!Mapped, a
<1>5. "rsp" \in RegNames
  BY DEF RegNames
<1> QED
  BY <1>3, <1>4, <1>5, OneWord, OneRegister DEF a

LEMMA PushStep ==
  ASSUME Code!Step, DOMAIN reg = RegNames, NEW s, Code!Code[i] = Code!Push(s),
         reg["rsp"] - 1 \in DOMAIN mem
  PROVE  SetMem(reg["rsp"] - 1, reg[s]) /\ SetReg("rsp", reg["rsp"] - 1) /\ Goes
<1> DEFINE c == Code!Code[i]
<1>1. c.op = "push" /\ c.s = s
  BY DEF Code!Push, Code!Ins
<1> HIDE DEF c
<1>2. Code!Touches(c) = {}
  BY <1>1 DEF Code!Touches, Code!Reads
<1>3. /\ Code!Memory(c) = [mem EXCEPT ![reg["rsp"] - 1] = reg[s]]
      /\ Code!Registers(c) = [reg EXCEPT !["rsp"] = reg["rsp"] - 1] /\ ~Code!Leaves(c)
  BY <1>1 DEF Code!Registers, Code!Memory, Code!Leaves
<1>4. reg' = Code!Registers(c) /\ mem' = Code!Memory(c) /\ Goes
  BY <1>2, <1>3 DEF Code!Step, c, Goes
<1>5. "rsp" \in RegNames
  BY DEF RegNames
<1> QED
  BY <1>3, <1>4, <1>5, OneWord, OneRegister

LEMMA PopStep ==
  ASSUME Code!Step, DOMAIN reg = RegNames, NEW r \in RegNames \ {"rsp"}, Code!Code[i] = Code!Pop(r)
  PROVE  /\ DOMAIN reg' = RegNames /\ reg'[r] = mem[reg["rsp"]] /\ reg'["rsp"] = reg["rsp"] + 1
         /\ \A q \in RegNames \ {r, "rsp"} : reg'[q] = reg[q]
         /\ mem' = mem /\ Goes
<1> DEFINE c == Code!Code[i]
<1>1. c.op = "pop" /\ c.r = r
  BY DEF Code!Pop, Code!Ins
<1> HIDE DEF c
<1>2. Code!Touches(c) = {}
  BY <1>1 DEF Code!Touches, Code!Reads
<1>3. /\ Code!Memory(c) = mem /\ ~Code!Leaves(c)
      /\ Code!Registers(c) = [reg EXCEPT ![r] = mem[reg["rsp"]], !["rsp"] = reg["rsp"] + 1]
  BY <1>1 DEF Code!Registers, Code!Memory, Code!Value, Code!Leaves
<1>4. reg' = Code!Registers(c) /\ mem' = Code!Memory(c) /\ Goes
  BY <1>2, <1>3 DEF Code!Step, c, Goes
<1>5. "rsp" \in RegNames
  BY DEF RegNames
<1> QED
  BY <1>3, <1>4, <1>5

LEMMA CallCStep ==
  ASSUME Code!Step, DOMAIN reg = RegNames, Code!Code[i] = Code!CallC
  PROVE  /\ DOMAIN reg' = RegNames /\ reg'["rsp"] = reg["rsp"] /\ reg'["zero"] = reg["zero"]
         /\ mem' = mem /\ Goes
<1> DEFINE c == Code!Code[i]
<1>1. c.op = "callc"
  BY DEF Code!CallC, Code!Ins
<1> HIDE DEF c
<1>2. Code!Touches(c) = {}
  BY <1>1 DEF Code!Touches, Code!Reads
<1>3. Code!Memory(c) = mem /\ ~Code!Leaves(c)
  BY <1>1 DEF Code!Memory, Code!Leaves
<1>4. /\ DOMAIN Code!Registers(c) = RegNames /\ Code!Registers(c)["rsp"] = reg["rsp"]
      /\ Code!Registers(c)["zero"] = reg["zero"]
  BY <1>1 DEF Code!Registers, RegNames
<1>5. reg' = Code!Registers(c) /\ mem' = Code!Memory(c) /\ Goes
  BY <1>2, <1>3 DEF Code!Step, c, Goes
<1> QED
  BY <1>3, <1>4, <1>5

Lands(v) == i' = i + 1 /\ at' = "returned" /\ fault' = fault /\ mem' = mem /\ target' = v

LEMMA JumpStep ==
  ASSUME Code!Step, NEW s, Code!Code[i] = Code!Jump(s)
  PROVE  reg' = reg /\ Lands(reg[s])
<1> DEFINE c == Code!Code[i]
<1>1. c.op = "jump" /\ c.s = s
  BY DEF Code!Jump, Code!Ins
<1> HIDE DEF c
<1>2. Code!Touches(c) = {}
  BY <1>1 DEF Code!Touches, Code!Reads
<1>3. /\ Code!Registers(c) = reg /\ Code!Memory(c) = mem /\ Code!Target(c) = reg[s]
      /\ Code!Leaves(c)
  BY <1>1 DEF Code!Registers, Code!Memory, Code!Target, Code!Leaves
<1> QED
  BY <1>2, <1>3 DEF Code!Step, c, Lands

LEMMA JumpMStep ==
  ASSUME Code!Step, NEW m, Code!Code[i] = Code!JumpM(m), ~hit => Code!Mapped(Code!Where(m))
  PROVE  Stuck \/ (reg' = reg /\ Lands(mem[Code!Where(m)]))
<1> DEFINE c == Code!Code[i]
<1>1. c.op = "jumpm" /\ c.m = m
  BY DEF Code!JumpM, Code!Ins
<1> HIDE DEF c
<1>2. Code!Touches(c) = {Code!Where(m)}
  BY <1>1 DEF Code!Touches, Code!Reads
<1>3. /\ Code!Registers(c) = reg /\ Code!Memory(c) = mem
      /\ Code!Target(c) = mem[Code!Where(m)] /\ Code!Leaves(c)
  BY <1>1 DEF Code!Registers, Code!Memory, Code!Target, Code!Leaves
<1> QED
  BY <1>2, <1>3, Executes DEF c, Lands

LEMMA ReturnStep ==
  ASSUME Code!Step, DOMAIN reg = RegNames, Code!Code[i] = Code!Return
  PROVE  SetReg("rsp", reg["rsp"] + 1) /\ Lands(mem[reg["rsp"]])
<1> DEFINE c == Code!Code[i]
<1>1. c.op = "ret"
  BY DEF Code!Return, Code!Ins
<1> HIDE DEF c
<1>2. Code!Touches(c) = {}
  BY <1>1 DEF Code!Touches, Code!Reads
<1>3. /\ Code!Registers(c) = [reg EXCEPT !["rsp"] = reg["rsp"] + 1] /\ Code!Memory(c) = mem
      /\ Code!Target(c) = mem[reg["rsp"]] /\ Code!Leaves(c)
  BY <1>1 DEF Code!Registers, Code!Memory, Code!Target, Code!Leaves
<1>4. reg' = Code!Registers(c) /\ Lands(mem[reg["rsp"]])
  BY <1>2, <1>3 DEF Code!Step, c, Lands
<1>5. "rsp" \in RegNames
  BY DEF RegNames
<1> QED
  BY <1>3, <1>4, <1>5, OneRegister

-----------------------------------------------------------------------------
(* Addresses.                                                                *)

Sound == Shape /\ (~hit => Words) /\ Kept

LEMMA Places ==
  ASSUME Shape
  PROVE  /\ entry.rsp \in Nat /\ entry.ret \in Nat
         /\ 2 * Size + 3 <= entry.rsp /\ entry.rsp <= 3 * Size - 2
         /\ Distance \in {Size, 2 * Size} /\ gs \in Int
         /\ area = 0 => Distance = Size
         /\ area = 1 => Distance = 2 * Size
         /\ build = "gs_rsp" => gs = User + Distance
         /\ build # "gs_rsp" => gs = 6 * Size
<1>1. entry.rsp \in 2 * Size + 3 .. 3 * Size - 2 /\ entry.ret \in Nat /\ area \in {0, 1}
  BY Sizes DEF Shape
<1>2. Distance \in {Size, 2 * Size} /\ (area = 0 => Distance = Size)
      /\ (area = 1 => Distance = 2 * Size)
  <2>1. CASE area = 0
    BY <2>1, Sizes DEF Distance
  <2>2. CASE area = 1
    BY <2>2, Sizes DEF Distance
  <2> QED
    BY <1>1, <2>1, <2>2
<1>3. gs = IF build = "gs_rsp" THEN User + Distance ELSE 6 * Size
  BY Sizes DEF Shape
<1> HIDE DEF Distance
<1> QED
  BY <1>1, <1>2, <1>3, Sizes

LEMMA SlotPlace ==
  ASSUME Shape
  PROVE  /\ build \in {"gs_rsp", "fs_gs", "fs_gs_msr"} => Code!Slot = entry.rsp + Distance
         /\ build \notin {"gs_rsp", "fs_gs", "fs_gs_msr"} => Code!Slot = entry.rsp - Size
         /\ Code!Slot \in Int
         /\ Code!Slot > Size /\ Code!Slot < 5 * Size
         /\ Code!Slot >= entry.rsp + Size \/ Code!Slot <= entry.rsp - Size
<1>1. /\ build \in {"gs_rsp", "fs_gs", "fs_gs_msr"} => Code!Slot = entry.rsp + Distance
      /\ build \notin {"gs_rsp", "fs_gs", "fs_gs_msr"} => Code!Slot = entry.rsp - Size
  BY DEF Code!Slot, Distance
<1> HIDE DEF Code!Slot, Distance
<1> QED
  BY <1>1, Places, Sizes

LEMMA AddressesAre == Code!Addresses = 0 .. 6 * Size + 5
BY DEF Code!Addresses, Code!Meta

LEMMA WhereMem ==
  ASSUME Shape, NEW b \in RegNames, NEW o \in Int, reg[b] \in Int
  PROVE  Code!Where(Code!Mem(b, o)) = reg[b] + o
<1>1. reg["zero"] = 0 /\ gs \in Int
  BY Places DEF Shape
<1>2. Code!Where(Code!Mem(b, o)) = reg[b] + o + 0 * reg["zero"] + 0 * gs
  BY DEF Code!Where, Code!Mem
<1> QED
  BY <1>1, <1>2

LEMMA WhereIdx ==
  ASSUME Shape, NEW b \in RegNames, NEW o \in Int, NEW x \in RegNames, reg[b] \in Int,
         reg[x] \in Int
  PROVE  /\ Code!Where(Code!Idx(b, o, x, 1)) = reg[b] + o + reg[x]
         /\ Code!Where(Code!Idx(b, o, x, 2)) = reg[b] + o + 2 * reg[x]
         /\ Code!Where(Code!Gs(Code!Idx(b, o, x, 1))) = reg[b] + o + reg[x] + gs
<1>1. gs \in Int
  BY Places
<1>2. /\ Code!Where(Code!Idx(b, o, x, 1)) = reg[b] + o + 1 * reg[x] + 0 * gs
      /\ Code!Where(Code!Idx(b, o, x, 2)) = reg[b] + o + 2 * reg[x] + 0 * gs
      /\ Code!Where(Code!Gs(Code!Idx(b, o, x, 1))) = reg[b] + o + 1 * reg[x] + 1 * gs
  BY DEF Code!Where, Code!Idx, Code!Gs
<1> QED
  BY <1>1, <1>2

LEMMA WhereGs ==
  ASSUME Shape, NEW o \in Int
  PROVE  Code!Where(Code!Gs(Code!Mem("zero", o))) = gs + o
<1>1. reg["zero"] = 0 /\ gs \in Int
  BY Places DEF Shape
<1>2. Code!Where(Code!Gs(Code!Mem("zero", o))) = reg["zero"] + o + 0 * reg["zero"] + 1 * gs
  BY DEF Code!Where, Code!Mem, Code!Gs
<1> QED
  BY <1>1, <1>2

-----------------------------------------------------------------------------
(* What a step keeps.                                                        *)

LEMMA StepFrame ==
  ASSUME Code!Step
  PROVE  /\ UNCHANGED <<build, gs, area, entry, hit, moves, linked>>
         /\ Code!Slot' = Code!Slot /\ Distance' = Distance
BY DEF Code!Step, Code!Slot, Distance

LEMMA ShapeKept ==
  ASSUME Shape, Code!Step, DOMAIN reg' = RegNames, DOMAIN mem' = DOMAIN mem,
         reg'["zero"] = reg["zero"], fault' = fault
  PROVE  Shape'
BY StepFrame DEF Shape

LEMMA WordsKept ==
  ASSUME Shape, ~hit => Words, Code!Step, fault' = fault, mem' = mem
  PROVE  ~hit' => Words'
BY StepFrame DEF Words

\* The words that may be written are no words that are read.
LEMMA WordsWritten ==
  ASSUME Shape, ~hit => Words, Code!Step, fault' = fault, NEW a, NEW v, SetMem(a, v),
         ~hit => /\ a \in Int /\ a > 0 /\ a < 6 * Size /\ a # entry.rsp /\ v # Code!Unmapped
  PROVE  ~hit' => Words'
<1> SUFFICES ASSUME ~hit PROVE Words'
  BY StepFrame
<1>1. \A b \in Code!Addresses \ {a} : mem'[b] = mem[b]
  BY DEF SetMem, Shape
<1>2. /\ entry.rsp \in Code!Addresses \ {a} /\ 0 \in Code!Addresses \ {a}
      /\ Code!Meta + 1 \in Code!Addresses \ {a} /\ Code!Meta + 2 \in Code!Addresses \ {a}
      /\ Code!MaskVar \in Code!Addresses \ {a}
      /\ Code!Slot \in Code!Addresses /\ entry.rsp + 1 - Size \in Code!Addresses
  <2>1. entry.rsp \in Code!Addresses \ {a} /\ entry.rsp + 1 - Size \in Code!Addresses
    BY Sizes, Places, AddressesAre
  <2>2. 0 \in Code!Addresses \ {a}
    BY Sizes, AddressesAre
  <2>3. /\ Code!Meta + 1 \in Code!Addresses \ {a} /\ Code!Meta + 2 \in Code!Addresses \ {a}
        /\ Code!MaskVar \in Code!Addresses \ {a}
    BY Sizes, AddressesAre
  <2>4. Code!Slot \in Code!Addresses
    <3> HIDE DEF Code!Slot
    <3> QED
      BY Sizes, SlotPlace, AddressesAre
  <2> QED
    BY <2>1, <2>2, <2>3, <2>4
<1>3. mem'[Code!Slot] # Code!Unmapped /\ mem'[entry.rsp + 1 - Size] # Code!Unmapped
  BY <1>1, <1>2 DEF Words, SetMem
<1> QED
  BY <1>1, <1>2, <1>3, StepFrame DEF Words

ScratchAt == {"rsp", "r10", "r11"}
               \cup (IF build \in {"via_reg", "global"} /\ at = "prologue" THEN {"rax"} ELSE {})

LEMMA SetRegSound ==
  ASSUME Sound, Code!Step, NEW r, NEW v, SetReg(r, v), r \in ScratchAt, mem' = mem, Goes,
         build \notin Callers
  PROVE  Sound'
<1>1. r \in RegNames \ {"zero", "rdi", "rsi", "rdx", "rcx"}
  BY DEF RegNames, ScratchAt
<1>2. Shape'
  BY <1>1, ShapeKept DEF Sound, SetReg, RegNames, Goes
<1>3. ~hit' => Words'
  BY WordsKept DEF Sound, Goes
<1>4. \A q \in {"rdi", "rsi", "rdx", "rcx"} : reg'[q] = reg[q]
  BY <1>1 DEF SetReg, RegNames
<1>5. r # "rax" => reg'["rax"] = reg["rax"]
  BY DEF SetReg, RegNames
<1>6. Kept'
  BY <1>4, <1>5, StepFrame DEF Sound, Kept, Goes, Args, ScratchAt
<1> QED
  BY <1>2, <1>3, <1>6 DEF Sound

LEMMA SetMemSound ==
  ASSUME Sound, Code!Step, NEW a, NEW v, SetMem(a, v), reg' = reg, Goes,
         ~hit => /\ a \in Int /\ a > 0 /\ a < 6 * Size /\ a # entry.rsp /\ v # Code!Unmapped
  PROVE  Sound'
<1>1. Shape'
  BY ShapeKept DEF Sound, SetMem, Goes, Shape
<1>2. ~hit' => Words'
  BY WordsWritten DEF Sound, Goes
<1>3. Kept'
  BY StepFrame DEF Sound, Kept, Goes, Args
<1> QED
  BY <1>1, <1>2, <1>3 DEF Sound

LEMMA LandsSound ==
  ASSUME Sound, Code!Step, NEW v, reg' = reg, Lands(v), at = "epilogue"
  PROVE  Sound'
<1>1. Shape'
  BY ShapeKept DEF Sound, Lands, Shape
<1>2. ~hit' => Words'
  BY WordsKept DEF Sound, Lands
<1>3. Kept'
  BY DEF Sound, Kept, Lands
<1> QED
  BY <1>1, <1>2, <1>3 DEF Sound

-----------------------------------------------------------------------------
(* The words that the code touches.                                          *)

\* The word at the return address, and the slot in the builds with a fixed distance.
LEMMA ReturnWord ==
  ASSUME Sound, reg["rsp"] = entry.rsp
  PROVE  ~hit => /\ Code!Where(Code!Mem("rsp", 0)) = entry.rsp
                 /\ Code!Mapped(entry.rsp) /\ mem[entry.rsp] = entry.ret
<1>1. Code!Where(Code!Mem("rsp", 0)) = entry.rsp
  BY WhereMem, Places DEF Sound, RegNames
<1>2. entry.rsp \in Code!Addresses /\ entry.ret \in Nat /\ entry.ret # Code!Unmapped
  BY Places, Sizes, AddressesAre DEF Sound, Code!Unmapped
<1> QED
  BY <1>1, <1>2 DEF Sound, Words, Code!Mapped

LEMMA SlotWord ==
  ASSUME Sound
  PROVE  /\ Code!Slot \in Int /\ Code!Slot > 0 /\ Code!Slot < 6 * Size /\ Code!Slot # entry.rsp
         /\ ~hit => Code!Mapped(Code!Slot)
<1>1. Code!Slot \in Code!Addresses
  BY SlotPlace, Sizes, AddressesAre DEF Sound
<1> QED
  BY <1>1, SlotPlace, Places, Sizes DEF Sound, Words, Code!Mapped

\* What the words that are read hold.
LEMMA ReadWords ==
  ASSUME Sound
  PROVE  /\ entry.ret \in Nat
         /\ ~hit => /\ mem[entry.rsp] = entry.ret /\ mem[0] \in Nat
                    /\ mem[Code!Meta + 2] \in Nat /\ mem[Code!MaskVar] = -Size
                    /\ build \in {"fs_gs", "fs_gs_msr"} => mem[Code!Meta + 1] = Distance
BY Places DEF Sound, Words

LEMMA SlotStored ==
  ASSUME Sound, NEW a, NEW v, SetMem(a, v), ~hit => a = Code!Slot
  PROVE  ~hit => /\ mem'[Code!Slot] = v /\ mem'[0] = mem[0]
                 /\ mem'[Code!Meta + 2] = mem[Code!Meta + 2]
<1> SUFFICES ASSUME ~hit PROVE /\ mem'[Code!Slot] = v /\ mem'[0] = mem[0]
                               /\ mem'[Code!Meta + 2] = mem[Code!Meta + 2]
  OBVIOUS
<1>1. a = Code!Slot /\ DOMAIN mem = 0 .. 6 * Size + 5
  BY AddressesAre DEF Sound, Shape
<1>2. 0 \in DOMAIN mem \ {a} /\ Code!Meta + 2 \in DOMAIN mem \ {a}
  BY <1>1, SlotPlace, Sizes DEF Sound
<1> QED
  BY <1>1, <1>2 DEF SetMem

LEMMA SlotBelow ==
  ASSUME Sound, build \in {"via_reg", "global", "buddy_tls"}, reg["rsp"] = entry.rsp
  PROVE  Code!Where(Code!Mem("rsp", -Size)) = Code!Slot
<1>1. Code!Where(Code!Mem("rsp", -Size)) = entry.rsp + (-Size)
  BY WhereMem, Places, Sizes DEF Sound, RegNames
<1> QED
  BY <1>1, SlotPlace, Places, Sizes DEF Sound

LEMMA RoundEntry ==
  ASSUME Sound
  PROVE  Code!Round(entry.rsp, -Size) = 2 * Size
BY Places, Sizes, RoundDown DEF Sound

\* The words at a place that a register holds, as long as it holds it.
LEMMA MaskWord ==
  ASSUME Sound, NEW r \in {"r10", "r11"}, reg[r] = 2 * Size, ~hit
  PROVE  Code!Where(Code!Mem(r, -2 * Size)) = 0 /\ Code!Mapped(0)
<1>1. Code!Where(Code!Mem(r, -2 * Size)) = 2 * Size + (-2 * Size)
  BY WhereMem, Sizes DEF Sound, RegNames
<1>2. 0 \in Code!Addresses /\ mem[0] # Code!Unmapped
  BY AddressesAre, ReadWords, Sizes DEF Code!Unmapped
<1> QED
  BY <1>1, <1>2, Sizes DEF Code!Mapped

LEMMA SizeWord ==
  ASSUME Sound, reg["r10"] = Code!MaskVar, ~hit
  PROVE  Code!Where(Code!Mem("r10", 0)) = Code!MaskVar /\ Code!Mapped(Code!MaskVar)
<1>1. Code!Where(Code!Mem("r10", 0)) = Code!MaskVar + 0 /\ Code!MaskVar \in Nat
  BY WhereMem, Sizes DEF Sound, RegNames
<1>2. Code!MaskVar \in Code!Addresses /\ mem[Code!MaskVar] # Code!Unmapped
  BY AddressesAre, ReadWords, Sizes DEF Code!Unmapped
<1> QED
  BY <1>1, <1>2 DEF Code!Mapped

LEMMA MaskIndexed ==
  ASSUME Sound, reg["r11"] = 2 * Size, reg["r10"] = -Size, ~hit
  PROVE  Code!Where(Code!Idx("r11", 0, "r10", 2)) = 0 /\ Code!Mapped(0)
<1>0. reg["r11"] \in Int /\ reg["r10"] \in Int /\ {"r10", "r11"} \subseteq RegNames
  BY Sizes DEF RegNames
<1>1. Code!Where(Code!Idx("r11", 0, "r10", 2)) = reg["r11"] + 0 + 2 * reg["r10"]
  BY <1>0, WhereIdx DEF Sound
<1>2. 0 \in Code!Addresses /\ mem[0] # Code!Unmapped
  BY AddressesAre, ReadWords, Sizes DEF Code!Unmapped
<1> QED
  BY <1>1, <1>2, Sizes DEF Code!Mapped

\* The slot, at the distance that a register holds.
LEMMA SlotIndexed ==
  ASSUME Sound, NEW r \in {"r10", "r11"}, NEW o \in Int, reg["rsp"] + o = entry.rsp,
         reg["rsp"] \in Int,
         \/ build = "buddy_size" /\ reg[r] = -Size
         \/ build \in {"fs_gs", "fs_gs_msr"} /\ reg[r] = Distance
  PROVE  Code!Where(Code!Idx("rsp", o, r, 1)) = Code!Slot
<1>1. reg[r] \in Int /\ Code!Slot = entry.rsp + reg[r]
  BY Places, SlotPlace, Sizes DEF Sound
<1>2. Code!Where(Code!Idx("rsp", o, r, 1)) = reg["rsp"] + o + reg[r]
  BY <1>1, WhereIdx DEF Sound, RegNames
<1> QED
  BY <1>1, <1>2

LEMMA SlotGs ==
  ASSUME Sound, NEW o \in Int, reg["rsp"] + o = entry.rsp, reg["rsp"] \in Int,
         build = "gs_rsp", reg["r10"] = -User
  PROVE  Code!Where(Code!Gs(Code!Idx("rsp", o, "r10", 1))) = Code!Slot
<1>1. reg["r10"] \in Int /\ Code!Slot = entry.rsp + Distance /\ gs = User + Distance
  BY Places, SlotPlace, Sizes DEF Sound
<1>2. Code!Where(Code!Gs(Code!Idx("rsp", o, "r10", 1))) = reg["rsp"] + o + reg["r10"] + gs
  BY <1>1, WhereIdx DEF Sound, RegNames
<1>3. Distance \in Int /\ User \in Int
  BY Places, Sizes DEF Sound
<1> QED
  BY <1>1, <1>2, <1>3

\* The words of the metadata that gs points to.
LEMMA DistanceWord ==
  ASSUME Sound, build \in {"fs_gs", "fs_gs_msr"}, ~hit
  PROVE  /\ Code!Where(Code!Gs(Code!Mem("zero", 1))) = Code!Meta + 1
         /\ Code!Mapped(Code!Meta + 1)
<1>1. Code!Where(Code!Gs(Code!Mem("zero", 1))) = gs + 1 /\ gs = Code!Meta
  BY WhereGs DEF Sound, Shape
<1>2. mem[Code!Meta + 1] = Distance /\ Distance # Code!Unmapped
  BY ReadWords, Places, Sizes DEF Sound, Code!Unmapped
<1>3. Code!Meta + 1 \in Code!Addresses
  BY Sizes, AddressesAre
<1> QED
  BY <1>1, <1>2, <1>3 DEF Code!Mapped

LEMMA GsMaskWord ==
  ASSUME Sound, build = "fs_gs_msr", ~hit
  PROVE  /\ Code!Where(Code!Gs(Code!Mem("zero", 2))) = Code!Meta + 2
         /\ Code!Mapped(Code!Meta + 2)
<1>1. Code!Where(Code!Gs(Code!Mem("zero", 2))) = gs + 2 /\ gs = Code!Meta
  BY WhereGs DEF Sound, Shape
<1>2. mem[Code!Meta + 2] # Code!Unmapped
  BY ReadWords DEF Sound, Code!Unmapped
<1>3. Code!Meta + 2 \in Code!Addresses
  BY Sizes, AddressesAre
<1> QED
  BY <1>1, <1>2, <1>3 DEF Code!Mapped

\* Behind the call rsp is one word higher.
LEMMA SlotIndexedAbove ==
  ASSUME Sound, reg["rsp"] = entry.rsp + 1, build \in {"fs_gs", "fs_gs_msr"}, reg["r10"] = Distance
  PROVE  Code!Where(Code!Idx("rsp", -1, "r10", 1)) = Code!Slot
<1>1. -1 \in Int /\ reg["rsp"] + (-1) = entry.rsp /\ reg["rsp"] \in Int
  BY Places DEF Sound
<1> QED
  BY <1>1, SlotIndexed

LEMMA SlotGsAbove ==
  ASSUME Sound, reg["rsp"] = entry.rsp + 1, build = "gs_rsp", reg["r10"] = -User
  PROVE  Code!Where(Code!Gs(Code!Idx("rsp", -1, "r10", 1))) = Code!Slot
<1>1. -1 \in Int /\ reg["rsp"] + (-1) = entry.rsp /\ reg["rsp"] \in Int
  BY Places DEF Sound
<1> QED
  BY <1>1, SlotGs

LEMMA RegCode ==
  ASSUME build = "via_reg"
  PROVE  /\ at = "prologue" => /\ Len(Code!Code) = 2
                               /\ Code!Code[1] = Code!Load(Code!Mem("rsp", 0), "rax", 0)
                               /\ Code!Code[2] = Code!Store("rax", Code!Mem("rsp", -Size), 0)
         /\ at = "epilogue" => /\ Len(Code!Code) = 3
                               /\ Code!Code[1] = Code!Load(Code!Mem("rsp", -Size), "r11", 0)
                               /\ Code!Code[2] = Code!AddI(1, "rsp")
                               /\ Code!Code[3] = Code!Jump("r11")
BY DEF Code!Code, Code!PrologueOf, Code!EpilogueOf, Code!RegIn, Code!RegOut

LEMMA RegEnds ==
  ASSUME build = "via_reg", i <= Len(Code!Code)
  PROVE  (at = "prologue" => i <= 2) /\ (at = "epilogue" => i <= 3)
<1>1. ASSUME at = "prologue" PROVE i <= 2
  <2>1. Len(Code!Code) = 2
    BY <1>1, RegCode
  <2> QED
    BY <2>1
<1>2. ASSUME at = "epilogue" PROVE i <= 3
  <2>1. Len(Code!Code) = 3
    BY <1>2, RegCode
  <2> QED
    BY <2>1
<1> QED
  BY <1>1, <1>2

LEMMA RegStep ==
  ASSUME Sound, build = "via_reg", RegAt, Code!Step, ~Stuck
  PROVE  Sound' /\ RegAt'
<1>0. /\ at \in {"prologue", "epilogue", "link"} /\ i <= Len(Code!Code)
      /\ DOMAIN reg = RegNames /\ DOMAIN mem = Code!Addresses
      /\ entry.rsp \in Nat /\ entry.ret \in Nat /\ Size \in Nat
      /\ hit' = hit /\ entry' = entry /\ linked' = linked
      /\ Code!Slot' = Code!Slot /\ Distance' = Distance
  BY Places, Sizes, StepFrame DEF Code!Step, Sound, Shape
<1>1. CASE Fresh(1)
  <2>1. at = "prologue" /\ i = 1 /\ reg["rsp"] = entry.rsp
    BY <1>0, <1>1 DEF Fresh, Point
  <2>2. ~hit => Code!Where(Code!Mem("rsp", 0)) = entry.rsp /\ Code!Mapped(entry.rsp)
    BY <1>0, <1>1, <2>1, ReturnWord
  <2>3. SetReg("rax", mem[Code!Where(Code!Mem("rsp", 0))]) /\ mem' = mem /\ Goes
    BY <1>0, <2>1, <2>2, RegCode, LoadStep DEF RegNames
  <2>4. Sound'
    BY <2>1, <2>3, SetRegSound DEF ScratchAt, Callers
  <2>5. (Fresh(2) /\ Val("rax", entry.ret))'
    BY <1>0, <1>1, <2>1, <2>2, <2>3, ReadWords DEF Fresh, Point, Val, SetReg, RegNames, Goes
  <2> QED
    BY <2>4, <2>5 DEF RegAt
<1>2. CASE Fresh(2) /\ Val("rax", entry.ret)
  <2>1. at = "prologue" /\ i = 2 /\ reg["rsp"] = entry.rsp
    BY <1>0, <1>2 DEF Fresh, Point
  <2>2. ~hit => Code!Where(Code!Mem("rsp", -Size)) = Code!Slot /\ Code!Mapped(Code!Slot)
    BY <1>0, <1>2, <2>1, SlotBelow, SlotWord
  <2>3. SetMem(Code!Where(Code!Mem("rsp", -Size)), reg["rax"]) /\ reg' = reg /\ Goes
    BY <1>0, <2>1, <2>2, RegCode, StoreStep DEF RegNames
  <2>4. Sound'
    BY <1>0, <1>2, <2>2, <2>3, SlotWord, ReadWords, SetMemSound DEF Val, Masked, Code!Unmapped
  <2>5. (Around(3) /\ Copy(entry.ret))'
    BY <1>0, <1>2, <2>1, <2>2, <2>3, SlotStored DEF Around, Fresh, Point, Val, Copy, Goes
  <2> QED
    BY <2>4, <2>5 DEF RegAt
<1>3. CASE Around(3) /\ Copy(entry.ret)
  <2>1. at = "epilogue" /\ i = 1 /\ reg["rsp"] = entry.rsp
    BY <1>0, <1>3, RegEnds DEF Around, Point
  <2>2. ~hit => Code!Where(Code!Mem("rsp", -Size)) = Code!Slot /\ Code!Mapped(Code!Slot)
    BY <1>0, <1>3, <2>1, SlotBelow, SlotWord
  <2>3. SetReg("r11", mem[Code!Where(Code!Mem("rsp", -Size))]) /\ mem' = mem /\ Goes
    BY <1>0, <2>1, <2>2, RegCode, LoadStep DEF RegNames
  <2>4. Sound'
    BY <2>1, <2>3, SetRegSound DEF ScratchAt, Callers
  <2>5. (Point("epilogue", 2, 0) /\ Val("r11", entry.ret))'
    BY <1>0, <1>3, <2>1, <2>2, <2>3, ReadWords DEF Around, Point, Val, Copy, SetReg, RegNames, Goes
  <2> QED
    BY <2>4, <2>5 DEF RegAt
<1>4. CASE Point("epilogue", 2, 0) /\ Val("r11", entry.ret)
  <2>1. at = "epilogue" /\ i = 2 /\ reg["rsp"] = entry.rsp
    BY <1>0, <1>4 DEF Point
  <2>2. SetReg("rsp", reg["rsp"] + 1) /\ mem' = mem /\ Goes
    BY <1>0, <2>1, RegCode, AddIStep DEF RegNames
  <2>3. Sound'
    BY <2>1, <2>2, SetRegSound DEF ScratchAt, Callers
  <2>4. (Point("epilogue", 3, 1) /\ Val("r11", entry.ret))'
    BY <1>0, <1>4, <2>1, <2>2 DEF Point, Val, SetReg, RegNames, Goes
  <2> QED
    BY <2>3, <2>4 DEF RegAt
<1>5. CASE Point("epilogue", 3, 1) /\ Val("r11", entry.ret)
  <2>1. at = "epilogue" /\ i = 3 /\ reg["rsp"] = entry.rsp + 1
    BY <1>0, <1>5 DEF Point
  <2>2. reg' = reg /\ Lands(reg["r11"])
    BY <2>1, RegCode, JumpStep
  <2>3. Sound'
    BY <2>1, <2>2, LandsSound
  <2>4. (Point("returned", 4, 1) /\ HomeTarget)'
    BY <1>0, <1>5, <2>1, <2>2 DEF Point, Val, HomeTarget, Lands
  <2> QED
    BY <2>3, <2>4 DEF RegAt
<1>6. CASE Point("returned", 4, 1) /\ HomeTarget
  BY <1>0, <1>6 DEF Point
<1> QED
  BY <1>1, <1>2, <1>3, <1>4, <1>5, <1>6 DEF RegAt

LEMMA GlobalCode ==
  ASSUME build = "global"
  PROVE  /\ at = "prologue" => /\ Len(Code!Code) = 3
                               /\ Code!Code[1] = Code!MovI(Code!RandomVal, "rax", 0)
                               /\ Code!Code[2] = Code!AddM(Code!Mem("rsp", 0), "rax", 0)
                               /\ Code!Code[3] = Code!Store("rax", Code!Mem("rsp", -Size), 0)
         /\ at = "epilogue" => /\ Len(Code!Code) = 4
                               /\ Code!Code[1] = Code!Load(Code!Mem("rsp", -Size), "r11", 0)
                               /\ Code!Code[2] = Code!SubI(Code!RandomVal, "r11")
                               /\ Code!Code[3] = Code!AddI(1, "rsp")
                               /\ Code!Code[4] = Code!Jump("r11")
BY DEF Code!Code, Code!PrologueOf, Code!EpilogueOf, Code!GlobalIn, Code!GlobalOut

LEMMA GlobalEnds ==
  ASSUME build = "global", i <= Len(Code!Code)
  PROVE  (at = "prologue" => i <= 3) /\ (at = "epilogue" => i <= 4)
<1>1. ASSUME at = "prologue" PROVE i <= 3
  <2>1. Len(Code!Code) = 3
    BY <1>1, GlobalCode
  <2> QED
    BY <2>1
<1>2. ASSUME at = "epilogue" PROVE i <= 4
  <2>1. Len(Code!Code) = 4
    BY <1>2, GlobalCode
  <2> QED
    BY <2>1
<1> QED
  BY <1>1, <1>2

LEMMA GlobalStep ==
  ASSUME Sound, build = "global", GlobalAt, Code!Step, ~Stuck
  PROVE  Sound' /\ GlobalAt'
<1>0. /\ at \in {"prologue", "epilogue", "link"} /\ i <= Len(Code!Code)
      /\ DOMAIN reg = RegNames /\ DOMAIN mem = Code!Addresses
      /\ entry.rsp \in Nat /\ entry.ret \in Nat /\ Size \in Nat
      /\ hit' = hit /\ entry' = entry /\ linked' = linked
      /\ Code!Slot' = Code!Slot /\ Distance' = Distance
  BY Places, Sizes, StepFrame DEF Code!Step, Sound, Shape
<1>1. CASE Fresh(1)
  <2>1. at = "prologue" /\ i = 1 /\ reg["rsp"] = entry.rsp
    BY <1>0, <1>1 DEF Fresh, Point
  <2>2. SetReg("rax", Code!RandomVal) /\ mem' = mem /\ Goes
    BY <1>0, <2>1, GlobalCode, MovIStep DEF RegNames
  <2>3. Sound'
    BY <2>1, <2>2, SetRegSound DEF ScratchAt, Callers
  <2>4. (Fresh(2) /\ Val("rax", Code!RandomVal))'
    BY <1>0, <1>1, <2>1, <2>2 DEF Fresh, Point, Val, SetReg, RegNames, Goes
  <2> QED
    BY <2>3, <2>4 DEF GlobalAt
<1>2. CASE Fresh(2) /\ Val("rax", Code!RandomVal)
  <2>1. at = "prologue" /\ i = 2 /\ reg["rsp"] = entry.rsp
    BY <1>0, <1>2 DEF Fresh, Point
  <2>2. ~hit => Code!Where(Code!Mem("rsp", 0)) = entry.rsp /\ Code!Mapped(entry.rsp)
    BY <1>0, <1>2, <2>1, ReturnWord
  <2>3. SetReg("rax", reg["rax"] + mem[Code!Where(Code!Mem("rsp", 0))]) /\ mem' = mem /\ Goes
    BY <1>0, <2>1, <2>2, GlobalCode, AddMStep DEF RegNames
  <2>4. Sound'
    BY <2>1, <2>3, SetRegSound DEF ScratchAt, Callers
  <2>5. (Fresh(3) /\ Val("rax", Code!RandomVal + entry.ret))'
    BY <1>0, <1>2, <2>1, <2>2, <2>3, ReadWords DEF Fresh, Point, Val, SetReg, RegNames, Goes
  <2> QED
    BY <2>4, <2>5 DEF GlobalAt
<1>3. CASE Fresh(3) /\ Val("rax", Code!RandomVal + entry.ret)
  <2>1. at = "prologue" /\ i = 3 /\ reg["rsp"] = entry.rsp
    BY <1>0, <1>3 DEF Fresh, Point
  <2>2. ~hit => Code!Where(Code!Mem("rsp", -Size)) = Code!Slot /\ Code!Mapped(Code!Slot)
    BY <1>0, <1>3, <2>1, SlotBelow, SlotWord
  <2>3. SetMem(Code!Where(Code!Mem("rsp", -Size)), reg["rax"]) /\ reg' = reg /\ Goes
    BY <1>0, <2>1, <2>2, GlobalCode, StoreStep DEF RegNames
  <2>4. Sound'
    BY <1>0, <1>3, <2>2, <2>3, SlotWord, ReadWords, SetMemSound
       DEF Val, Masked, Code!Unmapped, Code!RandomVal
  <2>5. (Around(4) /\ Copy(Code!RandomVal + entry.ret))'
    BY <1>0, <1>3, <2>1, <2>2, <2>3, SlotStored DEF Around, Fresh, Point, Val, Copy, Goes
  <2> QED
    BY <2>4, <2>5 DEF GlobalAt
<1>4. CASE Around(4) /\ Copy(Code!RandomVal + entry.ret)
  <2>1. at = "epilogue" /\ i = 1 /\ reg["rsp"] = entry.rsp
    BY <1>0, <1>4, GlobalEnds DEF Around, Point
  <2>2. ~hit => Code!Where(Code!Mem("rsp", -Size)) = Code!Slot /\ Code!Mapped(Code!Slot)
    BY <1>0, <1>4, <2>1, SlotBelow, SlotWord
  <2>3. SetReg("r11", mem[Code!Where(Code!Mem("rsp", -Size))]) /\ mem' = mem /\ Goes
    BY <1>0, <2>1, <2>2, GlobalCode, LoadStep DEF RegNames
  <2>4. Sound'
    BY <2>1, <2>3, SetRegSound DEF ScratchAt, Callers
  <2>5. (Point("epilogue", 2, 0) /\ Val("r11", Code!RandomVal + entry.ret))'
    BY <1>0, <1>4, <2>1, <2>2, <2>3, ReadWords DEF Around, Point, Val, Copy, SetReg, RegNames, Goes
  <2> QED
    BY <2>4, <2>5 DEF GlobalAt
<1>5. CASE Point("epilogue", 2, 0) /\ Val("r11", Code!RandomVal + entry.ret)
  <2>1. at = "epilogue" /\ i = 2 /\ reg["rsp"] = entry.rsp
    BY <1>0, <1>5 DEF Point
  <2>2. SetReg("r11", reg["r11"] + (-Code!RandomVal)) /\ mem' = mem /\ Goes
    BY <1>0, <2>1, GlobalCode, SubIStep DEF RegNames
  <2>3. Sound'
    BY <2>1, <2>2, SetRegSound DEF ScratchAt, Callers
  <2>4. (Point("epilogue", 3, 0) /\ Val("r11", entry.ret))'
    BY <1>0, <1>5, <2>1, <2>2 DEF Point, Val, SetReg, RegNames, Goes, Code!RandomVal
  <2> QED
    BY <2>3, <2>4 DEF GlobalAt
<1>6. CASE Point("epilogue", 3, 0) /\ Val("r11", entry.ret)
  <2>1. at = "epilogue" /\ i = 3 /\ reg["rsp"] = entry.rsp
    BY <1>0, <1>6 DEF Point
  <2>2. SetReg("rsp", reg["rsp"] + 1) /\ mem' = mem /\ Goes
    BY <1>0, <2>1, GlobalCode, AddIStep DEF RegNames
  <2>3. Sound'
    BY <2>1, <2>2, SetRegSound DEF ScratchAt, Callers
  <2>4. (Point("epilogue", 4, 1) /\ Val("r11", entry.ret))'
    BY <1>0, <1>6, <2>1, <2>2 DEF Point, Val, SetReg, RegNames, Goes
  <2> QED
    BY <2>3, <2>4 DEF GlobalAt
<1>7. CASE Point("epilogue", 4, 1) /\ Val("r11", entry.ret)
  <2>1. at = "epilogue" /\ i = 4 /\ reg["rsp"] = entry.rsp + 1
    BY <1>0, <1>7 DEF Point
  <2>2. reg' = reg /\ Lands(reg["r11"])
    BY <2>1, GlobalCode, JumpStep
  <2>3. Sound'
    BY <2>1, <2>2, LandsSound
  <2>4. (Point("returned", 5, 1) /\ HomeTarget)'
    BY <1>0, <1>7, <2>1, <2>2 DEF Point, Val, HomeTarget, Lands
  <2> QED
    BY <2>3, <2>4 DEF GlobalAt
<1>8. CASE Point("returned", 5, 1) /\ HomeTarget
  BY <1>0, <1>8 DEF Point
<1> QED
  BY <1>1, <1>2, <1>3, <1>4, <1>5, <1>6, <1>7, <1>8 DEF GlobalAt

LEMMA BuddyCode ==
  ASSUME build = "buddy_tls"
  PROVE  /\ at = "prologue" => /\ Len(Code!Code) = 5
                               /\ Code!Code[1] = Code!Mov("rsp", "r11")
                               /\ Code!Code[2] = Code!AndI(-Size, "r11")
                               /\ Code!Code[3] = Code!Load(Code!Mem("r11", -2 * Size), "r11", 0)
                               /\ Code!Code[4] = Code!AddM(Code!Mem("rsp", 0), "r11", 0)
                               /\ Code!Code[5] = Code!Store("r11", Code!Mem("rsp", -Size), 0)
         /\ at = "epilogue" => /\ Len(Code!Code) = 6
                               /\ Code!Code[1] = Code!Mov("rsp", "r10")
                               /\ Code!Code[2] = Code!AndI(-Size, "r10")
                               /\ Code!Code[3] = Code!Load(Code!Mem("rsp", -Size), "r11", 0)
                               /\ Code!Code[4] = Code!SubM(Code!Mem("r10", -2 * Size), "r11")
                               /\ Code!Code[5] = Code!AddI(1, "rsp")
                               /\ Code!Code[6] = Code!Jump("r11")
BY DEF Code!Code, Code!PrologueOf, Code!EpilogueOf, Code!BuddyIn, Code!BuddyOut

LEMMA BuddyEnds ==
  ASSUME build = "buddy_tls", i <= Len(Code!Code)
  PROVE  (at = "prologue" => i <= 5) /\ (at = "epilogue" => i <= 6)
<1>1. ASSUME at = "prologue" PROVE i <= 5
  <2>1. Len(Code!Code) = 5
    BY <1>1, BuddyCode
  <2> QED
    BY <2>1
<1>2. ASSUME at = "epilogue" PROVE i <= 6
  <2>1. Len(Code!Code) = 6
    BY <1>2, BuddyCode
  <2> QED
    BY <2>1
<1> QED
  BY <1>1, <1>2

LEMMA BuddyStep ==
  ASSUME Sound, build = "buddy_tls", BuddyAt, Code!Step, ~Stuck
  PROVE  Sound' /\ BuddyAt'
<1>0. /\ at \in {"prologue", "epilogue", "link"} /\ i <= Len(Code!Code)
      /\ DOMAIN reg = RegNames /\ DOMAIN mem = Code!Addresses
      /\ entry.rsp \in Nat /\ entry.ret \in Nat /\ Size \in Nat
      /\ hit' = hit /\ entry' = entry /\ linked' = linked
      /\ Code!Slot' = Code!Slot /\ Distance' = Distance
  BY Places, Sizes, StepFrame DEF Code!Step, Sound, Shape
<1>1. CASE Fresh(1)
  <2>1. at = "prologue" /\ i = 1 /\ reg["rsp"] = entry.rsp
    BY <1>0, <1>1 DEF Fresh, Point
  <2>2. SetReg("r11", reg["rsp"]) /\ mem' = mem /\ Goes
    BY <1>0, <2>1, BuddyCode, MovStep DEF RegNames
  <2>3. Sound'
    BY <2>1, <2>2, SetRegSound DEF ScratchAt, Callers
  <2>4. (Fresh(2) /\ Val("r11", entry.rsp))'
    BY <1>0, <1>1, <2>1, <2>2 DEF Fresh, Point, Val, SetReg, RegNames, Goes
  <2> QED
    BY <2>3, <2>4 DEF BuddyAt
<1>2. CASE Fresh(2) /\ Val("r11", entry.rsp)
  <2>1. at = "prologue" /\ i = 2 /\ reg["rsp"] = entry.rsp
    BY <1>0, <1>2 DEF Fresh, Point
  <2>2. SetReg("r11", Code!Round(reg["r11"], -Size)) /\ mem' = mem /\ Goes
    BY <1>0, <2>1, BuddyCode, AndIStep DEF RegNames
  <2>3. Sound'
    BY <2>1, <2>2, SetRegSound DEF ScratchAt, Callers
  <2>4. (Fresh(3) /\ Val("r11", 2 * Size))'
    BY <1>0, <1>2, <2>1, <2>2, RoundEntry DEF Fresh, Point, Val, SetReg, RegNames, Goes
  <2> QED
    BY <2>3, <2>4 DEF BuddyAt
<1>3. CASE Fresh(3) /\ Val("r11", 2 * Size)
  <2>1. at = "prologue" /\ i = 3 /\ reg["rsp"] = entry.rsp
    BY <1>0, <1>3 DEF Fresh, Point
  <2>2. ~hit => Code!Where(Code!Mem("r11", -2 * Size)) = 0 /\ Code!Mapped(0)
    BY <1>0, <1>3, <2>1, MaskWord DEF Val
  <2>3. SetReg("r11", mem[Code!Where(Code!Mem("r11", -2 * Size))]) /\ mem' = mem /\ Goes
    BY <1>0, <2>1, <2>2, BuddyCode, LoadStep DEF RegNames
  <2>4. Sound'
    BY <2>1, <2>3, SetRegSound DEF ScratchAt, Callers
  <2>5. (Fresh(4) /\ Val("r11", mem[0]))'
    BY <1>0, <1>3, <2>1, <2>2, <2>3, ReadWords DEF Fresh, Point, Val, SetReg, RegNames, Goes
  <2> QED
    BY <2>4, <2>5 DEF BuddyAt
<1>4. CASE Fresh(4) /\ Val("r11", mem[0])
  <2>1. at = "prologue" /\ i = 4 /\ reg["rsp"] = entry.rsp
    BY <1>0, <1>4 DEF Fresh, Point
  <2>2. ~hit => Code!Where(Code!Mem("rsp", 0)) = entry.rsp /\ Code!Mapped(entry.rsp)
    BY <1>0, <1>4, <2>1, ReturnWord
  <2>3. SetReg("r11", reg["r11"] + mem[Code!Where(Code!Mem("rsp", 0))]) /\ mem' = mem /\ Goes
    BY <1>0, <2>1, <2>2, BuddyCode, AddMStep DEF RegNames
  <2>4. Sound'
    BY <2>1, <2>3, SetRegSound DEF ScratchAt, Callers
  <2>5. (Fresh(5) /\ Val("r11", mem[0] + entry.ret))'
    BY <1>0, <1>4, <2>1, <2>2, <2>3, ReadWords DEF Fresh, Point, Val, SetReg, RegNames, Goes
  <2> QED
    BY <2>4, <2>5 DEF BuddyAt
<1>5. CASE Fresh(5) /\ Val("r11", mem[0] + entry.ret)
  <2>1. at = "prologue" /\ i = 5 /\ reg["rsp"] = entry.rsp
    BY <1>0, <1>5 DEF Fresh, Point
  <2>2. ~hit => Code!Where(Code!Mem("rsp", -Size)) = Code!Slot /\ Code!Mapped(Code!Slot)
    BY <1>0, <1>5, <2>1, SlotBelow, SlotWord
  <2>3. SetMem(Code!Where(Code!Mem("rsp", -Size)), reg["r11"]) /\ reg' = reg /\ Goes
    BY <1>0, <2>1, <2>2, BuddyCode, StoreStep DEF RegNames
  <2>4. Sound'
    BY <1>0, <1>5, <2>2, <2>3, SlotWord, ReadWords, SetMemSound DEF Val, Masked, Code!Unmapped
  <2>5. (Around(6) /\ Copy(mem[0] + entry.ret))'
    BY <1>0, <1>5, <2>1, <2>2, <2>3, SlotStored DEF Around, Fresh, Point, Val, Copy, Goes
  <2> QED
    BY <2>4, <2>5 DEF BuddyAt
<1>6. CASE Around(6) /\ Copy(mem[0] + entry.ret)
  <2>1. at = "epilogue" /\ i = 1 /\ reg["rsp"] = entry.rsp
    BY <1>0, <1>6, BuddyEnds DEF Around, Point
  <2>2. SetReg("r10", reg["rsp"]) /\ mem' = mem /\ Goes
    BY <1>0, <2>1, BuddyCode, MovStep DEF RegNames
  <2>3. Sound'
    BY <2>1, <2>2, SetRegSound DEF ScratchAt, Callers
  <2>4. (Point("epilogue", 2, 0) /\ Copy(mem[0] + entry.ret) /\ Val("r10", entry.rsp))'
    BY <1>0, <1>6, <2>1, <2>2 DEF Around, Point, Val, Copy, SetReg, RegNames, Goes
  <2> QED
    BY <2>3, <2>4 DEF BuddyAt
<1>7. CASE Point("epilogue", 2, 0) /\ Copy(mem[0] + entry.ret) /\ Val("r10", entry.rsp)
  <2>1. at = "epilogue" /\ i = 2 /\ reg["rsp"] = entry.rsp
    BY <1>0, <1>7 DEF Point
  <2>2. SetReg("r10", Code!Round(reg["r10"], -Size)) /\ mem' = mem /\ Goes
    BY <1>0, <2>1, BuddyCode, AndIStep DEF RegNames
  <2>3. Sound'
    BY <2>1, <2>2, SetRegSound DEF ScratchAt, Callers
  <2>4. (Point("epilogue", 3, 0) /\ Copy(mem[0] + entry.ret) /\ Val("r10", 2 * Size))'
    BY <1>0, <1>7, <2>1, <2>2, RoundEntry DEF Point, Val, Copy, SetReg, RegNames, Goes
  <2> QED
    BY <2>3, <2>4 DEF BuddyAt
<1>8. CASE Point("epilogue", 3, 0) /\ Copy(mem[0] + entry.ret) /\ Val("r10", 2 * Size)
  <2>1. at = "epilogue" /\ i = 3 /\ reg["rsp"] = entry.rsp
    BY <1>0, <1>8 DEF Point
  <2>2. ~hit => Code!Where(Code!Mem("rsp", -Size)) = Code!Slot /\ Code!Mapped(Code!Slot)
    BY <1>0, <1>8, <2>1, SlotBelow, SlotWord
  <2>3. SetReg("r11", mem[Code!Where(Code!Mem("rsp", -Size))]) /\ mem' = mem /\ Goes
    BY <1>0, <2>1, <2>2, BuddyCode, LoadStep DEF RegNames
  <2>4. Sound'
    BY <2>1, <2>3, SetRegSound DEF ScratchAt, Callers
  <2>5. (Point("epilogue", 4, 0) /\ Copy(mem[0] + entry.ret) /\ Val("r10", 2 * Size)
        /\ Val("r11", mem[0] + entry.ret))'
    BY <1>0, <1>8, <2>1, <2>2, <2>3, ReadWords DEF Point, Val, Copy, SetReg, RegNames, Goes
  <2> QED
    BY <2>4, <2>5 DEF BuddyAt
<1>9. CASE Point("epilogue", 4, 0) /\ Copy(mem[0] + entry.ret) /\ Val("r10", 2 * Size)
           /\ Val("r11", mem[0] + entry.ret)
  <2>1. at = "epilogue" /\ i = 4 /\ reg["rsp"] = entry.rsp
    BY <1>0, <1>9 DEF Point
  <2>2. ~hit => Code!Where(Code!Mem("r10", -2 * Size)) = 0 /\ Code!Mapped(0)
    BY <1>0, <1>9, <2>1, MaskWord DEF Val
  <2>3. SetReg("r11", reg["r11"] - mem[Code!Where(Code!Mem("r10", -2 * Size))]) /\ mem' = mem
        /\ Goes
    BY <1>0, <2>1, <2>2, BuddyCode, SubMStep DEF RegNames
  <2>4. Sound'
    BY <2>1, <2>3, SetRegSound DEF ScratchAt, Callers
  <2>5. (Point("epilogue", 5, 0) /\ Copy(mem[0] + entry.ret) /\ Val("r11", entry.ret))'
    BY <1>0, <1>9, <2>1, <2>2, <2>3, ReadWords DEF Point, Val, Copy, SetReg, RegNames, Goes
  <2> QED
    BY <2>4, <2>5 DEF BuddyAt
<1>10. CASE Point("epilogue", 5, 0) /\ Copy(mem[0] + entry.ret) /\ Val("r11", entry.ret)
  <2>1. at = "epilogue" /\ i = 5 /\ reg["rsp"] = entry.rsp
    BY <1>0, <1>10 DEF Point
  <2>2. SetReg("rsp", reg["rsp"] + 1) /\ mem' = mem /\ Goes
    BY <1>0, <2>1, BuddyCode, AddIStep DEF RegNames
  <2>3. Sound'
    BY <2>1, <2>2, SetRegSound DEF ScratchAt, Callers
  <2>4. (Point("epilogue", 6, 1) /\ Copy(mem[0] + entry.ret) /\ Val("r11", entry.ret))'
    BY <1>0, <1>10, <2>1, <2>2 DEF Point, Val, Copy, SetReg, RegNames, Goes
  <2> QED
    BY <2>3, <2>4 DEF BuddyAt
<1>11. CASE Point("epilogue", 6, 1) /\ Copy(mem[0] + entry.ret) /\ Val("r11", entry.ret)
  <2>1. at = "epilogue" /\ i = 6 /\ reg["rsp"] = entry.rsp + 1
    BY <1>0, <1>11 DEF Point
  <2>2. reg' = reg /\ Lands(reg["r11"])
    BY <2>1, BuddyCode, JumpStep
  <2>3. Sound'
    BY <2>1, <2>2, LandsSound
  <2>4. (Point("returned", 7, 1) /\ HomeTarget)'
    BY <1>0, <1>11, <2>1, <2>2 DEF Point, Val, Copy, HomeTarget, Lands
  <2> QED
    BY <2>3, <2>4 DEF BuddyAt
<1>12. CASE Point("returned", 7, 1) /\ HomeTarget
  BY <1>0, <1>12 DEF Point
<1> QED
  BY <1>1, <1>2, <1>3, <1>4, <1>5, <1>6, <1>7, <1>8, <1>9, <1>10, <1>11, <1>12 DEF BuddyAt

LEMMA SizeCode ==
  ASSUME build = "buddy_size"
  PROVE  /\ at = "prologue" => /\ Len(Code!Code) = 7
                               /\ Code!Code[1] = Code!Mov("rsp", "r11")
                               /\ Code!Code[2] = Code!MovI(Code!MaskVar, "r10", 0)
                               /\ Code!Code[3] = Code!Load(Code!Mem("r10", 0), "r10", 0)
                               /\ Code!Code[4] = Code!And("r10", "r11")
                               /\ Code!Code[5] = Code!Load(Code!Idx("r11", 0, "r10", 2), "r11", 0)
                               /\ Code!Code[6] = Code!AddM(Code!Mem("rsp", 0), "r11", 0)
                               /\ Code!Code[7] = Code!Store("r11", Code!Idx("rsp", 0, "r10", 1), 0)
         /\ at = "epilogue" => /\ Len(Code!Code) = 9
                               /\ Code!Code[1] = Code!Mov("rsp", "r11")
                               /\ Code!Code[2] = Code!MovI(Code!MaskVar, "r10", 0)
                               /\ Code!Code[3] = Code!Load(Code!Mem("r10", 0), "r10", 0)
                               /\ Code!Code[4] = Code!And("r10", "r11")
                               /\ Code!Code[5] = Code!Load(Code!Idx("r11", 0, "r10", 2), "r11", 0)
                               /\ Code!Code[6] = Code!Load(Code!Idx("rsp", 0, "r10", 1), "r10", 0)
                               /\ Code!Code[7] = Code!Sub("r11", "r10")
                               /\ Code!Code[8] = Code!AddI(1, "rsp")
                               /\ Code!Code[9] = Code!Jump("r10")
BY DEF Code!Code, Code!PrologueOf, Code!EpilogueOf, Code!SizeIn, Code!SizeOut

LEMMA SizeEnds ==
  ASSUME build = "buddy_size", i <= Len(Code!Code)
  PROVE  (at = "prologue" => i <= 7) /\ (at = "epilogue" => i <= 9)
<1>1. ASSUME at = "prologue" PROVE i <= 7
  <2>1. Len(Code!Code) = 7
    BY <1>1, SizeCode
  <2> QED
    BY <2>1
<1>2. ASSUME at = "epilogue" PROVE i <= 9
  <2>1. Len(Code!Code) = 9
    BY <1>2, SizeCode
  <2> QED
    BY <2>1
<1> QED
  BY <1>1, <1>2

LEMMA SizeStep ==
  ASSUME Sound, build = "buddy_size", SizeAt, Code!Step, ~Stuck
  PROVE  Sound' /\ SizeAt'
<1>0. /\ at \in {"prologue", "epilogue", "link"} /\ i <= Len(Code!Code)
      /\ DOMAIN reg = RegNames /\ DOMAIN mem = Code!Addresses
      /\ entry.rsp \in Nat /\ entry.ret \in Nat /\ Size \in Nat
      /\ hit' = hit /\ entry' = entry /\ linked' = linked
      /\ Code!Slot' = Code!Slot /\ Distance' = Distance
  BY Places, Sizes, StepFrame DEF Code!Step, Sound, Shape
<1>1. CASE Fresh(1)
  <2>1. at = "prologue" /\ i = 1 /\ reg["rsp"] = entry.rsp
    BY <1>0, <1>1 DEF Fresh, Point
  <2>2. SetReg("r11", reg["rsp"]) /\ mem' = mem /\ Goes
    BY <1>0, <2>1, SizeCode, MovStep DEF RegNames
  <2>3. Sound'
    BY <2>1, <2>2, SetRegSound DEF ScratchAt, Callers
  <2>4. (Fresh(2) /\ Val("r11", entry.rsp))'
    BY <1>0, <1>1, <2>1, <2>2 DEF Fresh, Point, Val, SetReg, RegNames, Goes
  <2> QED
    BY <2>3, <2>4 DEF SizeAt
<1>2. CASE Fresh(2) /\ Val("r11", entry.rsp)
  <2>1. at = "prologue" /\ i = 2 /\ reg["rsp"] = entry.rsp
    BY <1>0, <1>2 DEF Fresh, Point
  <2>2. SetReg("r10", Code!MaskVar) /\ mem' = mem /\ Goes
    BY <1>0, <2>1, SizeCode, MovIStep DEF RegNames
  <2>3. Sound'
    BY <2>1, <2>2, SetRegSound DEF ScratchAt, Callers
  <2>4. (Fresh(3) /\ Val("r11", entry.rsp) /\ Val("r10", Code!MaskVar))'
    BY <1>0, <1>2, <2>1, <2>2 DEF Fresh, Point, Val, SetReg, RegNames, Goes
  <2> QED
    BY <2>3, <2>4 DEF SizeAt
<1>3. CASE Fresh(3) /\ Val("r11", entry.rsp) /\ Val("r10", Code!MaskVar)
  <2>1. at = "prologue" /\ i = 3 /\ reg["rsp"] = entry.rsp
    BY <1>0, <1>3 DEF Fresh, Point
  <2>2. ~hit => Code!Where(Code!Mem("r10", 0)) = Code!MaskVar /\ Code!Mapped(Code!MaskVar)
    BY <1>0, <1>3, <2>1, SizeWord DEF Val
  <2>3. SetReg("r10", mem[Code!Where(Code!Mem("r10", 0))]) /\ mem' = mem /\ Goes
    BY <1>0, <2>1, <2>2, SizeCode, LoadStep DEF RegNames
  <2>4. Sound'
    BY <2>1, <2>3, SetRegSound DEF ScratchAt, Callers
  <2>5. (Fresh(4) /\ Val("r11", entry.rsp) /\ Val("r10", -Size))'
    BY <1>0, <1>3, <2>1, <2>2, <2>3, ReadWords DEF Fresh, Point, Val, SetReg, RegNames, Goes
  <2> QED
    BY <2>4, <2>5 DEF SizeAt
<1>4. CASE Fresh(4) /\ Val("r11", entry.rsp) /\ Val("r10", -Size)
  <2>1. at = "prologue" /\ i = 4 /\ reg["rsp"] = entry.rsp
    BY <1>0, <1>4 DEF Fresh, Point
  <2>2. SetReg("r11", Code!Round(reg["r11"], reg["r10"])) /\ mem' = mem /\ Goes
    BY <1>0, <2>1, SizeCode, AndStep DEF RegNames
  <2>3. Sound'
    BY <2>1, <2>2, SetRegSound DEF ScratchAt, Callers
  <2>4. (Fresh(5) /\ Val("r11", 2 * Size) /\ Val("r10", -Size))'
    BY <1>0, <1>4, <2>1, <2>2, RoundEntry DEF Fresh, Point, Val, SetReg, RegNames, Goes
  <2> QED
    BY <2>3, <2>4 DEF SizeAt
<1>5. CASE Fresh(5) /\ Val("r11", 2 * Size) /\ Val("r10", -Size)
  <2>1. at = "prologue" /\ i = 5 /\ reg["rsp"] = entry.rsp
    BY <1>0, <1>5 DEF Fresh, Point
  <2>2. ~hit => Code!Where(Code!Idx("r11", 0, "r10", 2)) = 0 /\ Code!Mapped(0)
    BY <1>0, <1>5, <2>1, MaskIndexed DEF Val
  <2>3. SetReg("r11", mem[Code!Where(Code!Idx("r11", 0, "r10", 2))]) /\ mem' = mem /\ Goes
    BY <1>0, <2>1, <2>2, SizeCode, LoadStep DEF RegNames
  <2>4. Sound'
    BY <2>1, <2>3, SetRegSound DEF ScratchAt, Callers
  <2>5. (Fresh(6) /\ Val("r11", mem[0]) /\ Val("r10", -Size))'
    BY <1>0, <1>5, <2>1, <2>2, <2>3, ReadWords DEF Fresh, Point, Val, SetReg, RegNames, Goes
  <2> QED
    BY <2>4, <2>5 DEF SizeAt
<1>6. CASE Fresh(6) /\ Val("r11", mem[0]) /\ Val("r10", -Size)
  <2>1. at = "prologue" /\ i = 6 /\ reg["rsp"] = entry.rsp
    BY <1>0, <1>6 DEF Fresh, Point
  <2>2. ~hit => Code!Where(Code!Mem("rsp", 0)) = entry.rsp /\ Code!Mapped(entry.rsp)
    BY <1>0, <1>6, <2>1, ReturnWord
  <2>3. SetReg("r11", reg["r11"] + mem[Code!Where(Code!Mem("rsp", 0))]) /\ mem' = mem /\ Goes
    BY <1>0, <2>1, <2>2, SizeCode, AddMStep DEF RegNames
  <2>4. Sound'
    BY <2>1, <2>3, SetRegSound DEF ScratchAt, Callers
  <2>5. (Fresh(7) /\ Val("r11", mem[0] + entry.ret) /\ Val("r10", -Size))'
    BY <1>0, <1>6, <2>1, <2>2, <2>3, ReadWords DEF Fresh, Point, Val, SetReg, RegNames, Goes
  <2> QED
    BY <2>4, <2>5 DEF SizeAt
<1>7. CASE Fresh(7) /\ Val("r11", mem[0] + entry.ret) /\ Val("r10", -Size)
  <2>1. at = "prologue" /\ i = 7 /\ reg["rsp"] = entry.rsp
    BY <1>0, <1>7 DEF Fresh, Point
  <2>2. ~hit => Code!Where(Code!Idx("rsp", 0, "r10", 1)) = Code!Slot /\ Code!Mapped(Code!Slot)
    BY <1>0, <1>7, <2>1, SlotIndexed, SlotWord DEF Val
  <2>3. SetMem(Code!Where(Code!Idx("rsp", 0, "r10", 1)), reg["r11"]) /\ reg' = reg /\ Goes
    BY <1>0, <2>1, <2>2, SizeCode, StoreStep DEF RegNames
  <2>4. Sound'
    BY <1>0, <1>7, <2>2, <2>3, SlotWord, ReadWords, SetMemSound DEF Val, Masked, Code!Unmapped
  <2>5. (Around(8) /\ Copy(mem[0] + entry.ret))'
    BY <1>0, <1>7, <2>1, <2>2, <2>3, SlotStored DEF Around, Fresh, Point, Val, Copy, Goes
  <2> QED
    BY <2>4, <2>5 DEF SizeAt
<1>8. CASE Around(8) /\ Copy(mem[0] + entry.ret)
  <2>1. at = "epilogue" /\ i = 1 /\ reg["rsp"] = entry.rsp
    BY <1>0, <1>8, SizeEnds DEF Around, Point
  <2>2. SetReg("r11", reg["rsp"]) /\ mem' = mem /\ Goes
    BY <1>0, <2>1, SizeCode, MovStep DEF RegNames
  <2>3. Sound'
    BY <2>1, <2>2, SetRegSound DEF ScratchAt, Callers
  <2>4. (Point("epilogue", 2, 0) /\ Copy(mem[0] + entry.ret) /\ Val("r11", entry.rsp))'
    BY <1>0, <1>8, <2>1, <2>2 DEF Around, Point, Val, Copy, SetReg, RegNames, Goes
  <2> QED
    BY <2>3, <2>4 DEF SizeAt
<1>9. CASE Point("epilogue", 2, 0) /\ Copy(mem[0] + entry.ret) /\ Val("r11", entry.rsp)
  <2>1. at = "epilogue" /\ i = 2 /\ reg["rsp"] = entry.rsp
    BY <1>0, <1>9 DEF Point
  <2>2. SetReg("r10", Code!MaskVar) /\ mem' = mem /\ Goes
    BY <1>0, <2>1, SizeCode, MovIStep DEF RegNames
  <2>3. Sound'
    BY <2>1, <2>2, SetRegSound DEF ScratchAt, Callers
  <2>4. (Point("epilogue", 3, 0) /\ Copy(mem[0] + entry.ret) /\ Val("r11", entry.rsp)
        /\ Val("r10", Code!MaskVar))'
    BY <1>0, <1>9, <2>1, <2>2 DEF Point, Val, Copy, SetReg, RegNames, Goes
  <2> QED
    BY <2>3, <2>4 DEF SizeAt
<1>10. CASE Point("epilogue", 3, 0) /\ Copy(mem[0] + entry.ret) /\ Val("r11", entry.rsp)
            /\ Val("r10", Code!MaskVar)
  <2>1. at = "epilogue" /\ i = 3 /\ reg["rsp"] = entry.rsp
    BY <1>0, <1>10 DEF Point
  <2>2. ~hit => Code!Where(Code!Mem("r10", 0)) = Code!MaskVar /\ Code!Mapped(Code!MaskVar)
    BY <1>0, <1>10, <2>1, SizeWord DEF Val
  <2>3. SetReg("r10", mem[Code!Where(Code!Mem("r10", 0))]) /\ mem' = mem /\ Goes
    BY <1>0, <2>1, <2>2, SizeCode, LoadStep DEF RegNames
  <2>4. Sound'
    BY <2>1, <2>3, SetRegSound DEF ScratchAt, Callers
  <2>5. (Point("epilogue", 4, 0) /\ Copy(mem[0] + entry.ret) /\ Val("r11", entry.rsp)
        /\ Val("r10", -Size))'
    BY <1>0, <1>10, <2>1, <2>2, <2>3, ReadWords DEF Point, Val, Copy, SetReg, RegNames, Goes
  <2> QED
    BY <2>4, <2>5 DEF SizeAt
<1>11. CASE Point("epilogue", 4, 0) /\ Copy(mem[0] + entry.ret) /\ Val("r11", entry.rsp)
            /\ Val("r10", -Size)
  <2>1. at = "epilogue" /\ i = 4 /\ reg["rsp"] = entry.rsp
    BY <1>0, <1>11 DEF Point
  <2>2. SetReg("r11", Code!Round(reg["r11"], reg["r10"])) /\ mem' = mem /\ Goes
    BY <1>0, <2>1, SizeCode, AndStep DEF RegNames
  <2>3. Sound'
    BY <2>1, <2>2, SetRegSound DEF ScratchAt, Callers
  <2>4. (Point("epilogue", 5, 0) /\ Copy(mem[0] + entry.ret) /\ Val("r11", 2 * Size)
        /\ Val("r10", -Size))'
    BY <1>0, <1>11, <2>1, <2>2, RoundEntry DEF Point, Val, Copy, SetReg, RegNames, Goes
  <2> QED
    BY <2>3, <2>4 DEF SizeAt
<1>12. CASE Point("epilogue", 5, 0) /\ Copy(mem[0] + entry.ret) /\ Val("r11", 2 * Size)
            /\ Val("r10", -Size)
  <2>1. at = "epilogue" /\ i = 5 /\ reg["rsp"] = entry.rsp
    BY <1>0, <1>12 DEF Point
  <2>2. ~hit => Code!Where(Code!Idx("r11", 0, "r10", 2)) = 0 /\ Code!Mapped(0)
    BY <1>0, <1>12, <2>1, MaskIndexed DEF Val
  <2>3. SetReg("r11", mem[Code!Where(Code!Idx("r11", 0, "r10", 2))]) /\ mem' = mem /\ Goes
    BY <1>0, <2>1, <2>2, SizeCode, LoadStep DEF RegNames
  <2>4. Sound'
    BY <2>1, <2>3, SetRegSound DEF ScratchAt, Callers
  <2>5. (Point("epilogue", 6, 0) /\ Copy(mem[0] + entry.ret) /\ Val("r11", mem[0])
        /\ Val("r10", -Size))'
    BY <1>0, <1>12, <2>1, <2>2, <2>3, ReadWords DEF Point, Val, Copy, SetReg, RegNames, Goes
  <2> QED
    BY <2>4, <2>5 DEF SizeAt
<1>13. CASE Point("epilogue", 6, 0) /\ Copy(mem[0] + entry.ret) /\ Val("r11", mem[0])
            /\ Val("r10", -Size)
  <2>1. at = "epilogue" /\ i = 6 /\ reg["rsp"] = entry.rsp
    BY <1>0, <1>13 DEF Point
  <2>2. ~hit => Code!Where(Code!Idx("rsp", 0, "r10", 1)) = Code!Slot /\ Code!Mapped(Code!Slot)
    BY <1>0, <1>13, <2>1, SlotIndexed, SlotWord DEF Val
  <2>3. SetReg("r10", mem[Code!Where(Code!Idx("rsp", 0, "r10", 1))]) /\ mem' = mem /\ Goes
    BY <1>0, <2>1, <2>2, SizeCode, LoadStep DEF RegNames
  <2>4. Sound'
    BY <2>1, <2>3, SetRegSound DEF ScratchAt, Callers
  <2>5. (Point("epilogue", 7, 0) /\ Copy(mem[0] + entry.ret) /\ Both)'
    BY <1>0, <1>13, <2>1, <2>2, <2>3, ReadWords DEF Point, Val, Copy, Both, SetReg, RegNames, Goes
  <2> QED
    BY <2>4, <2>5 DEF SizeAt
<1>14. CASE Point("epilogue", 7, 0) /\ Copy(mem[0] + entry.ret) /\ Both
  <2>1. at = "epilogue" /\ i = 7 /\ reg["rsp"] = entry.rsp
    BY <1>0, <1>14 DEF Point
  <2>2. SetReg("r10", reg["r10"] - reg["r11"]) /\ mem' = mem /\ Goes
    BY <1>0, <2>1, SizeCode, SubStep DEF RegNames
  <2>3. Sound'
    BY <2>1, <2>2, SetRegSound DEF ScratchAt, Callers
  <2>4. (Point("epilogue", 8, 0) /\ Copy(mem[0] + entry.ret) /\ Val("r10", entry.ret))'
    BY <1>0, <1>14, <2>1, <2>2, ReadWords DEF Point, Val, Copy, Both, SetReg, RegNames, Goes
  <2> QED
    BY <2>3, <2>4 DEF SizeAt
<1>15. CASE Point("epilogue", 8, 0) /\ Copy(mem[0] + entry.ret) /\ Val("r10", entry.ret)
  <2>1. at = "epilogue" /\ i = 8 /\ reg["rsp"] = entry.rsp
    BY <1>0, <1>15 DEF Point
  <2>2. SetReg("rsp", reg["rsp"] + 1) /\ mem' = mem /\ Goes
    BY <1>0, <2>1, SizeCode, AddIStep DEF RegNames
  <2>3. Sound'
    BY <2>1, <2>2, SetRegSound DEF ScratchAt, Callers
  <2>4. (Point("epilogue", 9, 1) /\ Copy(mem[0] + entry.ret) /\ Val("r10", entry.ret))'
    BY <1>0, <1>15, <2>1, <2>2 DEF Point, Val, Copy, SetReg, RegNames, Goes
  <2> QED
    BY <2>3, <2>4 DEF SizeAt
<1>16. CASE Point("epilogue", 9, 1) /\ Copy(mem[0] + entry.ret) /\ Val("r10", entry.ret)
  <2>1. at = "epilogue" /\ i = 9 /\ reg["rsp"] = entry.rsp + 1
    BY <1>0, <1>16 DEF Point
  <2>2. reg' = reg /\ Lands(reg["r10"])
    BY <2>1, SizeCode, JumpStep
  <2>3. Sound'
    BY <2>1, <2>2, LandsSound
  <2>4. (Point("returned", 10, 1) /\ HomeTarget)'
    BY <1>0, <1>16, <2>1, <2>2 DEF Point, Val, Copy, HomeTarget, Lands
  <2> QED
    BY <2>3, <2>4 DEF SizeAt
<1>17. CASE Point("returned", 10, 1) /\ HomeTarget
  BY <1>0, <1>17 DEF Point
<1> QED
  BY <1>1, <1>2, <1>3, <1>4, <1>5, <1>6, <1>7, <1>8, <1>9, <1>10, <1>11, <1>12, <1>13, <1>14,
     <1>15, <1>16, <1>17 DEF SizeAt

LEMMA GsRspCode ==
  ASSUME build = "gs_rsp"
  PROVE  /\ at = "prologue" => /\ Len(Code!Code) = 3
                               /\ Code!Code[1] = Code!Load(Code!Mem("rsp", 0), "r11", 4)
                               /\ Code!Code[2] = Code!MovI(-User, "r10", 10)
                               /\ Code!Code[3] = Code!Store("r11", Code!Gs(Code!Idx("rsp", 0,
                                  "r10", 1)), 5)
         /\ at = "epilogue" => /\ Len(Code!Code) = 3
                               /\ Code!Code[1] = Code!MovI(-User, "r10", 10)
                               /\ Code!Code[2] = Code!AddI(1, "rsp")
                               /\ Code!Code[3] = Code!JumpM(Code!Gs(Code!Idx("rsp", -1, "r10", 1)))
         /\ at = "link" => /\ Len(Code!Code) = 2
                           /\ Code!Code[1] = Code!MovI(-User, "r10", 10)
                           /\ Code!Code[2] = Code!Store("r11", Code!Gs(Code!Idx("rsp", -1,
                              "r10", 1)), 5)
BY DEF Code!Code, Code!PrologueOf, Code!EpilogueOf, Code!LinkOf, Code!GsRspIn, Code!GsRspOut,
   Code!GsRspLink

LEMMA GsRspEnds ==
  ASSUME build = "gs_rsp", i <= Len(Code!Code)
  PROVE  (at = "prologue" => i <= 3) /\ (at = "epilogue" => i <= 3) /\ (at = "link" => i <= 2)
<1>1. ASSUME at = "prologue" PROVE i <= 3
  <2>1. Len(Code!Code) = 3
    BY <1>1, GsRspCode
  <2> QED
    BY <2>1
<1>2. ASSUME at = "epilogue" PROVE i <= 3
  <2>1. Len(Code!Code) = 3
    BY <1>2, GsRspCode
  <2> QED
    BY <2>1
<1>3. ASSUME at = "link" PROVE i <= 2
  <2>1. Len(Code!Code) = 2
    BY <1>3, GsRspCode
  <2> QED
    BY <2>1
<1> QED
  BY <1>1, <1>2, <1>3

LEMMA GsRspStep ==
  ASSUME Sound, build = "gs_rsp", GsRspAt, Code!Step, ~Stuck
  PROVE  Sound' /\ GsRspAt'
<1>0. /\ at \in {"prologue", "epilogue", "link"} /\ i <= Len(Code!Code)
      /\ DOMAIN reg = RegNames /\ DOMAIN mem = Code!Addresses
      /\ entry.rsp \in Nat /\ entry.ret \in Nat /\ Size \in Nat
      /\ hit' = hit /\ entry' = entry /\ linked' = linked
      /\ Code!Slot' = Code!Slot /\ Distance' = Distance
  BY Places, Sizes, StepFrame DEF Code!Step, Sound, Shape
<1>1. CASE Point("link", 1, 1) /\ linked /\ Val("r11", entry.ret)
  <2>1. at = "link" /\ i = 1 /\ reg["rsp"] = entry.rsp + 1
    BY <1>0, <1>1 DEF Point
  <2>2. SetReg("r10", -User) /\ mem' = mem /\ Goes
    BY <1>0, <2>1, GsRspCode, MovIStep DEF RegNames
  <2>3. Sound'
    BY <2>1, <2>2, SetRegSound DEF ScratchAt, Callers
  <2>4. (Point("link", 2, 1) /\ linked /\ Val("r11", entry.ret) /\ Val("r10", -User))'
    BY <1>0, <1>1, <2>1, <2>2 DEF Point, Val, SetReg, RegNames, Goes
  <2> QED
    BY <2>3, <2>4 DEF GsRspAt
<1>2. CASE Point("link", 2, 1) /\ linked /\ Val("r11", entry.ret) /\ Val("r10", -User)
  <2>1. at = "link" /\ i = 2 /\ reg["rsp"] = entry.rsp + 1
    BY <1>0, <1>2 DEF Point
  <2>2. ~hit => Code!Where(Code!Gs(Code!Idx("rsp", -1, "r10", 1))) = Code!Slot
        /\ Code!Mapped(Code!Slot)
    BY <1>0, <1>2, <2>1, SlotGsAbove, SlotWord DEF Val
  <2>3. SetMem(Code!Where(Code!Gs(Code!Idx("rsp", -1, "r10", 1))), reg["r11"]) /\ reg' = reg /\ Goes
    BY <1>0, <2>1, <2>2, GsRspCode, StoreStep DEF RegNames
  <2>4. Sound'
    BY <1>0, <1>2, <2>2, <2>3, SlotWord, ReadWords, SetMemSound DEF Val, Masked, Code!Unmapped
  <2>5. (Point("link", 3, 1) /\ linked /\ Copy(entry.ret))'
    BY <1>0, <1>2, <2>1, <2>2, <2>3, SlotStored DEF Point, Val, Copy, Goes
  <2> QED
    BY <2>4, <2>5 DEF GsRspAt
<1>3. CASE Point("link", 3, 1) /\ linked /\ Copy(entry.ret)
  BY <1>0, <1>3, GsRspEnds DEF Point
<1>4. CASE Fresh(1)
  <2>1. at = "prologue" /\ i = 1 /\ reg["rsp"] = entry.rsp
    BY <1>0, <1>4 DEF Fresh, Point
  <2>2. ~hit => Code!Where(Code!Mem("rsp", 0)) = entry.rsp /\ Code!Mapped(entry.rsp)
    BY <1>0, <1>4, <2>1, ReturnWord
  <2>3. SetReg("r11", mem[Code!Where(Code!Mem("rsp", 0))]) /\ mem' = mem /\ Goes
    BY <1>0, <2>1, <2>2, GsRspCode, LoadStep DEF RegNames
  <2>4. Sound'
    BY <2>1, <2>3, SetRegSound DEF ScratchAt, Callers
  <2>5. (Fresh(2) /\ Val("r11", entry.ret))'
    BY <1>0, <1>4, <2>1, <2>2, <2>3, ReadWords DEF Fresh, Point, Val, SetReg, RegNames, Goes
  <2> QED
    BY <2>4, <2>5 DEF GsRspAt
<1>5. CASE Fresh(2) /\ Val("r11", entry.ret)
  <2>1. at = "prologue" /\ i = 2 /\ reg["rsp"] = entry.rsp
    BY <1>0, <1>5 DEF Fresh, Point
  <2>2. SetReg("r10", -User) /\ mem' = mem /\ Goes
    BY <1>0, <2>1, GsRspCode, MovIStep DEF RegNames
  <2>3. Sound'
    BY <2>1, <2>2, SetRegSound DEF ScratchAt, Callers
  <2>4. (Fresh(3) /\ Val("r11", entry.ret) /\ Val("r10", -User))'
    BY <1>0, <1>5, <2>1, <2>2 DEF Fresh, Point, Val, SetReg, RegNames, Goes
  <2> QED
    BY <2>3, <2>4 DEF GsRspAt
<1>6. CASE Fresh(3) /\ Val("r11", entry.ret) /\ Val("r10", -User)
  <2>1. at = "prologue" /\ i = 3 /\ reg["rsp"] = entry.rsp
    BY <1>0, <1>6 DEF Fresh, Point
  <2>2. ~hit => Code!Where(Code!Gs(Code!Idx("rsp", 0, "r10", 1))) = Code!Slot
        /\ Code!Mapped(Code!Slot)
    BY <1>0, <1>6, <2>1, SlotGs, SlotWord DEF Val
  <2>3. SetMem(Code!Where(Code!Gs(Code!Idx("rsp", 0, "r10", 1))), reg["r11"]) /\ reg' = reg /\ Goes
    BY <1>0, <2>1, <2>2, GsRspCode, StoreStep DEF RegNames
  <2>4. Sound'
    BY <1>0, <1>6, <2>2, <2>3, SlotWord, ReadWords, SetMemSound DEF Val, Masked, Code!Unmapped
  <2>5. (Around(4) /\ Copy(entry.ret))'
    BY <1>0, <1>6, <2>1, <2>2, <2>3, SlotStored DEF Around, Fresh, Point, Val, Copy, Goes
  <2> QED
    BY <2>4, <2>5 DEF GsRspAt
<1>7. CASE Around(4) /\ Copy(entry.ret)
  <2>1. at = "epilogue" /\ i = 1 /\ reg["rsp"] = entry.rsp
    BY <1>0, <1>7, GsRspEnds DEF Around, Point
  <2>2. SetReg("r10", -User) /\ mem' = mem /\ Goes
    BY <1>0, <2>1, GsRspCode, MovIStep DEF RegNames
  <2>3. Sound'
    BY <2>1, <2>2, SetRegSound DEF ScratchAt, Callers
  <2>4. (Point("epilogue", 2, 0) /\ Copy(entry.ret) /\ Val("r10", -User))'
    BY <1>0, <1>7, <2>1, <2>2 DEF Around, Point, Val, Copy, SetReg, RegNames, Goes
  <2> QED
    BY <2>3, <2>4 DEF GsRspAt
<1>8. CASE Point("epilogue", 2, 0) /\ Copy(entry.ret) /\ Val("r10", -User)
  <2>1. at = "epilogue" /\ i = 2 /\ reg["rsp"] = entry.rsp
    BY <1>0, <1>8 DEF Point
  <2>2. SetReg("rsp", reg["rsp"] + 1) /\ mem' = mem /\ Goes
    BY <1>0, <2>1, GsRspCode, AddIStep DEF RegNames
  <2>3. Sound'
    BY <2>1, <2>2, SetRegSound DEF ScratchAt, Callers
  <2>4. (Point("epilogue", 3, 1) /\ Copy(entry.ret) /\ Val("r10", -User))'
    BY <1>0, <1>8, <2>1, <2>2 DEF Point, Val, Copy, SetReg, RegNames, Goes
  <2> QED
    BY <2>3, <2>4 DEF GsRspAt
<1>9. CASE Point("epilogue", 3, 1) /\ Copy(entry.ret) /\ Val("r10", -User)
  <2>1. at = "epilogue" /\ i = 3 /\ reg["rsp"] = entry.rsp + 1
    BY <1>0, <1>9 DEF Point
  <2>2. ~hit => Code!Where(Code!Gs(Code!Idx("rsp", -1, "r10", 1))) = Code!Slot
        /\ Code!Mapped(Code!Slot)
    BY <1>0, <1>9, <2>1, SlotGsAbove, SlotWord DEF Val
  <2>3. reg' = reg /\ Lands(mem[Code!Where(Code!Gs(Code!Idx("rsp", -1, "r10", 1)))])
    BY <2>1, <2>2, GsRspCode, JumpMStep
  <2>4. Sound'
    BY <2>1, <2>3, LandsSound
  <2>5. (Point("returned", 4, 1) /\ HomeTarget)'
    BY <1>0, <1>9, <2>1, <2>2, <2>3 DEF Point, Val, Copy, HomeTarget, Lands
  <2> QED
    BY <2>4, <2>5 DEF GsRspAt
<1>10. CASE Point("returned", 4, 1) /\ HomeTarget
  BY <1>0, <1>10 DEF Point
<1> QED
  BY <1>1, <1>2, <1>3, <1>4, <1>5, <1>6, <1>7, <1>8, <1>9, <1>10 DEF GsRspAt

LEMMA FsGsCode ==
  ASSUME build = "fs_gs"
  PROVE  /\ at = "prologue" => /\ Len(Code!Code) = 3
                               /\ Code!Code[1] = Code!Load(Code!Mem("rsp", 0), "r11", 4)
                               /\ Code!Code[2] = Code!Load(Code!Gs(Code!Mem("zero", 1)), "r10", 9)
                               /\ Code!Code[3] = Code!Store("r11", Code!Idx("rsp", 0, "r10", 1), 4)
         /\ at = "epilogue" => /\ Len(Code!Code) = 4
                               /\ Code!Code[1] = Code!Load(Code!Gs(Code!Mem("zero", 1)), "r11", 0)
                               /\ Code!Code[2] = Code!Load(Code!Idx("rsp", 0, "r11", 1), "r11", 0)
                               /\ Code!Code[3] = Code!AddI(1, "rsp")
                               /\ Code!Code[4] = Code!Jump("r11")
         /\ at = "link" => /\ Len(Code!Code) = 2
                           /\ Code!Code[1] = Code!Load(Code!Gs(Code!Mem("zero", 1)), "r10", 9)
                           /\ Code!Code[2] = Code!Store("r11", Code!Idx("rsp", -1, "r10", 1), 0)
BY DEF Code!Code, Code!PrologueOf, Code!EpilogueOf, Code!LinkOf, Code!FsGsIn, Code!FsGsOut,
   Code!FsGsLink

LEMMA FsGsEnds ==
  ASSUME build = "fs_gs", i <= Len(Code!Code)
  PROVE  (at = "prologue" => i <= 3) /\ (at = "epilogue" => i <= 4) /\ (at = "link" => i <= 2)
<1>1. ASSUME at = "prologue" PROVE i <= 3
  <2>1. Len(Code!Code) = 3
    BY <1>1, FsGsCode
  <2> QED
    BY <2>1
<1>2. ASSUME at = "epilogue" PROVE i <= 4
  <2>1. Len(Code!Code) = 4
    BY <1>2, FsGsCode
  <2> QED
    BY <2>1
<1>3. ASSUME at = "link" PROVE i <= 2
  <2>1. Len(Code!Code) = 2
    BY <1>3, FsGsCode
  <2> QED
    BY <2>1
<1> QED
  BY <1>1, <1>2, <1>3

LEMMA FsGsStep ==
  ASSUME Sound, build = "fs_gs", FsGsAt, Code!Step, ~Stuck
  PROVE  Sound' /\ FsGsAt'
<1>0. /\ at \in {"prologue", "epilogue", "link"} /\ i <= Len(Code!Code)
      /\ DOMAIN reg = RegNames /\ DOMAIN mem = Code!Addresses
      /\ entry.rsp \in Nat /\ entry.ret \in Nat /\ Size \in Nat
      /\ hit' = hit /\ entry' = entry /\ linked' = linked
      /\ Code!Slot' = Code!Slot /\ Distance' = Distance
  BY Places, Sizes, StepFrame DEF Code!Step, Sound, Shape
<1>1. CASE Point("link", 1, 1) /\ linked /\ Val("r11", entry.ret)
  <2>1. at = "link" /\ i = 1 /\ reg["rsp"] = entry.rsp + 1
    BY <1>0, <1>1 DEF Point
  <2>2. ~hit => Code!Where(Code!Gs(Code!Mem("zero", 1))) = Code!Meta + 1
        /\ Code!Mapped(Code!Meta + 1)
    BY <1>0, <1>1, <2>1, DistanceWord
  <2>3. SetReg("r10", mem[Code!Where(Code!Gs(Code!Mem("zero", 1)))]) /\ mem' = mem /\ Goes
    BY <1>0, <2>1, <2>2, FsGsCode, LoadStep DEF RegNames
  <2>4. Sound'
    BY <2>1, <2>3, SetRegSound DEF ScratchAt, Callers
  <2>5. (Point("link", 2, 1) /\ linked /\ Val("r11", entry.ret) /\ Val("r10", Distance))'
    BY <1>0, <1>1, <2>1, <2>2, <2>3, ReadWords DEF Point, Val, SetReg, RegNames, Goes
  <2> QED
    BY <2>4, <2>5 DEF FsGsAt
<1>2. CASE Point("link", 2, 1) /\ linked /\ Val("r11", entry.ret) /\ Val("r10", Distance)
  <2>1. at = "link" /\ i = 2 /\ reg["rsp"] = entry.rsp + 1
    BY <1>0, <1>2 DEF Point
  <2>2. ~hit => Code!Where(Code!Idx("rsp", -1, "r10", 1)) = Code!Slot /\ Code!Mapped(Code!Slot)
    BY <1>0, <1>2, <2>1, SlotIndexedAbove, SlotWord DEF Val
  <2>3. SetMem(Code!Where(Code!Idx("rsp", -1, "r10", 1)), reg["r11"]) /\ reg' = reg /\ Goes
    BY <1>0, <2>1, <2>2, FsGsCode, StoreStep DEF RegNames
  <2>4. Sound'
    BY <1>0, <1>2, <2>2, <2>3, SlotWord, ReadWords, SetMemSound DEF Val, Masked, Code!Unmapped
  <2>5. (Point("link", 3, 1) /\ linked /\ Copy(entry.ret))'
    BY <1>0, <1>2, <2>1, <2>2, <2>3, SlotStored DEF Point, Val, Copy, Goes
  <2> QED
    BY <2>4, <2>5 DEF FsGsAt
<1>3. CASE Point("link", 3, 1) /\ linked /\ Copy(entry.ret)
  BY <1>0, <1>3, FsGsEnds DEF Point
<1>4. CASE Fresh(1)
  <2>1. at = "prologue" /\ i = 1 /\ reg["rsp"] = entry.rsp
    BY <1>0, <1>4 DEF Fresh, Point
  <2>2. ~hit => Code!Where(Code!Mem("rsp", 0)) = entry.rsp /\ Code!Mapped(entry.rsp)
    BY <1>0, <1>4, <2>1, ReturnWord
  <2>3. SetReg("r11", mem[Code!Where(Code!Mem("rsp", 0))]) /\ mem' = mem /\ Goes
    BY <1>0, <2>1, <2>2, FsGsCode, LoadStep DEF RegNames
  <2>4. Sound'
    BY <2>1, <2>3, SetRegSound DEF ScratchAt, Callers
  <2>5. (Fresh(2) /\ Val("r11", entry.ret))'
    BY <1>0, <1>4, <2>1, <2>2, <2>3, ReadWords DEF Fresh, Point, Val, SetReg, RegNames, Goes
  <2> QED
    BY <2>4, <2>5 DEF FsGsAt
<1>5. CASE Fresh(2) /\ Val("r11", entry.ret)
  <2>1. at = "prologue" /\ i = 2 /\ reg["rsp"] = entry.rsp
    BY <1>0, <1>5 DEF Fresh, Point
  <2>2. ~hit => Code!Where(Code!Gs(Code!Mem("zero", 1))) = Code!Meta + 1
        /\ Code!Mapped(Code!Meta + 1)
    BY <1>0, <1>5, <2>1, DistanceWord
  <2>3. SetReg("r10", mem[Code!Where(Code!Gs(Code!Mem("zero", 1)))]) /\ mem' = mem /\ Goes
    BY <1>0, <2>1, <2>2, FsGsCode, LoadStep DEF RegNames
  <2>4. Sound'
    BY <2>1, <2>3, SetRegSound DEF ScratchAt, Callers
  <2>5. (Fresh(3) /\ Val("r11", entry.ret) /\ Val("r10", Distance))'
    BY <1>0, <1>5, <2>1, <2>2, <2>3, ReadWords DEF Fresh, Point, Val, SetReg, RegNames, Goes
  <2> QED
    BY <2>4, <2>5 DEF FsGsAt
<1>6. CASE Fresh(3) /\ Val("r11", entry.ret) /\ Val("r10", Distance)
  <2>1. at = "prologue" /\ i = 3 /\ reg["rsp"] = entry.rsp
    BY <1>0, <1>6 DEF Fresh, Point
  <2>2. ~hit => Code!Where(Code!Idx("rsp", 0, "r10", 1)) = Code!Slot /\ Code!Mapped(Code!Slot)
    BY <1>0, <1>6, <2>1, SlotIndexed, SlotWord DEF Val
  <2>3. SetMem(Code!Where(Code!Idx("rsp", 0, "r10", 1)), reg["r11"]) /\ reg' = reg /\ Goes
    BY <1>0, <2>1, <2>2, FsGsCode, StoreStep DEF RegNames
  <2>4. Sound'
    BY <1>0, <1>6, <2>2, <2>3, SlotWord, ReadWords, SetMemSound DEF Val, Masked, Code!Unmapped
  <2>5. (Around(4) /\ Copy(entry.ret))'
    BY <1>0, <1>6, <2>1, <2>2, <2>3, SlotStored DEF Around, Fresh, Point, Val, Copy, Goes
  <2> QED
    BY <2>4, <2>5 DEF FsGsAt
<1>7. CASE Around(4) /\ Copy(entry.ret)
  <2>1. at = "epilogue" /\ i = 1 /\ reg["rsp"] = entry.rsp
    BY <1>0, <1>7, FsGsEnds DEF Around, Point
  <2>2. ~hit => Code!Where(Code!Gs(Code!Mem("zero", 1))) = Code!Meta + 1
        /\ Code!Mapped(Code!Meta + 1)
    BY <1>0, <1>7, <2>1, DistanceWord
  <2>3. SetReg("r11", mem[Code!Where(Code!Gs(Code!Mem("zero", 1)))]) /\ mem' = mem /\ Goes
    BY <1>0, <2>1, <2>2, FsGsCode, LoadStep DEF RegNames
  <2>4. Sound'
    BY <2>1, <2>3, SetRegSound DEF ScratchAt, Callers
  <2>5. (Point("epilogue", 2, 0) /\ Copy(entry.ret) /\ Val("r11", Distance))'
    BY <1>0, <1>7, <2>1, <2>2, <2>3, ReadWords DEF Around, Point, Val, Copy, SetReg, RegNames, Goes
  <2> QED
    BY <2>4, <2>5 DEF FsGsAt
<1>8. CASE Point("epilogue", 2, 0) /\ Copy(entry.ret) /\ Val("r11", Distance)
  <2>1. at = "epilogue" /\ i = 2 /\ reg["rsp"] = entry.rsp
    BY <1>0, <1>8 DEF Point
  <2>2. ~hit => Code!Where(Code!Idx("rsp", 0, "r11", 1)) = Code!Slot /\ Code!Mapped(Code!Slot)
    BY <1>0, <1>8, <2>1, SlotIndexed, SlotWord DEF Val
  <2>3. SetReg("r11", mem[Code!Where(Code!Idx("rsp", 0, "r11", 1))]) /\ mem' = mem /\ Goes
    BY <1>0, <2>1, <2>2, FsGsCode, LoadStep DEF RegNames
  <2>4. Sound'
    BY <2>1, <2>3, SetRegSound DEF ScratchAt, Callers
  <2>5. (Point("epilogue", 3, 0) /\ Val("r11", entry.ret))'
    BY <1>0, <1>8, <2>1, <2>2, <2>3, ReadWords DEF Point, Val, Copy, SetReg, RegNames, Goes
  <2> QED
    BY <2>4, <2>5 DEF FsGsAt
<1>9. CASE Point("epilogue", 3, 0) /\ Val("r11", entry.ret)
  <2>1. at = "epilogue" /\ i = 3 /\ reg["rsp"] = entry.rsp
    BY <1>0, <1>9 DEF Point
  <2>2. SetReg("rsp", reg["rsp"] + 1) /\ mem' = mem /\ Goes
    BY <1>0, <2>1, FsGsCode, AddIStep DEF RegNames
  <2>3. Sound'
    BY <2>1, <2>2, SetRegSound DEF ScratchAt, Callers
  <2>4. (Point("epilogue", 4, 1) /\ Val("r11", entry.ret))'
    BY <1>0, <1>9, <2>1, <2>2 DEF Point, Val, SetReg, RegNames, Goes
  <2> QED
    BY <2>3, <2>4 DEF FsGsAt
<1>10. CASE Point("epilogue", 4, 1) /\ Val("r11", entry.ret)
  <2>1. at = "epilogue" /\ i = 4 /\ reg["rsp"] = entry.rsp + 1
    BY <1>0, <1>10 DEF Point
  <2>2. reg' = reg /\ Lands(reg["r11"])
    BY <2>1, FsGsCode, JumpStep
  <2>3. Sound'
    BY <2>1, <2>2, LandsSound
  <2>4. (Point("returned", 5, 1) /\ HomeTarget)'
    BY <1>0, <1>10, <2>1, <2>2 DEF Point, Val, HomeTarget, Lands
  <2> QED
    BY <2>3, <2>4 DEF FsGsAt
<1>11. CASE Point("returned", 5, 1) /\ HomeTarget
  BY <1>0, <1>11 DEF Point
<1> QED
  BY <1>1, <1>2, <1>3, <1>4, <1>5, <1>6, <1>7, <1>8, <1>9, <1>10, <1>11 DEF FsGsAt

LEMMA MsrCode ==
  ASSUME build = "fs_gs_msr"
  PROVE  /\ at = "prologue" => /\ Len(Code!Code) = 4
                               /\ Code!Code[1] = Code!Load(Code!Mem("rsp", 0), "r11", 4)
                               /\ Code!Code[2] = Code!AddM(Code!Gs(Code!Mem("zero", 2)), "r11", 9)
                               /\ Code!Code[3] = Code!Load(Code!Gs(Code!Mem("zero", 1)), "r10", 9)
                               /\ Code!Code[4] = Code!Store("r11", Code!Idx("rsp", 0, "r10", 1), 4)
         /\ at = "epilogue" => /\ Len(Code!Code) = 5
                               /\ Code!Code[1] = Code!Load(Code!Gs(Code!Mem("zero", 1)), "r11", 0)
                               /\ Code!Code[2] = Code!Load(Code!Idx("rsp", 0, "r11", 1), "r11", 0)
                               /\ Code!Code[3] = Code!SubM(Code!Gs(Code!Mem("zero", 2)), "r11")
                               /\ Code!Code[4] = Code!AddI(1, "rsp")
                               /\ Code!Code[5] = Code!Jump("r11")
         /\ at = "link" => /\ Len(Code!Code) = 3
                           /\ Code!Code[1] = Code!AddM(Code!Gs(Code!Mem("zero", 2)), "r11", 0)
                           /\ Code!Code[2] = Code!Load(Code!Gs(Code!Mem("zero", 1)), "r10", 9)
                           /\ Code!Code[3] = Code!Store("r11", Code!Idx("rsp", -1, "r10", 1), 0)
BY DEF Code!Code, Code!PrologueOf, Code!EpilogueOf, Code!LinkOf, Code!MsrIn, Code!MsrOut,
   Code!MsrLink, Code!FsGsLink

LEMMA MsrEnds ==
  ASSUME build = "fs_gs_msr", i <= Len(Code!Code)
  PROVE  (at = "prologue" => i <= 4) /\ (at = "epilogue" => i <= 5) /\ (at = "link" => i <= 3)
<1>1. ASSUME at = "prologue" PROVE i <= 4
  <2>1. Len(Code!Code) = 4
    BY <1>1, MsrCode
  <2> QED
    BY <2>1
<1>2. ASSUME at = "epilogue" PROVE i <= 5
  <2>1. Len(Code!Code) = 5
    BY <1>2, MsrCode
  <2> QED
    BY <2>1
<1>3. ASSUME at = "link" PROVE i <= 3
  <2>1. Len(Code!Code) = 3
    BY <1>3, MsrCode
  <2> QED
    BY <2>1
<1> QED
  BY <1>1, <1>2, <1>3

LEMMA MsrStep ==
  ASSUME Sound, build = "fs_gs_msr", MsrAt, Code!Step, ~Stuck
  PROVE  Sound' /\ MsrAt'
<1>0. /\ at \in {"prologue", "epilogue", "link"} /\ i <= Len(Code!Code)
      /\ DOMAIN reg = RegNames /\ DOMAIN mem = Code!Addresses
      /\ entry.rsp \in Nat /\ entry.ret \in Nat /\ Size \in Nat
      /\ hit' = hit /\ entry' = entry /\ linked' = linked
      /\ Code!Slot' = Code!Slot /\ Distance' = Distance
  BY Places, Sizes, StepFrame DEF Code!Step, Sound, Shape
<1>1. CASE Point("link", 1, 1) /\ linked /\ Val("r11", entry.ret)
  <2>1. at = "link" /\ i = 1 /\ reg["rsp"] = entry.rsp + 1
    BY <1>0, <1>1 DEF Point
  <2>2. ~hit => Code!Where(Code!Gs(Code!Mem("zero", 2))) = Code!Meta + 2
        /\ Code!Mapped(Code!Meta + 2)
    BY <1>0, <1>1, <2>1, GsMaskWord
  <2>3. SetReg("r11", reg["r11"] + mem[Code!Where(Code!Gs(Code!Mem("zero", 2)))]) /\ mem' = mem
        /\ Goes
    BY <1>0, <2>1, <2>2, MsrCode, AddMStep DEF RegNames
  <2>4. Sound'
    BY <2>1, <2>3, SetRegSound DEF ScratchAt, Callers
  <2>5. (Point("link", 2, 1) /\ linked /\ Val("r11", Masked))'
    BY <1>0, <1>1, <2>1, <2>2, <2>3, ReadWords DEF Point, Val, Masked, SetReg, RegNames, Goes
  <2> QED
    BY <2>4, <2>5 DEF MsrAt
<1>2. CASE Point("link", 2, 1) /\ linked /\ Val("r11", Masked)
  <2>1. at = "link" /\ i = 2 /\ reg["rsp"] = entry.rsp + 1
    BY <1>0, <1>2 DEF Point
  <2>2. ~hit => Code!Where(Code!Gs(Code!Mem("zero", 1))) = Code!Meta + 1
        /\ Code!Mapped(Code!Meta + 1)
    BY <1>0, <1>2, <2>1, DistanceWord
  <2>3. SetReg("r10", mem[Code!Where(Code!Gs(Code!Mem("zero", 1)))]) /\ mem' = mem /\ Goes
    BY <1>0, <2>1, <2>2, MsrCode, LoadStep DEF RegNames
  <2>4. Sound'
    BY <2>1, <2>3, SetRegSound DEF ScratchAt, Callers
  <2>5. (Point("link", 3, 1) /\ linked /\ Val("r11", Masked) /\ Val("r10", Distance))'
    BY <1>0, <1>2, <2>1, <2>2, <2>3, ReadWords DEF Point, Val, Masked, SetReg, RegNames, Goes
  <2> QED
    BY <2>4, <2>5 DEF MsrAt
<1>3. CASE Point("link", 3, 1) /\ linked /\ Val("r11", Masked) /\ Val("r10", Distance)
  <2>1. at = "link" /\ i = 3 /\ reg["rsp"] = entry.rsp + 1
    BY <1>0, <1>3 DEF Point
  <2>2. ~hit => Code!Where(Code!Idx("rsp", -1, "r10", 1)) = Code!Slot /\ Code!Mapped(Code!Slot)
    BY <1>0, <1>3, <2>1, SlotIndexedAbove, SlotWord DEF Val
  <2>3. SetMem(Code!Where(Code!Idx("rsp", -1, "r10", 1)), reg["r11"]) /\ reg' = reg /\ Goes
    BY <1>0, <2>1, <2>2, MsrCode, StoreStep DEF RegNames
  <2>4. Sound'
    BY <1>0, <1>3, <2>2, <2>3, SlotWord, ReadWords, SetMemSound DEF Val, Masked, Code!Unmapped
  <2>5. (Point("link", 4, 1) /\ linked /\ Copy(Masked))'
    BY <1>0, <1>3, <2>1, <2>2, <2>3, SlotStored DEF Point, Val, Copy, Masked, Goes
  <2> QED
    BY <2>4, <2>5 DEF MsrAt
<1>4. CASE Point("link", 4, 1) /\ linked /\ Copy(Masked)
  BY <1>0, <1>4, MsrEnds DEF Point
<1>5. CASE Fresh(1)
  <2>1. at = "prologue" /\ i = 1 /\ reg["rsp"] = entry.rsp
    BY <1>0, <1>5 DEF Fresh, Point
  <2>2. ~hit => Code!Where(Code!Mem("rsp", 0)) = entry.rsp /\ Code!Mapped(entry.rsp)
    BY <1>0, <1>5, <2>1, ReturnWord
  <2>3. SetReg("r11", mem[Code!Where(Code!Mem("rsp", 0))]) /\ mem' = mem /\ Goes
    BY <1>0, <2>1, <2>2, MsrCode, LoadStep DEF RegNames
  <2>4. Sound'
    BY <2>1, <2>3, SetRegSound DEF ScratchAt, Callers
  <2>5. (Fresh(2) /\ Val("r11", entry.ret))'
    BY <1>0, <1>5, <2>1, <2>2, <2>3, ReadWords DEF Fresh, Point, Val, SetReg, RegNames, Goes
  <2> QED
    BY <2>4, <2>5 DEF MsrAt
<1>6. CASE Fresh(2) /\ Val("r11", entry.ret)
  <2>1. at = "prologue" /\ i = 2 /\ reg["rsp"] = entry.rsp
    BY <1>0, <1>6 DEF Fresh, Point
  <2>2. ~hit => Code!Where(Code!Gs(Code!Mem("zero", 2))) = Code!Meta + 2
        /\ Code!Mapped(Code!Meta + 2)
    BY <1>0, <1>6, <2>1, GsMaskWord
  <2>3. SetReg("r11", reg["r11"] + mem[Code!Where(Code!Gs(Code!Mem("zero", 2)))]) /\ mem' = mem
        /\ Goes
    BY <1>0, <2>1, <2>2, MsrCode, AddMStep DEF RegNames
  <2>4. Sound'
    BY <2>1, <2>3, SetRegSound DEF ScratchAt, Callers
  <2>5. (Fresh(3) /\ Val("r11", Masked))'
    BY <1>0, <1>6, <2>1, <2>2, <2>3, ReadWords DEF Fresh, Point, Val, Masked, SetReg, RegNames, Goes
  <2> QED
    BY <2>4, <2>5 DEF MsrAt
<1>7. CASE Fresh(3) /\ Val("r11", Masked)
  <2>1. at = "prologue" /\ i = 3 /\ reg["rsp"] = entry.rsp
    BY <1>0, <1>7 DEF Fresh, Point
  <2>2. ~hit => Code!Where(Code!Gs(Code!Mem("zero", 1))) = Code!Meta + 1
        /\ Code!Mapped(Code!Meta + 1)
    BY <1>0, <1>7, <2>1, DistanceWord
  <2>3. SetReg("r10", mem[Code!Where(Code!Gs(Code!Mem("zero", 1)))]) /\ mem' = mem /\ Goes
    BY <1>0, <2>1, <2>2, MsrCode, LoadStep DEF RegNames
  <2>4. Sound'
    BY <2>1, <2>3, SetRegSound DEF ScratchAt, Callers
  <2>5. (Fresh(4) /\ Val("r11", Masked) /\ Val("r10", Distance))'
    BY <1>0, <1>7, <2>1, <2>2, <2>3, ReadWords DEF Fresh, Point, Val, Masked, SetReg, RegNames, Goes
  <2> QED
    BY <2>4, <2>5 DEF MsrAt
<1>8. CASE Fresh(4) /\ Val("r11", Masked) /\ Val("r10", Distance)
  <2>1. at = "prologue" /\ i = 4 /\ reg["rsp"] = entry.rsp
    BY <1>0, <1>8 DEF Fresh, Point
  <2>2. ~hit => Code!Where(Code!Idx("rsp", 0, "r10", 1)) = Code!Slot /\ Code!Mapped(Code!Slot)
    BY <1>0, <1>8, <2>1, SlotIndexed, SlotWord DEF Val
  <2>3. SetMem(Code!Where(Code!Idx("rsp", 0, "r10", 1)), reg["r11"]) /\ reg' = reg /\ Goes
    BY <1>0, <2>1, <2>2, MsrCode, StoreStep DEF RegNames
  <2>4. Sound'
    BY <1>0, <1>8, <2>2, <2>3, SlotWord, ReadWords, SetMemSound DEF Val, Masked, Code!Unmapped
  <2>5. (Around(5) /\ Copy(Masked))'
    BY <1>0, <1>8, <2>1, <2>2, <2>3, SlotStored DEF Around, Fresh, Point, Val, Copy, Masked, Goes
  <2> QED
    BY <2>4, <2>5 DEF MsrAt
<1>9. CASE Around(5) /\ Copy(Masked)
  <2>1. at = "epilogue" /\ i = 1 /\ reg["rsp"] = entry.rsp
    BY <1>0, <1>9, MsrEnds DEF Around, Point
  <2>2. ~hit => Code!Where(Code!Gs(Code!Mem("zero", 1))) = Code!Meta + 1
        /\ Code!Mapped(Code!Meta + 1)
    BY <1>0, <1>9, <2>1, DistanceWord
  <2>3. SetReg("r11", mem[Code!Where(Code!Gs(Code!Mem("zero", 1)))]) /\ mem' = mem /\ Goes
    BY <1>0, <2>1, <2>2, MsrCode, LoadStep DEF RegNames
  <2>4. Sound'
    BY <2>1, <2>3, SetRegSound DEF ScratchAt, Callers
  <2>5. (Point("epilogue", 2, 0) /\ Copy(Masked) /\ Val("r11", Distance))'
    BY <1>0, <1>9, <2>1, <2>2, <2>3, ReadWords
       DEF Around, Point, Val, Copy, Masked, SetReg, RegNames, Goes
  <2> QED
    BY <2>4, <2>5 DEF MsrAt
<1>10. CASE Point("epilogue", 2, 0) /\ Copy(Masked) /\ Val("r11", Distance)
  <2>1. at = "epilogue" /\ i = 2 /\ reg["rsp"] = entry.rsp
    BY <1>0, <1>10 DEF Point
  <2>2. ~hit => Code!Where(Code!Idx("rsp", 0, "r11", 1)) = Code!Slot /\ Code!Mapped(Code!Slot)
    BY <1>0, <1>10, <2>1, SlotIndexed, SlotWord DEF Val
  <2>3. SetReg("r11", mem[Code!Where(Code!Idx("rsp", 0, "r11", 1))]) /\ mem' = mem /\ Goes
    BY <1>0, <2>1, <2>2, MsrCode, LoadStep DEF RegNames
  <2>4. Sound'
    BY <2>1, <2>3, SetRegSound DEF ScratchAt, Callers
  <2>5. (Point("epilogue", 3, 0) /\ Copy(Masked) /\ Val("r11", Masked))'
    BY <1>0, <1>10, <2>1, <2>2, <2>3, ReadWords DEF Point, Val, Copy, Masked, SetReg, RegNames, Goes
  <2> QED
    BY <2>4, <2>5 DEF MsrAt
<1>11. CASE Point("epilogue", 3, 0) /\ Copy(Masked) /\ Val("r11", Masked)
  <2>1. at = "epilogue" /\ i = 3 /\ reg["rsp"] = entry.rsp
    BY <1>0, <1>11 DEF Point
  <2>2. ~hit => Code!Where(Code!Gs(Code!Mem("zero", 2))) = Code!Meta + 2
        /\ Code!Mapped(Code!Meta + 2)
    BY <1>0, <1>11, <2>1, GsMaskWord
  <2>3. SetReg("r11", reg["r11"] - mem[Code!Where(Code!Gs(Code!Mem("zero", 2)))]) /\ mem' = mem
        /\ Goes
    BY <1>0, <2>1, <2>2, MsrCode, SubMStep DEF RegNames
  <2>4. Sound'
    BY <2>1, <2>3, SetRegSound DEF ScratchAt, Callers
  <2>5. (Point("epilogue", 4, 0) /\ Copy(Masked) /\ Val("r11", entry.ret))'
    BY <1>0, <1>11, <2>1, <2>2, <2>3, ReadWords DEF Point, Val, Copy, Masked, SetReg, RegNames, Goes
  <2> QED
    BY <2>4, <2>5 DEF MsrAt
<1>12. CASE Point("epilogue", 4, 0) /\ Copy(Masked) /\ Val("r11", entry.ret)
  <2>1. at = "epilogue" /\ i = 4 /\ reg["rsp"] = entry.rsp
    BY <1>0, <1>12 DEF Point
  <2>2. SetReg("rsp", reg["rsp"] + 1) /\ mem' = mem /\ Goes
    BY <1>0, <2>1, MsrCode, AddIStep DEF RegNames
  <2>3. Sound'
    BY <2>1, <2>2, SetRegSound DEF ScratchAt, Callers
  <2>4. (Point("epilogue", 5, 1) /\ Copy(Masked) /\ Val("r11", entry.ret))'
    BY <1>0, <1>12, <2>1, <2>2 DEF Point, Val, Copy, Masked, SetReg, RegNames, Goes
  <2> QED
    BY <2>3, <2>4 DEF MsrAt
<1>13. CASE Point("epilogue", 5, 1) /\ Copy(Masked) /\ Val("r11", entry.ret)
  <2>1. at = "epilogue" /\ i = 5 /\ reg["rsp"] = entry.rsp + 1
    BY <1>0, <1>13 DEF Point
  <2>2. reg' = reg /\ Lands(reg["r11"])
    BY <2>1, MsrCode, JumpStep
  <2>3. Sound'
    BY <2>1, <2>2, LandsSound
  <2>4. (Point("returned", 6, 1) /\ HomeTarget)'
    BY <1>0, <1>13, <2>1, <2>2 DEF Point, Val, Copy, HomeTarget, Masked, Lands
  <2> QED
    BY <2>3, <2>4 DEF MsrAt
<1>14. CASE Point("returned", 6, 1) /\ HomeTarget
  BY <1>0, <1>14 DEF Point
<1> QED
  BY <1>1, <1>2, <1>3, <1>4, <1>5, <1>6, <1>7, <1>8, <1>9, <1>10, <1>11, <1>12, <1>13, <1>14
     DEF MsrAt

LEMMA ShadowCode ==
  ASSUME build = "shadow_stack"
  PROVE  /\ at = "prologue" => /\ Len(Code!Code) = 2
                               /\ Code!Code[1] = Code!PopM(Code!Mem("rsp", -Size))
                               /\ Code!Code[2] = Code!SubI(1, "rsp")
         /\ at = "epilogue" => /\ Len(Code!Code) = 3
                               /\ Code!Code[1] = Code!AddI(1, "rsp")
                               /\ Code!Code[2] = Code!Load(Code!Mem("rsp", -Size), "r11", 0)
                               /\ Code!Code[3] = Code!Jump("r11")
BY DEF Code!Code, Code!PrologueOf, Code!EpilogueOf, Code!ShadowIn, Code!ShadowOut

LEMMA ShadowEnds ==
  ASSUME build = "shadow_stack", i <= Len(Code!Code)
  PROVE  (at = "prologue" => i <= 2) /\ (at = "epilogue" => i <= 3)
<1>1. ASSUME at = "prologue" PROVE i <= 2
  <2>1. Len(Code!Code) = 2
    BY <1>1, ShadowCode
  <2> QED
    BY <2>1
<1>2. ASSUME at = "epilogue" PROVE i <= 3
  <2>1. Len(Code!Code) = 3
    BY <1>2, ShadowCode
  <2> QED
    BY <2>1
<1> QED
  BY <1>1, <1>2

\* popq finds its operand with rsp already moved: the slot is one word higher.
LEMMA PopWord ==
  ASSUME Sound, build = "shadow_stack"
  PROVE  LET a == entry.rsp + 1 - Size
         IN  /\ a \in Int /\ a > 0 /\ a < 6 * Size /\ a # entry.rsp /\ Code!Mapped(a) /\ ~hit
             /\ mem[entry.rsp] = entry.ret
             /\ entry.ret \in Nat /\ entry.ret # Code!Unmapped
<1>1. ~hit
  BY DEF Sound, Shape, Moved
<1>2. entry.rsp + 1 - Size \in Code!Addresses /\ entry.ret \in Nat /\ entry.ret # Code!Unmapped
  BY Places, Sizes, AddressesAre DEF Sound, Code!Unmapped
<1> QED
  BY <1>1, <1>2, Places, Sizes DEF Sound, Words, Code!Mapped

LEMMA ShadowStep ==
  ASSUME Sound, build = "shadow_stack", ShadowAt, Code!Step, ~Stuck
  PROVE  Sound' /\ ShadowAt'
<1> DEFINE a == entry.rsp + 1 - Size
<1>0. /\ at \in {"prologue", "epilogue", "link"} /\ i <= Len(Code!Code)
      /\ DOMAIN reg = RegNames /\ DOMAIN mem = Code!Addresses
      /\ entry.rsp \in Nat /\ entry.ret \in Nat /\ Size \in Nat
      /\ hit' = hit /\ entry' = entry /\ linked' = linked
  BY Places, Sizes, StepFrame DEF Code!Step, Sound, Shape
<1>1. CASE Fresh(1)
  <2>1. at = "prologue" /\ i = 1 /\ reg["rsp"] = entry.rsp
    BY <1>0, <1>1 DEF Fresh, Point
  <2>2. reg["rsp"] + 1 + (-Size) = a /\ Code!Mapped(a) /\ mem[entry.rsp] = entry.ret
    BY <1>0, <2>1, PopWord
  <2>3. /\ SetMem(reg["rsp"] + 1 + (-Size), mem[reg["rsp"]])
        /\ SetReg("rsp", reg["rsp"] + 1) /\ Goes
    BY <1>0, <2>1, <2>2, ShadowCode, PopMStep
  <2>4. SetMem(a, entry.ret) /\ SetReg("rsp", entry.rsp + 1)
    BY <2>1, <2>2, <2>3
  <2>5. Shape'
    BY <1>0, <2>3, <2>4, ShapeKept DEF Sound, SetMem, SetReg, RegNames, Goes
  <2>6. ~hit' => Words'
    BY <2>3, <2>4, PopWord, WordsWritten DEF Sound, Goes
  <2>7. Kept'
    BY <2>1, <2>3, <2>4, StepFrame DEF Sound, Kept, Goes, Args, SetReg, RegNames
  <2>8. (Point("prologue", 2, 1) /\ ShadowCopy)'
    BY <1>0, <2>1, <2>3, <2>4 DEF Point, ShadowCopy, SetMem, SetReg, Goes
  <2> QED
    BY <2>5, <2>6, <2>7, <2>8 DEF ShadowAt, Sound
<1>2. CASE Point("prologue", 2, 1) /\ ShadowCopy
  <2>1. at = "prologue" /\ i = 2 /\ reg["rsp"] = entry.rsp + 1
    BY <1>0, <1>2 DEF Point
  <2>2. SetReg("rsp", reg["rsp"] + (-1)) /\ mem' = mem /\ Goes
    BY <1>0, <2>1, ShadowCode, SubIStep DEF RegNames
  <2>3. Sound'
    BY <2>1, <2>2, SetRegSound DEF ScratchAt, Callers
  <2>4. (Around(3) /\ ShadowCopy)'
    BY <1>0, <1>2, <2>1, <2>2 DEF Around, Point, ShadowCopy, SetReg, Goes
  <2> QED
    BY <2>3, <2>4 DEF ShadowAt
<1>3. CASE Around(3) /\ ShadowCopy
  <2>1. at = "epilogue" /\ i = 1 /\ reg["rsp"] = entry.rsp
    BY <1>0, <1>3, ShadowEnds DEF Around, Point
  <2>2. SetReg("rsp", reg["rsp"] + 1) /\ mem' = mem /\ Goes
    BY <1>0, <2>1, ShadowCode, AddIStep DEF RegNames
  <2>3. Sound'
    BY <2>1, <2>2, SetRegSound DEF ScratchAt, Callers
  <2>4. (Point("epilogue", 2, 1) /\ ShadowCopy)'
    BY <1>0, <1>3, <2>1, <2>2 DEF Point, ShadowCopy, SetReg, Goes
  <2> QED
    BY <2>3, <2>4 DEF ShadowAt
<1>4. CASE Point("epilogue", 2, 1) /\ ShadowCopy
  <2>1. at = "epilogue" /\ i = 2 /\ reg["rsp"] = entry.rsp + 1
    BY <1>0, <1>4 DEF Point
  <2>2. Code!Where(Code!Mem("rsp", -Size)) = a /\ Code!Mapped(a)
    <3>1. Code!Where(Code!Mem("rsp", -Size)) = reg["rsp"] + (-Size)
      BY <1>0, <2>1, WhereMem DEF Sound, RegNames
    <3> QED
      BY <1>0, <2>1, <3>1, PopWord
  <2>3. SetReg("r11", mem[Code!Where(Code!Mem("rsp", -Size))]) /\ mem' = mem /\ Goes
    BY <1>0, <2>1, <2>2, ShadowCode, LoadStep DEF RegNames
  <2>4. Sound'
    BY <2>1, <2>3, SetRegSound DEF ScratchAt, Callers
  <2>5. (Point("epilogue", 3, 1) /\ Val("r11", entry.ret))'
    BY <1>0, <1>4, <2>1, <2>2, <2>3 DEF Point, Val, ShadowCopy, SetReg, RegNames, Goes
  <2> QED
    BY <2>4, <2>5 DEF ShadowAt
<1>5. CASE Point("epilogue", 3, 1) /\ Val("r11", entry.ret)
  <2>1. at = "epilogue" /\ i = 3
    BY <1>5 DEF Point
  <2>2. reg' = reg /\ Lands(reg["r11"])
    BY <2>1, ShadowCode, JumpStep
  <2>3. Sound'
    BY <2>1, <2>2, LandsSound
  <2>4. (Point("returned", 4, 1) /\ HomeTarget)'
    BY <1>0, <1>5, <2>1, <2>2 DEF Point, Val, HomeTarget, Lands
  <2> QED
    BY <2>3, <2>4 DEF ShadowAt
<1>6. CASE Point("returned", 4, 1) /\ HomeTarget
  BY <1>0, <1>6 DEF Point
<1> QED
  BY <1>1, <1>2, <1>3, <1>4, <1>5, <1>6 DEF ShadowAt

\* A return that takes the word of the caller.
LEMMA PlainReturn ==
  ASSUME Sound, build \in {"shadesmar", "init", "count"}, Code!Step, Point("epilogue", 1, 0),
         Code!Code[1] = Code!Return
  PROVE  Sound' /\ (Point("returned", 2, 1) /\ HomeTarget)'
<1>1. /\ at = "epilogue" /\ i = 1 /\ entry.rsp \in Nat /\ reg["rsp"] = entry.rsp
      /\ DOMAIN reg = RegNames /\ entry' = entry /\ hit' = hit
  BY Places, StepFrame DEF Point, Sound, Shape
<1>2. SetReg("rsp", reg["rsp"] + 1) /\ Lands(mem[reg["rsp"]])
  BY <1>1, ReturnStep
<1>3. Shape'
  BY <1>1, <1>2, ShapeKept DEF Sound, SetReg, RegNames, Lands
<1>4. ~hit' => Words'
  BY <1>2, WordsKept DEF Sound, Lands
<1>5. Kept'
  BY <1>1, <1>2 DEF Sound, Kept, Lands, SetReg, RegNames
<1>6. (Point("returned", 2, 1) /\ HomeTarget)'
  BY <1>1, <1>2, ReadWords DEF Point, HomeTarget, Lands, SetReg
<1> QED
  BY <1>3, <1>4, <1>5, <1>6 DEF Sound

LEMMA ShadesmarCode ==
  ASSUME build = "shadesmar"
  PROVE  /\ at = "prologue" => Len(Code!Code) = 0
         /\ at = "epilogue" => Code!Code[1] = Code!Return
BY DEF Code!Code, Code!PrologueOf, Code!EpilogueOf

LEMMA ShadesmarStep ==
  ASSUME Sound, build = "shadesmar", ShadesmarAt, Code!Step
  PROVE  Sound' /\ ShadesmarAt'
<1>1. /\ at \in {"prologue", "epilogue", "link"} /\ i <= Len(Code!Code)
  BY DEF Code!Step
<1>2. ~(at = "prologue" /\ i = 1)
  <2> SUFFICES ASSUME at = "prologue", i = 1 PROVE FALSE
    OBVIOUS
  <2>1. Len(Code!Code) = 0
    BY ShadesmarCode
  <2> QED
    BY <1>1, <2>1
<1>3. Point("epilogue", 1, 0)
  BY <1>1, <1>2 DEF ShadesmarAt, Around, Point
<1>4. Code!Code[1] = Code!Return
  BY <1>3, ShadesmarCode DEF Point
<1> QED
  BY <1>3, <1>4, PlainReturn DEF ShadesmarAt

LEMMA CallCode ==
  ASSUME build \in Callers
  PROVE  /\ at = "prologue" =>
               /\ Len(Code!Code) = 7
               /\ Code!Code[1] = Code!Push("rdi") /\ Code!Code[2] = Code!Push("rsi")
               /\ Code!Code[3] = Code!Push("rdx") /\ Code!Code[4] = Code!CallC
               /\ Code!Code[5] = Code!Pop("rdx") /\ Code!Code[6] = Code!Pop("rsi")
               /\ Code!Code[7] = Code!Pop("rdi")
         /\ at = "epilogue" => Code!Code[1] = Code!Return
BY DEF Code!Code, Code!PrologueOf, Code!EpilogueOf, Code!CallIn, Callers

LEMMA CallEnds ==
  ASSUME build \in Callers, i <= Len(Code!Code)
  PROVE  at = "prologue" => i <= 7
<1> HAVE at = "prologue"
<1>1. Len(Code!Code) = 7
  BY CallCode
<1> QED
  BY <1>1

\* A prologue that calls touches no register that is looked at but those of the arguments.
LEMMA CallSound ==
  ASSUME Sound, build \in Callers, Code!Step, at = "prologue", Goes, mem' = mem,
         DOMAIN reg' = RegNames, reg'["zero"] = reg["zero"]
  PROVE  Sound'
<1>1. Shape'
  BY ShapeKept DEF Sound, Goes
<1>2. ~hit' => Words'
  BY WordsKept DEF Sound, Goes
<1>3. Kept'
  BY StepFrame DEF Kept, Goes
<1> QED
  BY <1>1, <1>2, <1>3 DEF Sound

LEMMA PushSound ==
  ASSUME Sound, build \in Callers, Code!Step, at = "prologue", Goes,
         NEW n \in 1 .. 3, NEW v \in 1 .. 3, SetMem(entry.rsp - n, v),
         DOMAIN reg' = RegNames, reg'["zero"] = reg["zero"]
  PROVE  Sound'
<1> DEFINE a == entry.rsp - n
<1>1. a \in Int /\ a > 0 /\ a < 6 * Size /\ a # entry.rsp /\ v # Code!Unmapped
  BY Places, Sizes DEF Sound, Code!Unmapped
<1>2. Shape'
  BY ShapeKept DEF Sound, Goes, SetMem
<1> HIDE DEF a
<1>3. ~hit' => Words'
  BY <1>1, WordsWritten DEF Sound, Goes, a
<1>4. Kept'
  BY StepFrame DEF Kept, Goes
<1> QED
  BY <1>2, <1>3, <1>4 DEF Sound

LEMMA CallStep ==
  ASSUME Sound, build \in Callers, CallAt, Code!Step
  PROVE  Sound' /\ CallAt'
<1>0. /\ at \in {"prologue", "epilogue", "link"} /\ i <= Len(Code!Code)
      /\ DOMAIN reg = RegNames /\ DOMAIN mem = 0 .. 6 * Size + 5
      /\ entry.rsp \in Nat /\ entry.rsp <= 3 * Size - 2 /\ entry.rsp >= 2 * Size + 3
      /\ Size \in Nat /\ reg["zero"] = 0
      /\ hit' = hit /\ entry' = entry /\ linked' = linked
  BY Places, Sizes, StepFrame, AddressesAre DEF Code!Step, Sound, Shape
<1>1. CASE Fresh(1) /\ Args({"rdi", "rsi", "rdx"})
  <2>1. at = "prologue" /\ i = 1 /\ reg["rsp"] = entry.rsp
    BY <1>0, <1>1 DEF Fresh, Point
  <2>2. reg["rsp"] - 1 = entry.rsp - 1 /\ entry.rsp - 1 \in DOMAIN mem /\ reg["rdi"] = 1
    BY <1>0, <1>1, <2>1 DEF Args
  <2>3. SetMem(reg["rsp"] - 1, reg["rdi"]) /\ SetReg("rsp", reg["rsp"] - 1) /\ Goes
    BY <1>0, <2>1, <2>2, CallCode, PushStep
  <2>4. SetMem(entry.rsp - 1, 1) /\ SetReg("rsp", entry.rsp - 1)
    BY <2>2, <2>3
  <2>5. Sound'
    BY <2>1, <2>3, <2>4, PushSound DEF SetReg, RegNames
  <2>6. (Point("prologue", 2, -1) /\ Args({"rdi", "rsi", "rdx"}) /\ Saved(1))'
    BY <1>0, <1>1, <2>1, <2>3, <2>4 DEF Point, Args, Saved, SetMem, SetReg, RegNames, Goes
  <2> QED
    BY <2>5, <2>6 DEF CallAt
<1>2. CASE Point("prologue", 2, -1) /\ Args({"rdi", "rsi", "rdx"}) /\ Saved(1)
  <2>1. at = "prologue" /\ i = 2 /\ reg["rsp"] = entry.rsp - 1
    BY <1>0, <1>2 DEF Point
  <2>2. reg["rsp"] - 1 = entry.rsp - 2 /\ entry.rsp - 2 \in DOMAIN mem /\ reg["rsi"] = 2
    BY <1>0, <1>2, <2>1 DEF Args
  <2>3. SetMem(reg["rsp"] - 1, reg["rsi"]) /\ SetReg("rsp", reg["rsp"] - 1) /\ Goes
    BY <1>0, <2>1, <2>2, CallCode, PushStep
  <2>4. SetMem(entry.rsp - 2, 2) /\ SetReg("rsp", entry.rsp - 2)
    BY <2>2, <2>3
  <2>5. Sound'
    BY <2>1, <2>3, <2>4, PushSound DEF SetReg, RegNames
  <2>6. (Point("prologue", 3, -2) /\ Args({"rdi", "rsi", "rdx"}) /\ Saved(2))'
    BY <1>0, <1>2, <2>1, <2>3, <2>4 DEF Point, Args, Saved, SetMem, SetReg, RegNames, Goes
  <2> QED
    BY <2>5, <2>6 DEF CallAt
<1>3. CASE Point("prologue", 3, -2) /\ Args({"rdi", "rsi", "rdx"}) /\ Saved(2)
  <2>1. at = "prologue" /\ i = 3 /\ reg["rsp"] = entry.rsp - 2
    BY <1>0, <1>3 DEF Point
  <2>2. reg["rsp"] - 1 = entry.rsp - 3 /\ entry.rsp - 3 \in DOMAIN mem /\ reg["rdx"] = 3
    BY <1>0, <1>3, <2>1 DEF Args
  <2>3. SetMem(reg["rsp"] - 1, reg["rdx"]) /\ SetReg("rsp", reg["rsp"] - 1) /\ Goes
    BY <1>0, <2>1, <2>2, CallCode, PushStep
  <2>4. SetMem(entry.rsp - 3, 3) /\ SetReg("rsp", entry.rsp - 3)
    BY <2>2, <2>3
  <2>5. Sound'
    BY <2>1, <2>3, <2>4, PushSound DEF SetReg, RegNames
  <2>6. (Point("prologue", 4, -3) /\ Saved(3))'
    <3>1. mem'[entry.rsp - 1] = 1 /\ mem'[entry.rsp - 2] = 2 /\ mem'[entry.rsp - 3] = 3
      <4>1. /\ mem[entry.rsp - 1] = 1 /\ mem[entry.rsp - 2] = 2
            /\ entry.rsp - 1 \in DOMAIN mem \ {entry.rsp - 3}
            /\ entry.rsp - 2 \in DOMAIN mem \ {entry.rsp - 3}
        BY <1>0, <1>3 DEF Saved
      <4> QED
        BY <2>4, <4>1 DEF SetMem
    <3>2. Point("prologue", 4, -3)'
      BY <1>0, <2>1, <2>3, <2>4 DEF Point, SetReg, Goes
    <3> QED
      BY <1>0, <3>1, <3>2 DEF Saved
  <2> QED
    BY <2>5, <2>6 DEF CallAt
<1>4. CASE Point("prologue", 4, -3) /\ Saved(3)
  <2>1. at = "prologue" /\ i = 4 /\ reg["rsp"] = entry.rsp - 3
    BY <1>0, <1>4 DEF Point
  <2>2. /\ DOMAIN reg' = RegNames /\ reg'["rsp"] = reg["rsp"] /\ reg'["zero"] = reg["zero"]
        /\ mem' = mem /\ Goes
    BY <1>0, <2>1, CallCode, CallCStep
  <2>3. Sound'
    BY <2>1, <2>2, CallSound
  <2>4. (Point("prologue", 5, -3) /\ Saved(3))'
    BY <1>0, <1>4, <2>1, <2>2 DEF Point, Saved, Goes
  <2> QED
    BY <2>3, <2>4 DEF CallAt
<1>5. CASE Point("prologue", 5, -3) /\ Saved(3)
  <2>1. at = "prologue" /\ i = 5 /\ reg["rsp"] = entry.rsp - 3
    BY <1>0, <1>5 DEF Point
  <2>2. /\ DOMAIN reg' = RegNames /\ reg'["rdx"] = mem[reg["rsp"]] /\ reg'["rsp"] = reg["rsp"] + 1
        /\ \A q \in RegNames \ {"rdx", "rsp"} : reg'[q] = reg[q]
        /\ mem' = mem /\ Goes
    BY <1>0, <2>1, CallCode, PopStep DEF RegNames
  <2>3. Sound'
    BY <2>1, <2>2, CallSound DEF RegNames
  <2>4. mem[reg["rsp"]] = 3
    BY <1>0, <1>5, <2>1 DEF Saved
  <2>5. (Point("prologue", 6, -2) /\ Args({"rdx"}) /\ Saved(2))'
    BY <1>0, <1>5, <2>1, <2>2, <2>4 DEF Point, Args, Saved, RegNames, Goes
  <2> QED
    BY <2>3, <2>5 DEF CallAt
<1>6. CASE Point("prologue", 6, -2) /\ Args({"rdx"}) /\ Saved(2)
  <2>1. at = "prologue" /\ i = 6 /\ reg["rsp"] = entry.rsp - 2
    BY <1>0, <1>6 DEF Point
  <2>2. /\ DOMAIN reg' = RegNames /\ reg'["rsi"] = mem[reg["rsp"]] /\ reg'["rsp"] = reg["rsp"] + 1
        /\ \A q \in RegNames \ {"rsi", "rsp"} : reg'[q] = reg[q]
        /\ mem' = mem /\ Goes
    BY <1>0, <2>1, CallCode, PopStep DEF RegNames
  <2>3. Sound'
    BY <2>1, <2>2, CallSound DEF RegNames
  <2>4. mem[reg["rsp"]] = 2
    BY <1>0, <1>6, <2>1 DEF Saved
  <2>5. (Point("prologue", 7, -1) /\ Args({"rdx", "rsi"}) /\ Saved(1))'
    BY <1>0, <1>6, <2>1, <2>2, <2>4 DEF Point, Args, Saved, RegNames, Goes
  <2> QED
    BY <2>3, <2>5 DEF CallAt
<1>7. CASE Point("prologue", 7, -1) /\ Args({"rdx", "rsi"}) /\ Saved(1)
  <2>1. at = "prologue" /\ i = 7 /\ reg["rsp"] = entry.rsp - 1
    BY <1>0, <1>7 DEF Point
  <2>2. /\ DOMAIN reg' = RegNames /\ reg'["rdi"] = mem[reg["rsp"]] /\ reg'["rsp"] = reg["rsp"] + 1
        /\ \A q \in RegNames \ {"rdi", "rsp"} : reg'[q] = reg[q]
        /\ mem' = mem /\ Goes
    BY <1>0, <2>1, CallCode, PopStep DEF RegNames
  <2>3. Sound'
    BY <2>1, <2>2, CallSound DEF RegNames
  <2>4. mem[reg["rsp"]] = 1
    BY <1>0, <1>7, <2>1 DEF Saved
  <2>5. (Point("prologue", 8, 0) /\ Args({"rdi", "rsi", "rdx"}))'
    BY <1>0, <1>7, <2>1, <2>2, <2>4 DEF Point, Args, Saved, RegNames, Goes
  <2> QED
    BY <2>3, <2>5 DEF CallAt
<1>8. CASE Point("prologue", 8, 0) /\ Args({"rdi", "rsi", "rdx"})
  BY <1>0, <1>8, CallEnds DEF Point
<1>9. CASE Point("body", 8, 0) /\ Args({"rdi", "rsi", "rdx"})
  BY <1>0, <1>9 DEF Point
<1>10. CASE Point("epilogue", 1, 0)
  BY <1>10, CallCode, PlainReturn DEF Point, Callers, CallAt
<1>11. CASE Point("returned", 2, 1) /\ HomeTarget
  BY <1>0, <1>11 DEF Point
<1> QED
  BY <1>1, <1>2, <1>3, <1>4, <1>5, <1>6, <1>7, <1>8, <1>9, <1>10, <1>11 DEF CallAt

-----------------------------------------------------------------------------
(* The body.                                                                 *)

LEMMA BodyFrame ==
  ASSUME Code!Body \/ Code!Finish
  PROVE  /\ UNCHANGED <<build, mem, gs, area, entry, target, fault, hit, moves, linked>>
         /\ Code!Slot' = Code!Slot
BY DEF Code!Body, Code!Finish, Code!Slot

LEMMA BodySound ==
  ASSUME Sound, Code!Body \/ Code!Finish
  PROVE  Sound' /\ reg'["rsp"] = reg["rsp"]
<1>1. /\ DOMAIN reg' = RegNames /\ reg'["rsp"] = reg["rsp"] /\ reg'["zero"] = 0
      /\ \/ reg' = reg /\ at = "prologue" /\ at' = "body"
         \/ at' = "epilogue" /\ reg'["rax"] = Code!Result
  <2>1. DOMAIN reg = RegNames /\ reg["zero"] = 0
    BY DEF Sound, Shape
  <2>2. CASE Code!Body
    BY <2>1, <2>2 DEF Code!Body
  <2>3. CASE Code!Finish
    BY <2>1, <2>3 DEF Code!Finish, RegNames
  <2> QED
    BY <2>2, <2>3
<1>2. Shape'
  BY <1>1, BodyFrame DEF Sound, Shape, Distance
<1>3. ~hit' => Words'
  BY BodyFrame DEF Sound, Words, Distance
<1>4. Kept'
  BY <1>1, BodyFrame DEF Sound, Kept, Args
<1> QED
  BY <1>1, <1>2, <1>3, <1>4 DEF Sound

LEMMA RegBody ==
  ASSUME Sound, build = "via_reg", RegAt, Code!Body \/ Code!Finish
  PROVE  RegAt'
<1>1. \/ at = "prologue" /\ i > 2 /\ at' = "body" /\ i' = i
      \/ at = "body" /\ at' = "epilogue" /\ i' = 1
  <2>1. at = "prologue" => Len(Code!Code) = 2
    BY RegCode
  <2>2. ASSUME Code!Body PROVE at = "prologue" /\ i > 2 /\ at' = "body" /\ i' = i
    <3>1. at = "prologue" /\ i > Len(Code!Code) /\ at' = "body" /\ i' = i
      BY <2>2 DEF Code!Body
    <3>2. Len(Code!Code) = 2
      BY <2>1, <3>1
    <3> QED
      BY <3>1, <3>2
  <2> QED
    BY <2>2 DEF Code!Finish
<1>2. Around(3) /\ Copy(entry.ret)
  BY <1>1 DEF RegAt, Fresh, Point, Around
<1>3. (Around(3) /\ Copy(entry.ret))'
  BY <1>1, <1>2, BodyFrame, BodySound DEF Around, Point, Copy
<1> QED
  BY <1>3 DEF RegAt

LEMMA GlobalBody ==
  ASSUME Sound, build = "global", GlobalAt, Code!Body \/ Code!Finish
  PROVE  GlobalAt'
<1>1. \/ at = "prologue" /\ i > 3 /\ at' = "body" /\ i' = i
      \/ at = "body" /\ at' = "epilogue" /\ i' = 1
  <2>1. at = "prologue" => Len(Code!Code) = 3
    BY GlobalCode
  <2>2. ASSUME Code!Body PROVE at = "prologue" /\ i > 3 /\ at' = "body" /\ i' = i
    <3>1. at = "prologue" /\ i > Len(Code!Code) /\ at' = "body" /\ i' = i
      BY <2>2 DEF Code!Body
    <3>2. Len(Code!Code) = 3
      BY <2>1, <3>1
    <3> QED
      BY <3>1, <3>2
  <2> QED
    BY <2>2 DEF Code!Finish
<1>2. Around(4) /\ Copy(Code!RandomVal + entry.ret)
  BY <1>1 DEF GlobalAt, Fresh, Point, Around
<1>3. (Around(4) /\ Copy(Code!RandomVal + entry.ret))'
  BY <1>1, <1>2, BodyFrame, BodySound DEF Around, Point, Copy
<1> QED
  BY <1>3 DEF GlobalAt

LEMMA BuddyBody ==
  ASSUME Sound, build = "buddy_tls", BuddyAt, Code!Body \/ Code!Finish
  PROVE  BuddyAt'
<1>1. \/ at = "prologue" /\ i > 5 /\ at' = "body" /\ i' = i
      \/ at = "body" /\ at' = "epilogue" /\ i' = 1
  <2>1. at = "prologue" => Len(Code!Code) = 5
    BY BuddyCode
  <2>2. ASSUME Code!Body PROVE at = "prologue" /\ i > 5 /\ at' = "body" /\ i' = i
    <3>1. at = "prologue" /\ i > Len(Code!Code) /\ at' = "body" /\ i' = i
      BY <2>2 DEF Code!Body
    <3>2. Len(Code!Code) = 5
      BY <2>1, <3>1
    <3> QED
      BY <3>1, <3>2
  <2> QED
    BY <2>2 DEF Code!Finish
<1>2. Around(6) /\ Copy(mem[0] + entry.ret)
  BY <1>1 DEF BuddyAt, Fresh, Point, Around
<1>3. (Around(6) /\ Copy(mem[0] + entry.ret))'
  BY <1>1, <1>2, BodyFrame, BodySound DEF Around, Point, Copy
<1> QED
  BY <1>3 DEF BuddyAt

LEMMA SizeBody ==
  ASSUME Sound, build = "buddy_size", SizeAt, Code!Body \/ Code!Finish
  PROVE  SizeAt'
<1>1. \/ at = "prologue" /\ i > 7 /\ at' = "body" /\ i' = i
      \/ at = "body" /\ at' = "epilogue" /\ i' = 1
  <2>1. at = "prologue" => Len(Code!Code) = 7
    BY SizeCode
  <2>2. ASSUME Code!Body PROVE at = "prologue" /\ i > 7 /\ at' = "body" /\ i' = i
    <3>1. at = "prologue" /\ i > Len(Code!Code) /\ at' = "body" /\ i' = i
      BY <2>2 DEF Code!Body
    <3>2. Len(Code!Code) = 7
      BY <2>1, <3>1
    <3> QED
      BY <3>1, <3>2
  <2> QED
    BY <2>2 DEF Code!Finish
<1>2. Around(8) /\ Copy(mem[0] + entry.ret)
  BY <1>1 DEF SizeAt, Fresh, Point, Around
<1>3. (Around(8) /\ Copy(mem[0] + entry.ret))'
  BY <1>1, <1>2, BodyFrame, BodySound DEF Around, Point, Copy
<1> QED
  BY <1>3 DEF SizeAt

LEMMA GsRspBody ==
  ASSUME Sound, build = "gs_rsp", GsRspAt, Code!Body \/ Code!Finish
  PROVE  GsRspAt'
<1>1. \/ at = "prologue" /\ i > 3 /\ at' = "body" /\ i' = i
      \/ at = "body" /\ at' = "epilogue" /\ i' = 1
  <2>1. at = "prologue" => Len(Code!Code) = 3
    BY GsRspCode
  <2>2. ASSUME Code!Body PROVE at = "prologue" /\ i > 3 /\ at' = "body" /\ i' = i
    <3>1. at = "prologue" /\ i > Len(Code!Code) /\ at' = "body" /\ i' = i
      BY <2>2 DEF Code!Body
    <3>2. Len(Code!Code) = 3
      BY <2>1, <3>1
    <3> QED
      BY <3>1, <3>2
  <2> QED
    BY <2>2 DEF Code!Finish
<1>2. Around(4) /\ Copy(entry.ret)
  BY <1>1 DEF GsRspAt, Fresh, Point, Around
<1>3. (Around(4) /\ Copy(entry.ret))'
  BY <1>1, <1>2, BodyFrame, BodySound DEF Around, Point, Copy
<1> QED
  BY <1>3 DEF GsRspAt

LEMMA FsGsBody ==
  ASSUME Sound, build = "fs_gs", FsGsAt, Code!Body \/ Code!Finish
  PROVE  FsGsAt'
<1>1. \/ at = "prologue" /\ i > 3 /\ at' = "body" /\ i' = i
      \/ at = "body" /\ at' = "epilogue" /\ i' = 1
  <2>1. at = "prologue" => Len(Code!Code) = 3
    BY FsGsCode
  <2>2. ASSUME Code!Body PROVE at = "prologue" /\ i > 3 /\ at' = "body" /\ i' = i
    <3>1. at = "prologue" /\ i > Len(Code!Code) /\ at' = "body" /\ i' = i
      BY <2>2 DEF Code!Body
    <3>2. Len(Code!Code) = 3
      BY <2>1, <3>1
    <3> QED
      BY <3>1, <3>2
  <2> QED
    BY <2>2 DEF Code!Finish
<1>2. Around(4) /\ Copy(entry.ret)
  BY <1>1 DEF FsGsAt, Fresh, Point, Around
<1>3. (Around(4) /\ Copy(entry.ret))'
  BY <1>1, <1>2, BodyFrame, BodySound DEF Around, Point, Copy
<1> QED
  BY <1>3 DEF FsGsAt

LEMMA MsrBody ==
  ASSUME Sound, build = "fs_gs_msr", MsrAt, Code!Body \/ Code!Finish
  PROVE  MsrAt'
<1>1. \/ at = "prologue" /\ i > 4 /\ at' = "body" /\ i' = i
      \/ at = "body" /\ at' = "epilogue" /\ i' = 1
  <2>1. at = "prologue" => Len(Code!Code) = 4
    BY MsrCode
  <2>2. ASSUME Code!Body PROVE at = "prologue" /\ i > 4 /\ at' = "body" /\ i' = i
    <3>1. at = "prologue" /\ i > Len(Code!Code) /\ at' = "body" /\ i' = i
      BY <2>2 DEF Code!Body
    <3>2. Len(Code!Code) = 4
      BY <2>1, <3>1
    <3> QED
      BY <3>1, <3>2
  <2> QED
    BY <2>2 DEF Code!Finish
<1>2. Around(5) /\ Copy(Masked)
  BY <1>1 DEF MsrAt, Fresh, Point, Around
<1>3. (Around(5) /\ Copy(Masked))'
  BY <1>1, <1>2, BodyFrame, BodySound DEF Around, Point, Copy, Masked
<1> QED
  BY <1>3 DEF MsrAt

LEMMA ShadowBody ==
  ASSUME Sound, build = "shadow_stack", ShadowAt, Code!Body \/ Code!Finish
  PROVE  ShadowAt'
<1>1. \/ at = "prologue" /\ i > 2 /\ at' = "body" /\ i' = i
      \/ at = "body" /\ at' = "epilogue" /\ i' = 1
  <2>1. at = "prologue" => Len(Code!Code) = 2
    BY ShadowCode
  <2>2. ASSUME Code!Body PROVE at = "prologue" /\ i > 2 /\ at' = "body" /\ i' = i
    <3>1. at = "prologue" /\ i > Len(Code!Code) /\ at' = "body" /\ i' = i
      BY <2>2 DEF Code!Body
    <3>2. Len(Code!Code) = 2
      BY <2>1, <3>1
    <3> QED
      BY <3>1, <3>2
  <2> QED
    BY <2>2 DEF Code!Finish
<1>2. Around(3) /\ ShadowCopy
  BY <1>1 DEF ShadowAt, Fresh, Point, Around
<1>3. (Around(3) /\ ShadowCopy)'
  BY <1>1, <1>2, BodyFrame, BodySound DEF Around, Point, ShadowCopy
<1> QED
  BY <1>3 DEF ShadowAt

LEMMA ShadesmarBody ==
  ASSUME Sound, build = "shadesmar", ShadesmarAt, Code!Body \/ Code!Finish
  PROVE  ShadesmarAt'
<1>1. \/ at = "prologue" /\ at' = "body" /\ i' = i
      \/ at = "body" /\ at' = "epilogue" /\ i' = 1
  BY DEF Code!Body, Code!Finish
<1>2. Around(1)
  BY <1>1 DEF ShadesmarAt, Point
<1> QED
  BY <1>1, <1>2, BodyFrame, BodySound DEF ShadesmarAt, Around, Point

LEMMA CallBody ==
  ASSUME Sound, build \in Callers, CallAt, Code!Body \/ Code!Finish
  PROVE  CallAt'
<1>1. ASSUME Code!Body PROVE at = "prologue" /\ i > 7 /\ at' = "body" /\ i' = i /\ reg' = reg
  <2>1. at = "prologue" /\ i > Len(Code!Code) /\ at' = "body" /\ i' = i /\ reg' = reg
    BY <1>1 DEF Code!Body
  <2>2. Len(Code!Code) = 7
    BY <2>1, CallCode
  <2> QED
    BY <2>1, <2>2
<1>2. CASE Code!Body
  <2>1. Point("prologue", 8, 0) /\ Args({"rdi", "rsi", "rdx"})
    BY <1>1, <1>2 DEF CallAt, Fresh, Point
  <2>2. (Point("body", 8, 0) /\ Args({"rdi", "rsi", "rdx"}))'
    BY <1>1, <1>2, <2>1, BodyFrame DEF Point, Args
  <2> QED
    BY <2>2 DEF CallAt
<1>3. CASE Code!Finish
  <2>1. at = "body" /\ at' = "epilogue" /\ i' = 1
    BY <1>3 DEF Code!Finish
  <2>2. Point("body", 8, 0)
    BY <2>1 DEF CallAt, Fresh, Point
  <2>3. Point("epilogue", 1, 0)'
    BY <2>1, <2>2, BodyFrame, BodySound DEF Point
  <2> QED
    BY <2>3 DEF CallAt
<1> QED
  BY <1>2, <1>3

-----------------------------------------------------------------------------
(* A rewritten call enters behind the prologue.                              *)

\* The lengths of the first instructions, as the recursive function gives them.
LEMMA ThreeBytes ==
  ASSUME NEW p, Len(p) = 3, NEW u \in Nat, NEW v \in Nat, NEW w \in Nat,
         p[1].len = u, p[2].len = v, p[3].len = w
  PROVE  Code!Bytes(p)[0] = 0 /\ Code!Bytes(p)[1] = u /\ Code!Bytes(p)[2] = u + v
         /\ Code!Bytes(p)[3] = u + v + w
<1> DEFINE f == [k \in 0 .. Len(p) |-> CASE k = 0 -> 0 [] k = 1 -> u [] k = 2 -> u + v
                [] k = 3 -> u + v + w]
<1>1. f = [k \in 0 .. Len(p) |-> IF k = 0 THEN 0 ELSE f[k - 1] + p[k].len]
  <2>0. 0 .. Len(p) = {0, 1, 2, 3}
    OBVIOUS
  <2>1. f[0] = 0 /\ f[1] = u /\ f[2] = u + v /\ f[3] = u + v + w
    BY <2>0
  <2> DEFINE g == [k \in 0 .. Len(p) |-> IF k = 0 THEN 0 ELSE f[k - 1] + p[k].len]
  <2>2. g[0] = 0 /\ g[1] = u /\ g[2] = u + v /\ g[3] = u + v + w
    <3> HIDE DEF f
    <3> QED
      BY <2>0, <2>1
  <2>3. DOMAIN f = {0, 1, 2, 3} /\ DOMAIN g = {0, 1, 2, 3} /\ f = [k \in DOMAIN f |-> f[k]]
        /\ g = [k \in DOMAIN g |-> g[k]]
    BY <2>0
  <2>4. f = g
    <3> HIDE DEF f, g
    <3> QED
      BY <2>1, <2>2, <2>3
  <2> QED
    BY <2>4
<1> HIDE DEF f
<1>2. Code!Bytes(p) = [k \in 0 .. Len(p) |-> IF k = 0 THEN 0 ELSE Code!Bytes(p)[k - 1] + p[k].len]
  BY <1>1, Zenon DEF Code!Bytes
<1> DEFINE B == Code!Bytes(p)
<1> HIDE DEF B
<1>3. B = [k \in 0 .. Len(p) |-> IF k = 0 THEN 0 ELSE B[k - 1] + p[k].len]
  BY <1>2 DEF B
<1>4. 0 .. Len(p) = {0, 1, 2, 3}
  OBVIOUS
<1>5. B[0] = 0
  BY <1>3, <1>4
<1>6. B[1] = u
  BY <1>3, <1>4, <1>5
<1>7. B[2] = u + v
  BY <1>3, <1>4, <1>6
<1>8. B[3] = u + v + w
  BY <1>3, <1>4, <1>7
<1> QED
  BY <1>5, <1>6, <1>7, <1>8 DEF B

LEMMA FourBytes ==
  ASSUME NEW p, Len(p) = 4, NEW u \in Nat, NEW v \in Nat, NEW w \in Nat, NEW x \in Nat,
         p[1].len = u, p[2].len = v, p[3].len = w, p[4].len = x
  PROVE  Code!Bytes(p)[0] = 0 /\ Code!Bytes(p)[1] = u /\ Code!Bytes(p)[2] = u + v
         /\ Code!Bytes(p)[3] = u + v + w /\ Code!Bytes(p)[4] = u + v + w + x
<1> DEFINE f == [k \in 0 .. Len(p) |-> CASE k = 0 -> 0 [] k = 1 -> u [] k = 2 -> u + v
                [] k = 3 -> u + v + w [] k = 4 -> u + v + w + x]
<1>1. f = [k \in 0 .. Len(p) |-> IF k = 0 THEN 0 ELSE f[k - 1] + p[k].len]
  <2>0. 0 .. Len(p) = {0, 1, 2, 3, 4}
    OBVIOUS
  <2>1. f[0] = 0 /\ f[1] = u /\ f[2] = u + v /\ f[3] = u + v + w /\ f[4] = u + v + w + x
    BY <2>0
  <2> DEFINE g == [k \in 0 .. Len(p) |-> IF k = 0 THEN 0 ELSE f[k - 1] + p[k].len]
  <2>2. g[0] = 0 /\ g[1] = u /\ g[2] = u + v /\ g[3] = u + v + w /\ g[4] = u + v + w + x
    <3> HIDE DEF f
    <3> QED
      BY <2>0, <2>1
  <2>3. DOMAIN f = {0, 1, 2, 3, 4} /\ DOMAIN g = {0, 1, 2, 3, 4}
        /\ f = [k \in DOMAIN f |-> f[k]] /\ g = [k \in DOMAIN g |-> g[k]]
    BY <2>0
  <2>4. f = g
    <3> HIDE DEF f, g
    <3> QED
      BY <2>1, <2>2, <2>3
  <2> QED
    BY <2>4
<1> HIDE DEF f
<1>2. Code!Bytes(p) = [k \in 0 .. Len(p) |-> IF k = 0 THEN 0 ELSE Code!Bytes(p)[k - 1] + p[k].len]
  BY <1>1, Zenon DEF Code!Bytes
<1> DEFINE B == Code!Bytes(p)
<1> HIDE DEF B
<1>3. B = [k \in 0 .. Len(p) |-> IF k = 0 THEN 0 ELSE B[k - 1] + p[k].len]
  BY <1>2 DEF B
<1>4. 0 .. Len(p) = {0, 1, 2, 3, 4}
  OBVIOUS
<1>5. B[0] = 0
  BY <1>3, <1>4
<1>6. B[1] = u
  BY <1>3, <1>4, <1>5
<1>7. B[2] = u + v
  BY <1>3, <1>4, <1>6
<1>8. B[3] = u + v + w
  BY <1>3, <1>4, <1>7
<1>9. B[4] = u + v + w + x
  BY <1>3, <1>4, <1>8
<1> QED
  BY <1>5, <1>6, <1>7, <1>8, <1>9 DEF B

LEMMA GsRspSkips ==
  {n \in 0 .. Len(Code!PrologueOf["gs_rsp"]) :
      Code!Bytes(Code!PrologueOf["gs_rsp"])[n] = Code!LengthOfProtectedPrologue["gs_rsp"]} = {3}
<1> DEFINE p == Code!PrologueOf["gs_rsp"]
<1>1. Len(p) = 3 /\ p[1].len = 4 /\ p[2].len = 10 /\ p[3].len = 5
  BY DEF Code!PrologueOf, Code!GsRspIn, Code!Load, Code!AddM, Code!MovI, Code!Store, Code!Ins
<1> HIDE DEF p
<1>2. Code!Bytes(p)[0] = 0 /\ Code!Bytes(p)[1] = 4 /\ Code!Bytes(p)[2] = 14 /\ Code!Bytes(p)[3] = 19
  <2>1. Code!Bytes(p)[0] = 0 /\ Code!Bytes(p)[1] = 4 /\ Code!Bytes(p)[2] = 4 + 10
        /\ Code!Bytes(p)[3] = 4 + 10 + 5
    BY <1>1, ThreeBytes
  <2> QED
    BY <2>1
<1>3. Code!LengthOfProtectedPrologue["gs_rsp"] = 19
  BY DEF Code!LengthOfProtectedPrologue
<1>4. 0 .. Len(p) = {0, 1, 2, 3}
  BY <1>1
<1>5. {n \in 0 .. Len(p) : Code!Bytes(p)[n] = 19} = {3}
  BY <1>2, <1>4
<1> QED
  BY <1>3, <1>5 DEF p

LEMMA FsGsSkips ==
  {n \in 0 .. Len(Code!PrologueOf["fs_gs"]) :
      Code!Bytes(Code!PrologueOf["fs_gs"])[n] = Code!LengthOfProtectedPrologue["fs_gs"]} = {3}
<1> DEFINE p == Code!PrologueOf["fs_gs"]
<1>1. Len(p) = 3 /\ p[1].len = 4 /\ p[2].len = 9 /\ p[3].len = 4
  BY DEF Code!PrologueOf, Code!FsGsIn, Code!Load, Code!AddM, Code!MovI, Code!Store, Code!Ins
<1> HIDE DEF p
<1>2. Code!Bytes(p)[0] = 0 /\ Code!Bytes(p)[1] = 4 /\ Code!Bytes(p)[2] = 13 /\ Code!Bytes(p)[3] = 17
  <2>1. Code!Bytes(p)[0] = 0 /\ Code!Bytes(p)[1] = 4 /\ Code!Bytes(p)[2] = 4 + 9
        /\ Code!Bytes(p)[3] = 4 + 9 + 4
    BY <1>1, ThreeBytes
  <2> QED
    BY <2>1
<1>3. Code!LengthOfProtectedPrologue["fs_gs"] = 17
  BY DEF Code!LengthOfProtectedPrologue
<1>4. 0 .. Len(p) = {0, 1, 2, 3}
  BY <1>1
<1>5. {n \in 0 .. Len(p) : Code!Bytes(p)[n] = 17} = {3}
  BY <1>2, <1>4
<1> QED
  BY <1>3, <1>5 DEF p

LEMMA MsrSkips ==
  {n \in 0 .. Len(Code!PrologueOf["fs_gs_msr"]) :
      Code!Bytes(Code!PrologueOf["fs_gs_msr"])[n] =
          Code!LengthOfProtectedPrologue["fs_gs_msr"]} = {4}
<1> DEFINE p == Code!PrologueOf["fs_gs_msr"]
<1>1. Len(p) = 4 /\ p[1].len = 4 /\ p[2].len = 9 /\ p[3].len = 9 /\ p[4].len = 4
  BY DEF Code!PrologueOf, Code!MsrIn, Code!Load, Code!AddM, Code!MovI, Code!Store, Code!Ins
<1> HIDE DEF p
<1>2. Code!Bytes(p)[0] = 0 /\ Code!Bytes(p)[1] = 4 /\ Code!Bytes(p)[2] = 13
      /\ Code!Bytes(p)[3] = 22 /\ Code!Bytes(p)[4] = 26
  <2>1. Code!Bytes(p)[0] = 0 /\ Code!Bytes(p)[1] = 4 /\ Code!Bytes(p)[2] = 4 + 9
        /\ Code!Bytes(p)[3] = 4 + 9 + 9 /\ Code!Bytes(p)[4] = 4 + 9 + 9 + 4
    BY <1>1, FourBytes
  <2> QED
    BY <2>1
<1>3. Code!LengthOfProtectedPrologue["fs_gs_msr"] = 26
  BY DEF Code!LengthOfProtectedPrologue
<1>4. 0 .. Len(p) = {0, 1, 2, 3, 4}
  BY <1>1
<1>5. {n \in 0 .. Len(p) : Code!Bytes(p)[n] = 26} = {4}
  BY <1>2, <1>4
<1> QED
  BY <1>3, <1>5 DEF p

Skipping == UNCHANGED <<build, mem, gs, area, entry, target, fault, hit, moves, linked, Code!Slot>>

LEMMA Skipped ==
  ASSUME Sound, Code!SkipCall, NEW n,
         {k \in 0 .. Len(Code!PrologueOf[build]) :
            Code!Bytes(Code!PrologueOf[build])[k] = Code!LengthOfProtectedPrologue[build]} = {n}
  PROVE  Sound' /\ at' = "prologue" /\ i' = 1 + n /\ reg'["rsp"] = reg["rsp"] - 1 /\ Skipping
<1> DEFINE S == {k \in 0 .. Len(Code!PrologueOf[build]) :
                   Code!Bytes(Code!PrologueOf[build])[k] = Code!LengthOfProtectedPrologue[build]}
<1>1. S = {n}
  OBVIOUS
<1>2. IF S = {} THEN fault' = TRUE /\ UNCHANGED <<at, i>>
      ELSE at' = "prologue" /\ i' = 1 + (CHOOSE k \in S : TRUE) /\ UNCHANGED fault
  BY DEF Code!SkipCall
<1>3. /\ reg' = [reg EXCEPT !["rsp"] = @ - 1] /\ at = "link"
      /\ UNCHANGED <<build, mem, gs, area, entry, target, hit, moves, linked>>
  BY DEF Code!SkipCall
<1> HIDE DEF S
<1>4. (CHOOSE k \in S : TRUE) = n
  BY <1>1
<1>5. at' = "prologue" /\ i' = 1 + n /\ UNCHANGED fault
  BY <1>1, <1>2, <1>4
<1>6. Code!Slot' = Code!Slot /\ Distance' = Distance
  BY <1>3 DEF Code!Slot, Distance
<1>7. /\ DOMAIN reg' = RegNames /\ reg'["rsp"] = reg["rsp"] - 1
      /\ \A r \in RegNames \ {"rsp"} : reg'[r] = reg[r]
  BY <1>3 DEF Sound, Shape, RegNames
<1>8. Shape'
  BY <1>3, <1>5, <1>6, <1>7 DEF Sound, Shape, RegNames
<1>9. ~hit' => Words'
  BY <1>3, <1>5, <1>6 DEF Sound, Words
<1>10. Kept'
  BY <1>3, <1>5, <1>7 DEF Sound, Kept, Args, RegNames
<1> QED
  BY <1>3, <1>5, <1>6, <1>7, <1>8, <1>9, <1>10 DEF Sound, Skipping

LEMMA GsRspSkip ==
  ASSUME Sound, build = "gs_rsp", GsRspAt, Code!SkipCall
  PROVE  Sound' /\ GsRspAt'
<1>1. at = "link" /\ i > Len(Code!Code)
  BY DEF Code!SkipCall
<1>2. Len(Code!Code) = 2
  BY <1>1, GsRspCode
<1>3. Point("link", 3, 1) /\ Copy(entry.ret)
  BY <1>1, <1>2 DEF GsRspAt, Fresh, Around, Point
<1>4. Sound' /\ at' = "prologue" /\ i' = 4 /\ reg'["rsp"] = reg["rsp"] - 1 /\ Skipping
  <2>1. {n \in 0 .. Len(Code!PrologueOf[build]) :
           Code!Bytes(Code!PrologueOf[build])[n] = Code!LengthOfProtectedPrologue[build]} = {3}
    BY GsRspSkips
  <2>2. 4 = 1 + 3
    OBVIOUS
  <2> QED
    BY <2>1, <2>2, Skipped
<1>5. reg["rsp"] = entry.rsp + 1 /\ entry.rsp \in Nat
  BY <1>3, Places DEF Point, Sound
<1>6. reg'["rsp"] = entry.rsp
  BY <1>4, <1>5
<1>7. (Around(4) /\ Copy(entry.ret))'
  BY <1>3, <1>4, <1>5, <1>6 DEF Around, Point, Copy, Skipping
<1> QED
  BY <1>4, <1>7 DEF GsRspAt

LEMMA FsGsSkip ==
  ASSUME Sound, build = "fs_gs", FsGsAt, Code!SkipCall
  PROVE  Sound' /\ FsGsAt'
<1>1. at = "link" /\ i > Len(Code!Code)
  BY DEF Code!SkipCall
<1>2. Len(Code!Code) = 2
  BY <1>1, FsGsCode
<1>3. Point("link", 3, 1) /\ Copy(entry.ret)
  BY <1>1, <1>2 DEF FsGsAt, Fresh, Around, Point
<1>4. Sound' /\ at' = "prologue" /\ i' = 4 /\ reg'["rsp"] = reg["rsp"] - 1 /\ Skipping
  <2>1. {n \in 0 .. Len(Code!PrologueOf[build]) :
           Code!Bytes(Code!PrologueOf[build])[n] = Code!LengthOfProtectedPrologue[build]} = {3}
    BY FsGsSkips
  <2>2. 4 = 1 + 3
    OBVIOUS
  <2> QED
    BY <2>1, <2>2, Skipped
<1>5. reg["rsp"] = entry.rsp + 1 /\ entry.rsp \in Nat
  BY <1>3, Places DEF Point, Sound
<1>6. reg'["rsp"] = entry.rsp
  BY <1>4, <1>5
<1>7. (Around(4) /\ Copy(entry.ret))'
  BY <1>3, <1>4, <1>5, <1>6 DEF Around, Point, Copy, Skipping
<1> QED
  BY <1>4, <1>7 DEF FsGsAt

LEMMA MsrSkip ==
  ASSUME Sound, build = "fs_gs_msr", MsrAt, Code!SkipCall
  PROVE  Sound' /\ MsrAt'
<1>1. at = "link" /\ i > Len(Code!Code)
  BY DEF Code!SkipCall
<1>2. Len(Code!Code) = 3
  BY <1>1, MsrCode
<1>3. Point("link", 4, 1) /\ Copy(Masked)
  BY <1>1, <1>2 DEF MsrAt, Fresh, Around, Point
<1>4. Sound' /\ at' = "prologue" /\ i' = 5 /\ reg'["rsp"] = reg["rsp"] - 1 /\ Skipping
  <2>1. {n \in 0 .. Len(Code!PrologueOf[build]) :
           Code!Bytes(Code!PrologueOf[build])[n] = Code!LengthOfProtectedPrologue[build]} = {4}
    BY MsrSkips
  <2>2. 5 = 1 + 4
    OBVIOUS
  <2> QED
    BY <2>1, <2>2, Skipped
<1>5. reg["rsp"] = entry.rsp + 1 /\ entry.rsp \in Nat
  BY <1>3, Places DEF Point, Sound
<1>6. reg'["rsp"] = entry.rsp
  BY <1>4, <1>5
<1>7. (Around(5) /\ Copy(Masked))'
  BY <1>3, <1>4, <1>5, <1>6 DEF Around, Point, Copy, Skipping, Masked
<1> QED
  BY <1>4, <1>7 DEF MsrAt

-----------------------------------------------------------------------------
(* A handler moves the copies, or changes the mask.                          *)

AreaMove ==
    /\ build \in {"gs_rsp", "fs_gs", "fs_gs_msr"}
    /\ area' = 1 - area
    /\ gs' = IF build = "gs_rsp" THEN User + (2 - area) * Size ELSE gs
    /\ mem' = [a \in Code!Addresses |->
          IF a \in Code!Area(1 - area) .. Code!Area(1 - area) + Size - 1
          THEN mem[a - Code!Area(1 - area) + Code!Area(area)]
          ELSE IF a \in Code!Area(area) .. Code!Area(area) + Size - 1 THEN Code!Unmapped
          ELSE IF a = Code!Meta + 1 /\ build # "gs_rsp" THEN (2 - area) * Size
          ELSE mem[a]]

MaskAt == IF build = "fs_gs_msr" THEN Code!Meta + 2 ELSE 0
MaskMove ==
    /\ build \in {"buddy_tls", "buddy_size", "fs_gs_msr"}
    /\ \E x \in Masks :
          mem' = [a \in Code!Addresses |->
                    IF a = MaskAt THEN x
                    ELSE IF a = Code!Slot /\ Code!Copied THEN mem[a] + x - mem[MaskAt]
                    ELSE mem[a]]
    /\ UNCHANGED <<area, gs>>

LEMMA MoveFrame ==
  ASSUME Code!Move
  PROVE  /\ at # "returned" /\ ~fault /\ moves < MaxMoves /\ moves' = moves + 1
         /\ UNCHANGED <<build, at, i, reg, entry, target, fault, linked>>
         /\ hit' = (hit \/ Code!Window)
         /\ AreaMove \/ MaskMove
<1>1. /\ at # "returned" /\ ~fault /\ moves < MaxMoves /\ moves' = moves + 1
      /\ UNCHANGED <<build, at, i, reg, entry, target, fault, linked>>
      /\ hit' = (hit \/ Code!Window)
  BY DEF Code!Move
<1>2. AreaMove \/ MaskMove
  BY Zenon DEF Code!Move, AreaMove, MaskMove, MaskAt
<1> QED
  BY <1>1, <1>2

LEMMA MoveKept ==
  ASSUME Sound, Code!Move
  PROVE  Kept'
BY MoveFrame DEF Sound, Kept, Args

\* The words of the two areas change places with the stack and the words behind them.
LEMMA AreaWords ==
  ASSUME Shape, AreaMove, UNCHANGED <<build, entry>>
  PROVE  /\ DOMAIN mem' = Code!Addresses /\ area' \in {0, 1}
         /\ Distance' = (2 - area) * Size
         /\ Code!Slot' = entry.rsp + Distance'
         /\ mem'[Code!Slot'] = mem[Code!Slot]
         /\ \A a \in Code!Addresses :
               a < 3 * Size \/ (a > 5 * Size /\ a # Code!Meta + 1) => mem'[a] = mem[a]
         /\ build # "gs_rsp" => mem'[Code!Meta + 1] = Distance'
<1>1. /\ entry.rsp \in Nat /\ 2 * Size + 3 <= entry.rsp /\ entry.rsp <= 3 * Size - 2
      /\ Size \in Nat /\ Size >= 2 /\ area \in {0, 1} /\ Code!Meta = 6 * Size
      /\ Code!Slot = entry.rsp + Distance
  BY Places, SlotPlace, Sizes DEF Shape, AreaMove
<1>2. /\ DOMAIN mem' = Code!Addresses
      /\ area' = 1 - area /\ area' \in {0, 1}
  BY <1>1 DEF AreaMove
<1>3. /\ Distance' = (2 - area) * Size
      /\ Code!Slot' = entry.rsp + Distance'
  BY <1>1, <1>2 DEF AreaMove, Distance, Code!Slot
<1>4. PICK o \in Int, n \in Int :
         /\ {o, n} = {3 * Size, 4 * Size} /\ o # n
         /\ o = Code!Area(area) /\ n = Code!Area(1 - area)
         /\ Distance = o - 2 * Size /\ Distance' = n - 2 * Size
  <2>1. CASE area = 0
    <3>1. Code!Area(area) = 3 * Size /\ Code!Area(1 - area) = 4 * Size /\ 3 * Size # 4 * Size
      BY <1>1, <2>1 DEF Code!Area
    <3>2. Distance = 3 * Size - 2 * Size /\ Distance' = 4 * Size - 2 * Size
      BY <1>1, <1>3, <2>1 DEF Distance
    <3>3. 3 * Size \in Int /\ 4 * Size \in Int
      BY <1>1
    <3> QED
      BY <3>1, <3>2, <3>3
  <2>2. CASE area = 1
    <3>1. Code!Area(area) = 4 * Size /\ Code!Area(1 - area) = 3 * Size /\ 3 * Size # 4 * Size
      BY <1>1, <2>2 DEF Code!Area
    <3>2. Distance = 4 * Size - 2 * Size /\ Distance' = 3 * Size - 2 * Size
      BY <1>1, <1>3, <2>2 DEF Distance
    <3>3. 3 * Size \in Int /\ 4 * Size \in Int
      BY <1>1
    <3> QED
      BY <3>1, <3>2, <3>3
  <2> QED
    BY <1>1, <2>1, <2>2
<1> HIDE DEF Distance, Code!Slot
<1>5. \A a \in Code!Addresses :
         mem'[a] = IF a \in n .. n + Size - 1 THEN mem[a - n + o]
                   ELSE IF a \in o .. o + Size - 1 THEN Code!Unmapped
                   ELSE IF a = Code!Meta + 1 /\ build # "gs_rsp" THEN Distance'
                   ELSE mem[a]
  BY <1>3, <1>4 DEF AreaMove
<1>6. mem'[Code!Slot'] = mem[Code!Slot]
  <2>0. Code!Slot' = entry.rsp + (n - 2 * Size) /\ (n = 3 * Size \/ n = 4 * Size)
    BY <1>3, <1>4
  <2>1. Code!Slot' \in Code!Addresses /\ Code!Slot' \in n .. n + Size - 1
    BY <1>1, <2>0, AddressesAre
  <2>2. Code!Slot' - n + o = Code!Slot
    BY <1>1, <1>3, <1>4
  <2> QED
    BY <1>5, <2>1, <2>2
<1>7. \A a \in Code!Addresses :
         a < 3 * Size \/ (a > 5 * Size /\ a # Code!Meta + 1) => mem'[a] = mem[a]
  <2> SUFFICES ASSUME NEW a \in Code!Addresses,
                      a < 3 * Size \/ (a > 5 * Size /\ a # Code!Meta + 1)
               PROVE  mem'[a] = mem[a]
    OBVIOUS
  <2>0. (n = 3 * Size \/ n = 4 * Size) /\ (o = 3 * Size \/ o = 4 * Size)
    BY <1>4
  <2> a \in Int
    BY AddressesAre
  <2>1. a \notin n .. n + Size - 1 /\ a \notin o .. o + Size - 1 /\ a # Code!Meta + 1
    BY <1>1, <2>0
  <2> QED
    BY <1>5, <2>1
<1>8. build # "gs_rsp" => mem'[Code!Meta + 1] = Distance'
  <2>0. (n = 3 * Size \/ n = 4 * Size) /\ (o = 3 * Size \/ o = 4 * Size)
    BY <1>4
  <2>1. /\ Code!Meta + 1 \in Code!Addresses
        /\ Code!Meta + 1 \notin n .. n + Size - 1 /\ Code!Meta + 1 \notin o .. o + Size - 1
    BY <1>1, <2>0, AddressesAre
  <2> QED
    BY <1>5, <2>1
<1> QED
  BY <1>2, <1>3, <1>6, <1>7, <1>8

LEMMA AreaMoved ==
  ASSUME Sound, Code!Move, AreaMove
  PROVE  /\ Sound' /\ Distance' \in {Size, 2 * Size}
         /\ mem'[Code!Slot'] = mem[Code!Slot] /\ mem'[0] = mem[0]
         /\ mem'[Code!Meta + 2] = mem[Code!Meta + 2]
<1>1. /\ UNCHANGED <<build, at, i, reg, entry, target, fault, linked>>
      /\ moves \in Nat /\ moves' \in 0 .. MaxMoves /\ hit' \in BOOLEAN
      /\ ~hit' => ~hit
      /\ build \in {"gs_rsp", "fs_gs", "fs_gs_msr"}
  BY MoveFrame, Sizes DEF Sound, Shape, AreaMove
<1>2. Shape'
  <2>1. gs' = IF build = "gs_rsp" THEN User + Distance' ELSE Code!Meta
    BY <1>1, AreaWords DEF Sound, Shape, AreaMove
  <2>2. DOMAIN mem' = Code!Addresses /\ area' \in {0, 1}
    BY <1>1, AreaWords DEF Sound
  <2> QED
    BY <1>1, <2>1, <2>2 DEF Sound, Shape, Moved
<1>3. /\ mem'[Code!Slot'] = mem[Code!Slot] /\ Distance' \in {Size, 2 * Size}
      /\ build # "gs_rsp" => mem'[Code!Meta + 1] = Distance'
  <2>1. area \in {0, 1} /\ (2 - area) * Size \in {Size, 2 * Size}
    <3>1. CASE area = 0
      BY <3>1, Sizes
    <3>2. CASE area = 1
      BY <3>2, Sizes
    <3> QED
      BY <3>1, <3>2 DEF Sound, Shape
  <2> QED
    BY <1>1, <2>1, AreaWords DEF Sound
<1>4. \A a \in Code!Addresses :
         a < 3 * Size \/ (a > 5 * Size /\ a # Code!Meta + 1) => mem'[a] = mem[a]
  BY <1>1, AreaWords DEF Sound
<1>5. /\ mem'[0] = mem[0] /\ mem'[Code!Meta + 2] = mem[Code!Meta + 2]
      /\ mem'[Code!MaskVar] = mem[Code!MaskVar]
      /\ mem'[entry.rsp] = mem[entry.rsp]
      /\ mem'[entry.rsp + 1 - Size] = mem[entry.rsp + 1 - Size]
  <2>1. /\ 0 \in Code!Addresses /\ Code!Meta + 2 \in Code!Addresses
        /\ Code!MaskVar \in Code!Addresses /\ entry.rsp \in Code!Addresses
        /\ entry.rsp + 1 - Size \in Code!Addresses
        /\ 0 < 3 * Size /\ Code!Meta + 2 > 5 * Size /\ Code!Meta + 2 # Code!Meta + 1
        /\ Code!MaskVar > 5 * Size /\ Code!MaskVar # Code!Meta + 1
        /\ entry.rsp < 3 * Size /\ entry.rsp + 1 - Size < 3 * Size
    BY Places, Sizes, AddressesAre DEF Sound
  <2> QED
    BY <1>4, <2>1
<1>6. Code!Meta' = Code!Meta /\ Code!MaskVar' = Code!MaskVar
  BY DEF Code!Meta, Code!MaskVar
<1>7. ~hit' => Words'
  BY <1>1, <1>3, <1>5, <1>6 DEF Sound, Words
<1> QED
  BY <1>2, <1>3, <1>5, <1>7, MoveKept DEF Sound

LEMMA MaskMoved ==
  ASSUME Sound, Code!Move, MaskMove,
         ~hit /\ Code!Copied => mem[Code!Slot] = mem[MaskAt] + entry.ret
  PROVE  /\ Sound' /\ Distance' = Distance
         /\ ~hit /\ Code!Copied => mem'[Code!Slot'] = mem'[MaskAt'] + entry.ret
<1>1. /\ UNCHANGED <<build, at, i, reg, entry, target, fault, linked, area, gs>>
      /\ moves \in Nat /\ moves' \in 0 .. MaxMoves /\ hit' \in BOOLEAN
      /\ ~hit' => ~hit
      /\ build \in {"buddy_tls", "buddy_size", "fs_gs_msr"}
  BY MoveFrame, Sizes DEF Sound, Shape, MaskMove
<1>2. PICK x \in Masks :
         mem' = [a \in Code!Addresses |->
                   IF a = MaskAt THEN x
                   ELSE IF a = Code!Slot /\ Code!Copied THEN mem[a] + x - mem[MaskAt]
                   ELSE mem[a]]
  BY DEF MaskMove
<1>3. Code!Slot' = Code!Slot /\ Distance' = Distance /\ MaskAt' = MaskAt
  BY <1>1 DEF Code!Slot, Distance, MaskAt, Code!Meta
<1>4. x \in Nat /\ entry.ret \in Nat
  BY Sizes, Places DEF Sound
<1>5. /\ MaskAt \in Code!Addresses /\ Code!Slot \in Code!Addresses
      /\ Code!Meta + 1 \in Code!Addresses /\ Code!Meta + 2 \in Code!Addresses
      /\ Code!MaskVar \in Code!Addresses /\ 0 \in Code!Addresses
      /\ entry.rsp \in Code!Addresses /\ entry.rsp + 1 - Size \in Code!Addresses
  BY Places, SlotPlace, Sizes, AddressesAre DEF Sound, MaskAt
<1>6. /\ MaskAt # Code!Slot /\ MaskAt # entry.rsp /\ MaskAt # entry.rsp + 1 - Size
      /\ MaskAt # Code!MaskVar /\ MaskAt # Code!Meta + 1
      /\ Code!Slot # entry.rsp /\ Code!Slot # entry.rsp + 1 - Size
      /\ Code!Slot # Code!MaskVar /\ Code!Slot # 0
      /\ Code!Slot # Code!Meta + 1 /\ Code!Slot # Code!Meta + 2
  <2>1. MaskAt = 0 \/ MaskAt = 6 * Size + 2
    BY Sizes DEF MaskAt
  <2> HIDE DEF Code!Slot, MaskAt
  <2> QED
    BY <1>1, <2>1, Places, SlotPlace, Sizes DEF Sound
<1> HIDE DEF Code!Slot, Code!Copied
<1>7. /\ mem'[MaskAt] = x /\ mem'[entry.rsp] = mem[entry.rsp]
      /\ mem'[entry.rsp + 1 - Size] = mem[entry.rsp + 1 - Size]
      /\ mem'[Code!MaskVar] = mem[Code!MaskVar] /\ mem'[Code!Meta + 1] = mem[Code!Meta + 1]
      /\ mem'[0] \in {x, mem[0]} /\ mem'[Code!Meta + 2] \in {x, mem[Code!Meta + 2]}
      /\ DOMAIN mem' = Code!Addresses
  BY <1>2, <1>5, <1>6
<1>8. /\ Code!Copied => mem'[Code!Slot] = mem[Code!Slot] + x - mem[MaskAt]
      /\ ~Code!Copied => mem'[Code!Slot] = mem[Code!Slot]
  BY <1>2, <1>5, <1>6
<1>9. ~hit => mem[MaskAt] \in Nat
  BY ReadWords DEF MaskAt
<1>10. ~hit /\ Code!Copied => mem'[Code!Slot] = x + entry.ret
  BY <1>4, <1>8, <1>9
<1>11. ~hit => mem'[Code!Slot] # Code!Unmapped
  <2>1. x + entry.ret # -1
    BY <1>4
  <2> QED
    BY <1>8, <1>10, <2>1 DEF Sound, Words, Code!Unmapped
<1>12. Shape'
  BY <1>1, <1>3, <1>7 DEF Sound, Shape, Moved
<1>13. Code!Meta' = Code!Meta /\ Code!MaskVar' = Code!MaskVar
  BY DEF Code!Meta, Code!MaskVar
<1>14. ~hit' => Words'
  BY <1>1, <1>3, <1>4, <1>7, <1>11, <1>13 DEF Sound, Words
<1>15. ~hit /\ Code!Copied => mem'[Code!Slot'] = mem'[MaskAt'] + entry.ret
  BY <1>3, <1>7, <1>10
<1> QED
  BY <1>3, <1>12, <1>14, <1>15, MoveKept DEF Sound

\* Where the slot holds the copy in the builds with a mask.
LEMMA BuddyCopied ==
  ASSUME Sound, build = "buddy_tls"
  PROVE  Code!Copied <=> at \in {"body", "epilogue"} \/ (at = "prologue" /\ i > 5)
<1>1. ~linked
  BY DEF Sound, Shape, Code!LinkOf
<1>2. CASE at = "prologue"
  <2>1. Len(Code!Code) = 5
    BY <1>2, BuddyCode
  <2> QED
    BY <1>1, <1>2, <2>1 DEF Code!Copied
<1>3. CASE at # "prologue"
  BY <1>1, <1>3 DEF Code!Copied
<1> QED
  BY <1>2, <1>3

LEMMA SizeCopied ==
  ASSUME Sound, build = "buddy_size"
  PROVE  Code!Copied <=> at \in {"body", "epilogue"} \/ (at = "prologue" /\ i > 7)
<1>1. ~linked
  BY DEF Sound, Shape, Code!LinkOf
<1>2. CASE at = "prologue"
  <2>1. Len(Code!Code) = 7
    BY <1>2, SizeCode
  <2> QED
    BY <1>1, <1>2, <2>1 DEF Code!Copied
<1>3. CASE at # "prologue"
  BY <1>1, <1>3 DEF Code!Copied
<1> QED
  BY <1>2, <1>3

LEMMA MsrCopied ==
  ASSUME Sound, build = "fs_gs_msr", at # "returned"
  PROVE  Code!Copied <=> \/ at \in {"body", "epilogue"}
                         \/ at = "prologue" /\ (i > 4 \/ linked)
                         \/ at = "link" /\ linked /\ i > 3
                         \/ at \notin {"prologue", "link"} /\ linked /\ i > Len(Code!Code)
<1>1. CASE at = "prologue"
  <2>1. Len(Code!Code) = 4
    BY <1>1, MsrCode
  <2> QED
    BY <1>1, <2>1 DEF Code!Copied
<1>2. CASE at = "link"
  <2>1. Len(Code!Code) = 3
    BY <1>2, MsrCode
  <2> QED
    BY <1>2, <2>1 DEF Code!Copied
<1>3. CASE at \notin {"prologue", "link"}
  BY <1>3 DEF Code!Copied
<1> QED
  BY <1>1, <1>2, <1>3

LEMMA GsRspMove ==
  ASSUME Sound, build = "gs_rsp", GsRspAt, Code!Move
  PROVE  Sound' /\ GsRspAt'
<1>1. /\ UNCHANGED <<build, at, i, reg, entry, target, linked>> /\ at # "returned"
      /\ hit' = (hit \/ Code!Window)
  BY MoveFrame
<1>2. AreaMove
  BY MoveFrame DEF MaskMove
<1>3. Sound' /\ mem'[Code!Slot'] = mem[Code!Slot]
  BY <1>2, AreaMoved
<1>11. Point("link", 1, 1) /\ linked /\ Val("r11", entry.ret)
       => (Point("link", 1, 1) /\ linked /\ Val("r11", entry.ret))'
  BY <1>1 DEF Point, Val, Code!Window
<1>12. Point("link", 2, 1) /\ linked /\ Val("r11", entry.ret) /\ Val("r10", -User)
       => (Point("link", 2, 1) /\ linked /\ Val("r11", entry.ret) /\ Val("r10", -User))'
  BY <1>1 DEF Point, Val, Code!Window
<1>13. Point("link", 3, 1) /\ linked /\ Copy(entry.ret)
       => (Point("link", 3, 1) /\ linked /\ Copy(entry.ret))'
  BY <1>1, <1>3 DEF Point, Copy, Code!Window
<1>14. Fresh(1) => (Fresh(1))'
  BY <1>1 DEF Point, Fresh, Code!Window
<1>15. Fresh(2) /\ Val("r11", entry.ret) => (Fresh(2) /\ Val("r11", entry.ret))'
  BY <1>1 DEF Point, Val, Fresh, Code!Window
<1>16. Fresh(3) /\ Val("r11", entry.ret) /\ Val("r10", -User)
       => (Fresh(3) /\ Val("r11", entry.ret) /\ Val("r10", -User))'
  BY <1>1 DEF Point, Val, Fresh, Code!Window
<1>17. Around(4) /\ Copy(entry.ret) => (Around(4) /\ Copy(entry.ret))'
  BY <1>1, <1>3 DEF Point, Around, Copy, Code!Window
<1>18. Point("epilogue", 2, 0) /\ Copy(entry.ret) /\ Val("r10", -User)
       => (Point("epilogue", 2, 0) /\ Copy(entry.ret) /\ Val("r10", -User))'
  BY <1>1, <1>3 DEF Point, Val, Copy, Code!Window
<1>19. Point("epilogue", 3, 1) /\ Copy(entry.ret) /\ Val("r10", -User)
       => (Point("epilogue", 3, 1) /\ Copy(entry.ret) /\ Val("r10", -User))'
  BY <1>1, <1>3 DEF Point, Val, Copy, Code!Window
<1> QED
  BY <1>1, <1>3, <1>11, <1>12, <1>13, <1>14, <1>15, <1>16, <1>17, <1>18, <1>19 DEF GsRspAt, Point

LEMMA FsGsMove ==
  ASSUME Sound, build = "fs_gs", FsGsAt, Code!Move
  PROVE  Sound' /\ FsGsAt'
<1>1. /\ UNCHANGED <<build, at, i, reg, entry, target, linked>> /\ at # "returned"
      /\ hit' = (hit \/ Code!Window)
  BY MoveFrame
<1>2. AreaMove
  BY MoveFrame DEF MaskMove
<1>3. Sound' /\ mem'[Code!Slot'] = mem[Code!Slot]
  BY <1>2, AreaMoved
<1>11. Point("link", 1, 1) /\ linked /\ Val("r11", entry.ret)
       => (Point("link", 1, 1) /\ linked /\ Val("r11", entry.ret))'
  BY <1>1 DEF Point, Val, Code!Window
<1>12. Point("link", 2, 1) /\ linked /\ Val("r11", entry.ret) /\ Val("r10", Distance)
       => (Point("link", 2, 1) /\ linked /\ Val("r11", entry.ret) /\ Val("r10", Distance))'
  BY <1>1 DEF Point, Val, Distance, Code!Window
<1>13. Point("link", 3, 1) /\ linked /\ Copy(entry.ret)
       => (Point("link", 3, 1) /\ linked /\ Copy(entry.ret))'
  BY <1>1, <1>3 DEF Point, Copy, Code!Window
<1>14. Fresh(1) => (Fresh(1))'
  BY <1>1 DEF Point, Fresh, Code!Window
<1>15. Fresh(2) /\ Val("r11", entry.ret) => (Fresh(2) /\ Val("r11", entry.ret))'
  BY <1>1 DEF Point, Val, Fresh, Code!Window
<1>16. Fresh(3) /\ Val("r11", entry.ret) /\ Val("r10", Distance)
       => (Fresh(3) /\ Val("r11", entry.ret) /\ Val("r10", Distance))'
  BY <1>1 DEF Point, Val, Fresh, Distance, Code!Window
<1>17. Around(4) /\ Copy(entry.ret) => (Around(4) /\ Copy(entry.ret))'
  BY <1>1, <1>3 DEF Point, Around, Copy, Code!Window
<1>18. Point("epilogue", 2, 0) /\ Copy(entry.ret) /\ Val("r11", Distance)
       => (Point("epilogue", 2, 0) /\ Copy(entry.ret) /\ Val("r11", Distance))'
  BY <1>1, <1>3 DEF Point, Val, Distance, Copy, Code!Window
<1>19. Point("epilogue", 3, 0) /\ Val("r11", entry.ret)
       => (Point("epilogue", 3, 0) /\ Val("r11", entry.ret))'
  BY <1>1 DEF Point, Val, Code!Window
<1>20. Point("epilogue", 4, 1) /\ Val("r11", entry.ret)
       => (Point("epilogue", 4, 1) /\ Val("r11", entry.ret))'
  BY <1>1 DEF Point, Val, Code!Window
<1> QED
  BY <1>1, <1>3, <1>11, <1>12, <1>13, <1>14, <1>15, <1>16, <1>17, <1>18, <1>19, <1>20
     DEF FsGsAt, Point

LEMMA BuddyMove ==
  ASSUME Sound, build = "buddy_tls", BuddyAt, Code!Move
  PROVE  Sound' /\ BuddyAt'
<1>1. /\ UNCHANGED <<build, at, i, reg, entry, target, linked>> /\ at # "returned"
      /\ hit' = (hit \/ Code!Window)
  BY MoveFrame
<1>2. MaskMove /\ MaskAt = 0 /\ MaskAt' = 0
  BY <1>1, MoveFrame DEF AreaMove, MaskAt
<1>3. Code!Copied <=> at \in {"body", "epilogue"} \/ (at = "prologue" /\ i > 5)
  BY BuddyCopied
<1>5. ~hit /\ Code!Copied => mem[Code!Slot] = mem[0] + entry.ret
  BY <1>1, <1>3 DEF BuddyAt, Fresh, Around, Point, Copy
<1>4. Sound' /\ (~hit /\ Code!Copied => mem'[Code!Slot'] = mem'[0] + entry.ret)
  BY <1>2, <1>5, MaskMoved
<1>11. Fresh(1) => (Fresh(1))'
  BY <1>1 DEF Point, Fresh, Code!Window
<1>12. Fresh(2) /\ Val("r11", entry.rsp) => (Fresh(2) /\ Val("r11", entry.rsp))'
  BY <1>1 DEF Point, Val, Fresh, Code!Window
<1>13. Fresh(3) /\ Val("r11", 2 * Size) => (Fresh(3) /\ Val("r11", 2 * Size))'
  BY <1>1 DEF Point, Val, Fresh, Code!Window
<1>14. Fresh(4) /\ Val("r11", mem[0]) => (Fresh(4) /\ Val("r11", mem[0]))'
  BY <1>1, <1>3, <1>4 DEF Point, Val, Fresh, Code!Window
<1>15. Fresh(5) /\ Val("r11", mem[0] + entry.ret) => (Fresh(5) /\ Val("r11", mem[0] + entry.ret))'
  BY <1>1, <1>3, <1>4 DEF Point, Val, Fresh, Code!Window
<1>16. Around(6) /\ Copy(mem[0] + entry.ret) => (Around(6) /\ Copy(mem[0] + entry.ret))'
  <2>1. Around(6) => Code!Copied
    BY <1>3 DEF Around, Point
  <2>2. Around(6) => (Around(6))'
    BY <1>1 DEF Around, Point
  <2> QED
    BY <1>1, <1>4, <2>1, <2>2 DEF Copy
<1>17. Point("epilogue", 2, 0) /\ Copy(mem[0] + entry.ret) /\ Val("r10", entry.rsp)
       => (Point("epilogue", 2, 0) /\ Copy(mem[0] + entry.ret) /\ Val("r10", entry.rsp))'
  BY <1>1, <1>3, <1>4 DEF Point, Val, Copy, Code!Window
<1>18. Point("epilogue", 3, 0) /\ Copy(mem[0] + entry.ret) /\ Val("r10", 2 * Size)
       => (Point("epilogue", 3, 0) /\ Copy(mem[0] + entry.ret) /\ Val("r10", 2 * Size))'
  BY <1>1, <1>3, <1>4 DEF Point, Val, Copy, Code!Window
<1>19. Point("epilogue", 4, 0) /\ Copy(mem[0] + entry.ret) /\ Val("r10", 2 * Size)
       /\ Val("r11", mem[0] + entry.ret)
          => (Point("epilogue", 4, 0) /\ Copy(mem[0] + entry.ret) /\ Val("r10", 2 * Size)
              /\ Val("r11", mem[0] + entry.ret))'
  BY <1>1, <1>3, <1>4 DEF Point, Val, Copy, Code!Window
<1>20. Point("epilogue", 5, 0) /\ Copy(mem[0] + entry.ret) /\ Val("r11", entry.ret)
       => (Point("epilogue", 5, 0) /\ Copy(mem[0] + entry.ret) /\ Val("r11", entry.ret))'
  BY <1>1, <1>3, <1>4 DEF Point, Val, Copy, Code!Window
<1>21. Point("epilogue", 6, 1) /\ Copy(mem[0] + entry.ret) /\ Val("r11", entry.ret)
       => (Point("epilogue", 6, 1) /\ Copy(mem[0] + entry.ret) /\ Val("r11", entry.ret))'
  BY <1>1, <1>3, <1>4 DEF Point, Val, Copy, Code!Window
<1> QED
  BY <1>1, <1>4, <1>11, <1>12, <1>13, <1>14, <1>15, <1>16, <1>17, <1>18, <1>19, <1>20, <1>21
     DEF BuddyAt, Point

LEMMA SizeMove ==
  ASSUME Sound, build = "buddy_size", SizeAt, Code!Move
  PROVE  Sound' /\ SizeAt'
<1>1. /\ UNCHANGED <<build, at, i, reg, entry, target, linked>> /\ at # "returned"
      /\ hit' = (hit \/ Code!Window)
  BY MoveFrame
<1>2. MaskMove /\ MaskAt = 0 /\ MaskAt' = 0
  BY <1>1, MoveFrame DEF AreaMove, MaskAt
<1>3. Code!Copied <=> at \in {"body", "epilogue"} \/ (at = "prologue" /\ i > 7)
  BY SizeCopied
<1>5. ~hit /\ Code!Copied => mem[Code!Slot] = mem[0] + entry.ret
  BY <1>1, <1>3 DEF SizeAt, Fresh, Around, Point, Copy
<1>4. Sound' /\ (~hit /\ Code!Copied => mem'[Code!Slot'] = mem'[0] + entry.ret)
  BY <1>2, <1>5, MaskMoved
<1>11. Fresh(1) => (Fresh(1))'
  BY <1>1 DEF Point, Fresh, Code!Window
<1>12. Fresh(2) /\ Val("r11", entry.rsp) => (Fresh(2) /\ Val("r11", entry.rsp))'
  BY <1>1 DEF Point, Val, Fresh, Code!Window
<1>13. Fresh(3) /\ Val("r11", entry.rsp) /\ Val("r10", Code!MaskVar)
       => (Fresh(3) /\ Val("r11", entry.rsp) /\ Val("r10", Code!MaskVar))'
  BY <1>1 DEF Point, Val, Fresh, Code!Window, Code!MaskVar
<1>14. Fresh(4) /\ Val("r11", entry.rsp) /\ Val("r10", -Size)
       => (Fresh(4) /\ Val("r11", entry.rsp) /\ Val("r10", -Size))'
  BY <1>1 DEF Point, Val, Fresh, Code!Window
<1>15. Fresh(5) /\ Val("r11", 2 * Size) /\ Val("r10", -Size)
       => (Fresh(5) /\ Val("r11", 2 * Size) /\ Val("r10", -Size))'
  BY <1>1 DEF Point, Val, Fresh, Code!Window
<1>16. Fresh(6) /\ Val("r11", mem[0]) /\ Val("r10", -Size)
       => (Fresh(6) /\ Val("r11", mem[0]) /\ Val("r10", -Size))'
  BY <1>1, <1>3, <1>4 DEF Point, Val, Fresh, Code!Window
<1>17. Fresh(7) /\ Val("r11", mem[0] + entry.ret) /\ Val("r10", -Size)
       => (Fresh(7) /\ Val("r11", mem[0] + entry.ret) /\ Val("r10", -Size))'
  BY <1>1, <1>3, <1>4 DEF Point, Val, Fresh, Code!Window
<1>18. Around(8) /\ Copy(mem[0] + entry.ret) => (Around(8) /\ Copy(mem[0] + entry.ret))'
  <2>1. Around(8) => Code!Copied
    BY <1>3 DEF Around, Point
  <2>2. Around(8) => (Around(8))'
    BY <1>1 DEF Around, Point
  <2> QED
    BY <1>1, <1>4, <2>1, <2>2 DEF Copy
<1>19. Point("epilogue", 2, 0) /\ Copy(mem[0] + entry.ret) /\ Val("r11", entry.rsp)
       => (Point("epilogue", 2, 0) /\ Copy(mem[0] + entry.ret) /\ Val("r11", entry.rsp))'
  BY <1>1, <1>3, <1>4 DEF Point, Val, Copy, Code!Window
<1>20. Point("epilogue", 3, 0) /\ Copy(mem[0] + entry.ret) /\ Val("r11", entry.rsp)
       /\ Val("r10", Code!MaskVar)
          => (Point("epilogue", 3, 0) /\ Copy(mem[0] + entry.ret) /\ Val("r11", entry.rsp)
              /\ Val("r10", Code!MaskVar))'
  BY <1>1, <1>3, <1>4 DEF Point, Val, Copy, Code!Window, Code!MaskVar
<1>21. Point("epilogue", 4, 0) /\ Copy(mem[0] + entry.ret) /\ Val("r11", entry.rsp)
       /\ Val("r10", -Size)
          => (Point("epilogue", 4, 0) /\ Copy(mem[0] + entry.ret) /\ Val("r11", entry.rsp)
              /\ Val("r10", -Size))'
  BY <1>1, <1>3, <1>4 DEF Point, Val, Copy, Code!Window
<1>22. Point("epilogue", 5, 0) /\ Copy(mem[0] + entry.ret) /\ Val("r11", 2 * Size)
       /\ Val("r10", -Size)
          => (Point("epilogue", 5, 0) /\ Copy(mem[0] + entry.ret) /\ Val("r11", 2 * Size)
              /\ Val("r10", -Size))'
  BY <1>1, <1>3, <1>4 DEF Point, Val, Copy, Code!Window
<1>23. Point("epilogue", 6, 0) /\ Copy(mem[0] + entry.ret) /\ Val("r11", mem[0])
       /\ Val("r10", -Size)
          => (Point("epilogue", 6, 0) /\ Copy(mem[0] + entry.ret) /\ Val("r11", mem[0])
              /\ Val("r10", -Size))'
  BY <1>1, <1>3, <1>4 DEF Point, Val, Copy, Code!Window
<1>24. Point("epilogue", 7, 0) /\ Copy(mem[0] + entry.ret) /\ Both
       => (Point("epilogue", 7, 0) /\ Copy(mem[0] + entry.ret) /\ Both)'
  BY <1>1, <1>3, <1>4 DEF Point, Both, Copy, Code!Window
<1>25. Point("epilogue", 8, 0) /\ Copy(mem[0] + entry.ret) /\ Val("r10", entry.ret)
       => (Point("epilogue", 8, 0) /\ Copy(mem[0] + entry.ret) /\ Val("r10", entry.ret))'
  BY <1>1, <1>3, <1>4 DEF Point, Val, Copy, Code!Window
<1>26. Point("epilogue", 9, 1) /\ Copy(mem[0] + entry.ret) /\ Val("r10", entry.ret)
       => (Point("epilogue", 9, 1) /\ Copy(mem[0] + entry.ret) /\ Val("r10", entry.ret))'
  BY <1>1, <1>3, <1>4 DEF Point, Val, Copy, Code!Window
<1> QED
  BY <1>1, <1>4, <1>11, <1>12, <1>13, <1>14, <1>15, <1>16, <1>17, <1>18, <1>19, <1>20, <1>21,
     <1>22, <1>23, <1>24, <1>25, <1>26 DEF SizeAt, Point

LEMMA MsrMove ==
  ASSUME Sound, build = "fs_gs_msr", MsrAt, Code!Move
  PROVE  Sound' /\ MsrAt'
<1>1. /\ UNCHANGED <<build, at, i, reg, entry, target, linked>> /\ at # "returned"
      /\ hit' = (hit \/ Code!Window)
  BY MoveFrame
<1>2. MaskAt = Code!Meta + 2 /\ MaskAt' = Code!Meta + 2 /\ (AreaMove \/ MaskMove)
  BY <1>1, MoveFrame DEF MaskAt, Code!Meta
<1>3. Code!Copied <=> \/ at \in {"body", "epilogue"}
                      \/ at = "prologue" /\ (i > 4 \/ linked)
                      \/ at = "link" /\ linked /\ i > 3
                      \/ at \notin {"prologue", "link"} /\ linked /\ i > Len(Code!Code)
  BY <1>1, MsrCopied
<1>5. ~hit /\ Code!Copied => mem[Code!Slot] = Masked
  BY <1>1, <1>3 DEF MsrAt, Fresh, Around, Point, Copy
<1>4. Sound' /\ (~hit /\ Code!Copied => mem'[Code!Slot'] = Masked')
  <2>1. CASE AreaMove
    BY <1>1, <1>5, <2>1, AreaMoved DEF Masked, Code!Meta
  <2>2. CASE MaskMove
    BY <1>1, <1>2, <1>5, <2>2, MaskMoved DEF Masked
  <2> QED
    BY <1>2, <2>1, <2>2
<1>11. Point("link", 1, 1) /\ linked /\ Val("r11", entry.ret)
       => (Point("link", 1, 1) /\ linked /\ Val("r11", entry.ret))'
  BY <1>1 DEF Point, Val, Code!Window
<1>12. Point("link", 2, 1) /\ linked /\ Val("r11", Masked)
       => (Point("link", 2, 1) /\ linked /\ Val("r11", Masked))'
  BY <1>1, <1>3, <1>4 DEF Point, Val, Masked, Code!Window
<1>13. Point("link", 3, 1) /\ linked /\ Val("r11", Masked) /\ Val("r10", Distance)
       => (Point("link", 3, 1) /\ linked /\ Val("r11", Masked) /\ Val("r10", Distance))'
  BY <1>1, <1>3, <1>4 DEF Point, Val, Masked, Distance, Code!Window
<1>14. Point("link", 4, 1) /\ linked /\ Copy(Masked)
       => (Point("link", 4, 1) /\ linked /\ Copy(Masked))'
  <2>1. Point("link", 4, 1) /\ linked => Code!Copied
    BY <1>3 DEF Around, Point
  <2>2. Point("link", 4, 1) /\ linked => (Point("link", 4, 1) /\ linked)'
    BY <1>1 DEF Around, Point
  <2> QED
    BY <1>1, <1>4, <2>1, <2>2 DEF Copy
<1>15. Fresh(1) => (Fresh(1))'
  BY <1>1 DEF Point, Fresh, Code!Window
<1>16. Fresh(2) /\ Val("r11", entry.ret) => (Fresh(2) /\ Val("r11", entry.ret))'
  BY <1>1 DEF Point, Val, Fresh, Code!Window
<1>17. Fresh(3) /\ Val("r11", Masked) => (Fresh(3) /\ Val("r11", Masked))'
  BY <1>1, <1>3, <1>4 DEF Point, Val, Fresh, Masked, Code!Window
<1>18. Fresh(4) /\ Val("r11", Masked) /\ Val("r10", Distance)
       => (Fresh(4) /\ Val("r11", Masked) /\ Val("r10", Distance))'
  BY <1>1, <1>3, <1>4 DEF Point, Val, Fresh, Masked, Distance, Code!Window
<1>19. Around(5) /\ Copy(Masked) => (Around(5) /\ Copy(Masked))'
  <2>1. Around(5) => Code!Copied
    BY <1>3 DEF Around, Point
  <2>2. Around(5) => (Around(5))'
    BY <1>1 DEF Around, Point
  <2> QED
    BY <1>1, <1>4, <2>1, <2>2 DEF Copy
<1>20. Point("epilogue", 2, 0) /\ Copy(Masked) /\ Val("r11", Distance)
       => (Point("epilogue", 2, 0) /\ Copy(Masked) /\ Val("r11", Distance))'
  BY <1>1, <1>3, <1>4 DEF Point, Val, Masked, Distance, Copy, Code!Window
<1>21. Point("epilogue", 3, 0) /\ Copy(Masked) /\ Val("r11", Masked)
       => (Point("epilogue", 3, 0) /\ Copy(Masked) /\ Val("r11", Masked))'
  BY <1>1, <1>3, <1>4 DEF Point, Val, Masked, Copy, Code!Window
<1>22. Point("epilogue", 4, 0) /\ Copy(Masked) /\ Val("r11", entry.ret)
       => (Point("epilogue", 4, 0) /\ Copy(Masked) /\ Val("r11", entry.ret))'
  BY <1>1, <1>3, <1>4 DEF Point, Val, Masked, Copy, Code!Window
<1>23. Point("epilogue", 5, 1) /\ Copy(Masked) /\ Val("r11", entry.ret)
       => (Point("epilogue", 5, 1) /\ Copy(Masked) /\ Val("r11", entry.ret))'
  BY <1>1, <1>3, <1>4 DEF Point, Val, Masked, Copy, Code!Window
<1> QED
  BY <1>1, <1>4, <1>11, <1>12, <1>13, <1>14, <1>15, <1>16, <1>17, <1>18, <1>19, <1>20, <1>21,
     <1>22, <1>23 DEF MsrAt, Point

-----------------------------------------------------------------------------
(* One step of any kind, in every build.                                     *)

\* A step that stops at a wrong address: a move fell in a window.
LEMMA StuckSound ==
  ASSUME Sound, Code!Step, Stuck
  PROVE  /\ Sound'
         /\ UNCHANGED <<build, at, i, reg, mem, area, entry, target, hit, linked>>
<1>1. UNCHANGED <<build, at, i, reg, mem, gs, area, entry, target, hit, moves, linked>>
  BY StepFrame DEF Stuck
<1>2. hit' /\ fault' \in BOOLEAN
  BY <1>1 DEF Stuck
<1>3. Shape'
  BY <1>1, <1>2 DEF Sound, Shape, Distance
<1>4. Kept'
  BY <1>1 DEF Sound, Kept, Args
<1> QED
  BY <1>1, <1>2, <1>3, <1>4 DEF Sound

LEMMA ShadowNext ==
  ASSUME Sound, build = "shadow_stack", ShadowAt, Code!Next
  PROVE  Sound' /\ ShadowAt'
<1>1. CASE Code!Step /\ ~Stuck
  BY <1>1, ShadowStep
<1>2. CASE Code!Step /\ Stuck
  <2>1. Sound' /\ UNCHANGED <<build, at, i, reg, mem, area, entry, target, hit, linked>>
    BY <1>2, StuckSound
  <2>2. ShadowAt'
    BY <2>1 DEF ShadowAt, Fresh, Around, Point, ShadowCopy, Val, HomeTarget
  <2> QED
    BY <2>1, <2>2
<1>3. ~Code!SkipCall
  BY DEF Code!SkipCall, ShadowAt, Fresh, Around, Point
<1>4. CASE Code!Body \/ Code!Finish
  BY <1>4, BodySound, ShadowBody
<1>5. ~Code!Move
  BY MoveFrame DEF AreaMove, MaskMove, Callers
<1> QED
  BY <1>1, <1>2, <1>3, <1>4, <1>5 DEF Code!Next

LEMMA RegNext ==
  ASSUME Sound, build = "via_reg", RegAt, Code!Next
  PROVE  Sound' /\ RegAt'
<1>1. CASE Code!Step /\ ~Stuck
  BY <1>1, RegStep
<1>2. CASE Code!Step /\ Stuck
  <2>1. Sound' /\ UNCHANGED <<build, at, i, reg, mem, area, entry, target, hit, linked>>
    BY <1>2, StuckSound
  <2>2. RegAt'
    BY <2>1 DEF RegAt, Fresh, Around, Point, Val, Copy, Code!Slot, HomeTarget
  <2> QED
    BY <2>1, <2>2
<1>3. ~Code!SkipCall
  BY DEF Code!SkipCall, RegAt, Fresh, Around, Point
<1>4. CASE Code!Body \/ Code!Finish
  BY <1>4, BodySound, RegBody
<1>5. ~Code!Move
  BY MoveFrame DEF AreaMove, MaskMove, Callers
<1> QED
  BY <1>1, <1>2, <1>3, <1>4, <1>5 DEF Code!Next

LEMMA GlobalNext ==
  ASSUME Sound, build = "global", GlobalAt, Code!Next
  PROVE  Sound' /\ GlobalAt'
<1>1. CASE Code!Step /\ ~Stuck
  BY <1>1, GlobalStep
<1>2. CASE Code!Step /\ Stuck
  <2>1. Sound' /\ UNCHANGED <<build, at, i, reg, mem, area, entry, target, hit, linked>>
    BY <1>2, StuckSound
  <2>2. GlobalAt'
    BY <2>1 DEF GlobalAt, Fresh, Around, Point, Val, Copy, Code!Slot, HomeTarget
  <2> QED
    BY <2>1, <2>2
<1>3. ~Code!SkipCall
  BY DEF Code!SkipCall, GlobalAt, Fresh, Around, Point
<1>4. CASE Code!Body \/ Code!Finish
  BY <1>4, BodySound, GlobalBody
<1>5. ~Code!Move
  BY MoveFrame DEF AreaMove, MaskMove, Callers
<1> QED
  BY <1>1, <1>2, <1>3, <1>4, <1>5 DEF Code!Next

LEMMA BuddyNext ==
  ASSUME Sound, build = "buddy_tls", BuddyAt, Code!Next
  PROVE  Sound' /\ BuddyAt'
<1>1. CASE Code!Step /\ ~Stuck
  BY <1>1, BuddyStep
<1>2. CASE Code!Step /\ Stuck
  <2>1. Sound' /\ UNCHANGED <<build, at, i, reg, mem, area, entry, target, hit, linked>>
    BY <1>2, StuckSound
  <2>2. BuddyAt'
    BY <2>1 DEF BuddyAt, Fresh, Around, Point, Val, Copy, Code!Slot, HomeTarget
  <2> QED
    BY <2>1, <2>2
<1>3. ~Code!SkipCall
  BY DEF Code!SkipCall, BuddyAt, Fresh, Around, Point
<1>4. CASE Code!Body \/ Code!Finish
  BY <1>4, BodySound, BuddyBody
<1>5. CASE Code!Move
  BY <1>5, BuddyMove
<1> QED
  BY <1>1, <1>2, <1>3, <1>4, <1>5 DEF Code!Next

LEMMA SizeNext ==
  ASSUME Sound, build = "buddy_size", SizeAt, Code!Next
  PROVE  Sound' /\ SizeAt'
<1>1. CASE Code!Step /\ ~Stuck
  BY <1>1, SizeStep
<1>2. CASE Code!Step /\ Stuck
  <2>1. Sound' /\ UNCHANGED <<build, at, i, reg, mem, area, entry, target, hit, linked>>
    BY <1>2, StuckSound
  <2>2. SizeAt'
    BY <2>1 DEF SizeAt, Fresh, Around, Point, Val, Copy, Both, Code!Slot, HomeTarget
  <2> QED
    BY <2>1, <2>2
<1>3. ~Code!SkipCall
  BY DEF Code!SkipCall, SizeAt, Fresh, Around, Point
<1>4. CASE Code!Body \/ Code!Finish
  BY <1>4, BodySound, SizeBody
<1>5. CASE Code!Move
  BY <1>5, SizeMove
<1> QED
  BY <1>1, <1>2, <1>3, <1>4, <1>5 DEF Code!Next

LEMMA GsRspNext ==
  ASSUME Sound, build = "gs_rsp", GsRspAt, Code!Next
  PROVE  Sound' /\ GsRspAt'
<1>1. CASE Code!Step /\ ~Stuck
  BY <1>1, GsRspStep
<1>2. CASE Code!Step /\ Stuck
  <2>1. Sound' /\ UNCHANGED <<build, at, i, reg, mem, area, entry, target, hit, linked>>
    BY <1>2, StuckSound
  <2>2. GsRspAt'
    BY <2>1 DEF GsRspAt, Fresh, Around, Point, Val, Copy, Code!Slot, HomeTarget
  <2> QED
    BY <2>1, <2>2
<1>3. CASE Code!SkipCall
  BY <1>3, GsRspSkip
<1>4. CASE Code!Body \/ Code!Finish
  BY <1>4, BodySound, GsRspBody
<1>5. CASE Code!Move
  BY <1>5, GsRspMove
<1> QED
  BY <1>1, <1>2, <1>3, <1>4, <1>5 DEF Code!Next

LEMMA FsGsNext ==
  ASSUME Sound, build = "fs_gs", FsGsAt, Code!Next
  PROVE  Sound' /\ FsGsAt'
<1>1. CASE Code!Step /\ ~Stuck
  BY <1>1, FsGsStep
<1>2. CASE Code!Step /\ Stuck
  <2>1. Sound' /\ UNCHANGED <<build, at, i, reg, mem, area, entry, target, hit, linked>>
    BY <1>2, StuckSound
  <2>2. FsGsAt'
    BY <2>1 DEF FsGsAt, Fresh, Around, Point, Val, Copy, Distance, Code!Slot, HomeTarget
  <2> QED
    BY <2>1, <2>2
<1>3. CASE Code!SkipCall
  BY <1>3, FsGsSkip
<1>4. CASE Code!Body \/ Code!Finish
  BY <1>4, BodySound, FsGsBody
<1>5. CASE Code!Move
  BY <1>5, FsGsMove
<1> QED
  BY <1>1, <1>2, <1>3, <1>4, <1>5 DEF Code!Next

LEMMA MsrNext ==
  ASSUME Sound, build = "fs_gs_msr", MsrAt, Code!Next
  PROVE  Sound' /\ MsrAt'
<1>1. CASE Code!Step /\ ~Stuck
  BY <1>1, MsrStep
<1>2. CASE Code!Step /\ Stuck
  <2>1. Sound' /\ UNCHANGED <<build, at, i, reg, mem, area, entry, target, hit, linked>>
    BY <1>2, StuckSound
  <2>2. MsrAt'
    BY <2>1 DEF MsrAt, Fresh, Around, Point, Val, Copy, Masked, Distance, Code!Slot, HomeTarget
  <2> QED
    BY <2>1, <2>2
<1>3. CASE Code!SkipCall
  BY <1>3, MsrSkip
<1>4. CASE Code!Body \/ Code!Finish
  BY <1>4, BodySound, MsrBody
<1>5. CASE Code!Move
  BY <1>5, MsrMove
<1> QED
  BY <1>1, <1>2, <1>3, <1>4, <1>5 DEF Code!Next

LEMMA ShadesmarNext ==
  ASSUME Sound, build = "shadesmar", ShadesmarAt, Code!Next
  PROVE  Sound' /\ ShadesmarAt'
<1>1. CASE Code!Step
  BY <1>1, ShadesmarStep
<1>3. ~Code!SkipCall
  BY DEF Code!SkipCall, ShadesmarAt, Fresh, Around, Point
<1>4. CASE Code!Body \/ Code!Finish
  BY <1>4, BodySound, ShadesmarBody
<1>5. ~Code!Move
  BY MoveFrame DEF AreaMove, MaskMove, Callers
<1> QED
  BY <1>1, <1>3, <1>4, <1>5 DEF Code!Next

LEMMA CallNext ==
  ASSUME Sound, build \in Callers, CallAt, Code!Next
  PROVE  Sound' /\ CallAt'
<1>1. CASE Code!Step
  BY <1>1, CallStep
<1>3. ~Code!SkipCall
  BY DEF Code!SkipCall, CallAt, Fresh, Around, Point
<1>4. CASE Code!Body \/ Code!Finish
  BY <1>4, BodySound, CallBody
<1>5. ~Code!Move
  BY MoveFrame DEF AreaMove, MaskMove, Callers
<1> QED
  BY <1>1, <1>3, <1>4, <1>5 DEF Code!Next

LEMMA KnownBuild ==
  ASSUME Shape
  PROVE  build \in {"shadow_stack", "via_reg", "global", "buddy_tls", "buddy_size", "gs_rsp",
                    "fs_gs", "fs_gs_msr", "shadesmar"} \cup Callers
BY CodeAssumption DEF Shape, Callers, Code!BuildAssumption, Code!AllBuilds

LEMMA TableNext ==
  ASSUME Sound, Table, Code!Next
  PROVE  Sound' /\ Table'
<1>1. build' = build
  BY StepFrame, BodyFrame, MoveFrame DEF Code!Next, Code!SkipCall
<1>2. CASE build = "shadow_stack"
  BY <1>1, <1>2, ShadowNext DEF Table, Callers
<1>3. CASE build = "via_reg"
  BY <1>1, <1>3, RegNext DEF Table, Callers
<1>4. CASE build = "global"
  BY <1>1, <1>4, GlobalNext DEF Table, Callers
<1>5. CASE build = "buddy_tls"
  BY <1>1, <1>5, BuddyNext DEF Table, Callers
<1>6. CASE build = "buddy_size"
  BY <1>1, <1>6, SizeNext DEF Table, Callers
<1>7. CASE build = "gs_rsp"
  BY <1>1, <1>7, GsRspNext DEF Table, Callers
<1>8. CASE build = "fs_gs"
  BY <1>1, <1>8, FsGsNext DEF Table, Callers
<1>9. CASE build = "fs_gs_msr"
  BY <1>1, <1>9, MsrNext DEF Table, Callers
<1>10. CASE build = "shadesmar"
  BY <1>1, <1>10, ShadesmarNext DEF Table, Callers
<1>11. CASE build \in Callers
  BY <1>1, <1>11, CallNext DEF Table, Callers
<1>12. build \in {"shadow_stack", "via_reg", "global", "buddy_tls", "buddy_size", "gs_rsp",
                  "fs_gs", "fs_gs_msr", "shadesmar"} \cup Callers
  BY KnownBuild DEF Sound
<1> QED
  BY <1>2, <1>3, <1>4, <1>5, <1>6, <1>7, <1>8, <1>9, <1>10, <1>11, <1>12

-----------------------------------------------------------------------------
(* What the table says of the places of a call.                              *)

KnownPlace ==
    /\ at \in {"link", "prologue", "body", "epilogue", "returned"} /\ i \in 1 .. 10
    /\ \E up \in -3 .. 1 : reg["rsp"] = entry.rsp + up
    /\ at = "body" => reg["rsp"] = entry.rsp + 0
    /\ at = "returned" => reg["rsp"] = entry.rsp + 1 /\ HomeTarget

LEMMA ShadowPlaces ==
  ASSUME ShadowAt
  PROVE  KnownPlace
BY DEF ShadowAt, KnownPlace, Point, Fresh, Around

LEMMA RegPlaces ==
  ASSUME RegAt
  PROVE  KnownPlace
BY DEF RegAt, KnownPlace, Point, Fresh, Around

LEMMA GlobalPlaces ==
  ASSUME GlobalAt
  PROVE  KnownPlace
BY DEF GlobalAt, KnownPlace, Point, Fresh, Around

LEMMA BuddyPlaces ==
  ASSUME BuddyAt
  PROVE  KnownPlace
BY DEF BuddyAt, KnownPlace, Point, Fresh, Around

LEMMA SizePlaces ==
  ASSUME SizeAt
  PROVE  KnownPlace
BY DEF SizeAt, KnownPlace, Point, Fresh, Around

LEMMA GsRspPlaces ==
  ASSUME GsRspAt
  PROVE  KnownPlace
BY DEF GsRspAt, KnownPlace, Point, Fresh, Around

LEMMA FsGsPlaces ==
  ASSUME FsGsAt
  PROVE  KnownPlace
BY DEF FsGsAt, KnownPlace, Point, Fresh, Around

LEMMA MsrPlaces ==
  ASSUME MsrAt
  PROVE  KnownPlace
BY DEF MsrAt, KnownPlace, Point, Fresh, Around

LEMMA ShadesmarPlaces ==
  ASSUME ShadesmarAt
  PROVE  KnownPlace
BY DEF ShadesmarAt, KnownPlace, Point, Fresh, Around

LEMMA CallPlaces ==
  ASSUME CallAt
  PROVE  KnownPlace
BY DEF CallAt, KnownPlace, Point, Fresh, Around

LEMMA TablePlaces ==
  ASSUME Sound, Table
  PROVE  KnownPlace
<1>2. CASE build = "shadow_stack"
  BY <1>2, ShadowPlaces DEF Table, Callers
<1>3. CASE build = "via_reg"
  BY <1>3, RegPlaces DEF Table, Callers
<1>4. CASE build = "global"
  BY <1>4, GlobalPlaces DEF Table, Callers
<1>5. CASE build = "buddy_tls"
  BY <1>5, BuddyPlaces DEF Table, Callers
<1>6. CASE build = "buddy_size"
  BY <1>6, SizePlaces DEF Table, Callers
<1>7. CASE build = "gs_rsp"
  BY <1>7, GsRspPlaces DEF Table, Callers
<1>8. CASE build = "fs_gs"
  BY <1>8, FsGsPlaces DEF Table, Callers
<1>9. CASE build = "fs_gs_msr"
  BY <1>9, MsrPlaces DEF Table, Callers
<1>10. CASE build = "shadesmar"
  BY <1>10, ShadesmarPlaces DEF Table, Callers
<1>11. CASE build \in Callers
  BY <1>11, CallPlaces DEF Table, Callers
<1>12. build \in {"shadow_stack", "via_reg", "global", "buddy_tls", "buddy_size", "gs_rsp",
                  "fs_gs", "fs_gs_msr", "shadesmar"} \cup Callers
  BY KnownBuild DEF Sound
<1> QED
  BY <1>2, <1>3, <1>4, <1>5, <1>6, <1>7, <1>8, <1>9, <1>10, <1>11, <1>12

LEMMA TableIsSound ==
  ASSUME Sound, Table
  PROVE  Code!CodeIsSound
<1>1. KnownPlace
  BY TablePlaces
<1>2. entry.rsp \in Nat /\ 2 * Size + 3 <= entry.rsp /\ Size \in Nat
  BY Places, Sizes DEF Sound
<1>3. Code!TypeOK
  <2>1. reg["rsp"] \in 2 * Size .. entry.rsp + 1
    BY <1>1, <1>2 DEF KnownPlace
  <2> QED
    BY <1>1, <2>1 DEF Code!TypeOK, Sound, Shape, RegNames, KnownPlace
<1>4. Code!ReturnsHome
  BY <1>1 DEF Code!ReturnsHome, Sound, Kept, KnownPlace, HomeTarget
<1>5. Code!NoStrayAccess
  BY DEF Code!NoStrayAccess, Sound, Words
<1>6. Code!PrologueTransparent
  <2> SUFFICES ASSUME at = "body"
               PROVE  /\ reg["rsp"] = entry.rsp
                      /\ \A r \in {"rax", "rdi", "rsi", "rdx", "rcx"} \ Code!Scratch :
                            reg[r] = [rax |-> 11, rdi |-> 1, rsi |-> 2, rdx |-> 3,
                                      rcx |-> 4][r]
    BY DEF Code!PrologueTransparent
  <2>1. reg["rsp"] = entry.rsp
    BY <1>1, <1>2 DEF KnownPlace
  <2>2. build \notin {"via_reg", "global"} \cup Callers => reg["rax"] = 11
    BY DEF Sound, Kept
  <2>3. build \notin Callers =>
          reg["rdi"] = 1 /\ reg["rsi"] = 2 /\ reg["rdx"] = 3 /\ reg["rcx"] = 4
    BY DEF Sound, Kept, Args
  <2>4. build \in Callers => reg["rdi"] = 1 /\ reg["rsi"] = 2 /\ reg["rdx"] = 3
    BY DEF Table, Callers, CallAt, Args, Point, Fresh
  <2>5. build \in {"via_reg", "global"} => "rax" \in Code!Scratch
    BY DEF Code!Scratch
  <2>6. build \in Callers => "rax" \in Code!Scratch /\ "rcx" \in Code!Scratch
    <3>1. CASE build = "init"
      BY <3>1 DEF Code!Scratch
    <3>2. CASE build = "count"
      BY <3>2 DEF Code!Scratch
    <3> QED
      BY <3>1, <3>2 DEF Callers
  <2>7. ASSUME NEW r \in {"rax", "rdi", "rsi", "rdx", "rcx"} \ Code!Scratch
        PROVE  reg[r] = [rax |-> 11, rdi |-> 1, rsi |-> 2, rdx |-> 3, rcx |-> 4][r]
    <3>1. CASE r = "rax"
      BY <2>2, <2>5, <2>6, <2>7, <3>1
    <3>2. CASE r = "rcx"
      BY <2>3, <2>6, <2>7, <3>2
    <3>3. CASE r \in {"rdi", "rsi", "rdx"}
      BY <2>3, <2>4, <3>3
    <3> QED
      BY <2>7, <3>1, <3>2, <3>3
  <2> QED
    BY <2>1, <2>7
<1> QED
  BY <1>3, <1>4, <1>5, <1>6 DEF Code!CodeIsSound

-----------------------------------------------------------------------------
(* From the entry of the call on.                                            *)

LEMMA CodeInit ==
  ASSUME Code!Init
  PROVE  Sound /\ Table
<1>1. PICK b \in Builds, r \in Rets, x \in Masks, sp \in 2 * Size + 3 .. 3 * Size - 2 :
         /\ build = b
         /\ gs = IF b = "gs_rsp" THEN User + Size ELSE Code!Meta
         /\ area = 0
         /\ mem = [a \in Code!Addresses |->
                     CASE a = sp -> r
                       [] a = 0 -> x
                       [] a = Code!Meta + 1 -> Size
                       [] a = Code!Meta + 2 -> x
                       [] a = Code!MaskVar -> -Size
                       [] a \in Code!Area(1) .. Code!Area(1) + Size - 1 -> Code!Unmapped
                       [] OTHER -> 0]
         /\ \E l \in {FALSE} \cup (IF b \in DOMAIN Code!LinkOf THEN {TRUE} ELSE {}) :
               /\ linked = l
               /\ at = IF l THEN "link" ELSE "prologue"
               /\ reg = [rsp |-> IF l THEN sp + 1 ELSE sp, rax |-> 11, r10 |-> Code!Junk,
                         r11 |-> IF l THEN r ELSE Code!Junk, rdi |-> 1, rsi |-> 2,
                         rdx |-> 3, rcx |-> 4, zero |-> 0]
         /\ entry = [rsp |-> sp, ret |-> r]
         /\ i = 1 /\ target = 0 /\ fault = FALSE /\ hit = FALSE /\ moves = 0
  BY Zenon DEF Code!Init
<1>2. /\ entry.rsp = sp /\ entry.ret = r /\ sp \in Nat
      /\ 2 * Size + 3 <= sp /\ sp <= 3 * Size - 2 /\ Distance = Size
  BY <1>1, Sizes DEF Distance
<1>3. /\ linked \in BOOLEAN /\ (linked => build \in DOMAIN Code!LinkOf)
      /\ at = (IF linked THEN "link" ELSE "prologue")
      /\ reg = [rsp |-> IF linked THEN sp + 1 ELSE sp, rax |-> 11, r10 |-> Code!Junk,
                r11 |-> IF linked THEN r ELSE Code!Junk, rdi |-> 1, rsi |-> 2,
                rdx |-> 3, rcx |-> 4, zero |-> 0]
  <2>1. PICK l \in {FALSE} \cup (IF b \in DOMAIN Code!LinkOf THEN {TRUE} ELSE {}) :
           /\ linked = l
           /\ at = IF l THEN "link" ELSE "prologue"
           /\ reg = [rsp |-> IF l THEN sp + 1 ELSE sp, rax |-> 11, r10 |-> Code!Junk,
                     r11 |-> IF l THEN r ELSE Code!Junk, rdi |-> 1, rsi |-> 2,
                     rdx |-> 3, rcx |-> 4, zero |-> 0]
    BY <1>1
  <2>2. build = b /\ l \in BOOLEAN /\ (l => b \in DOMAIN Code!LinkOf)
    BY <1>1, <2>1
  <2> QED
    BY <2>1, <2>2
<1>4. /\ DOMAIN reg = RegNames /\ reg["zero"] = 0 /\ reg["rax"] = 11 /\ reg["rcx"] = 4
      /\ reg["rdi"] = 1 /\ reg["rsi"] = 2 /\ reg["rdx"] = 3
      /\ linked => reg["rsp"] = entry.rsp + 1 /\ reg["r11"] = entry.ret
      /\ ~linked => reg["rsp"] = entry.rsp
  BY <1>2, <1>3 DEF RegNames
<1>5. Shape
  <2>1. /\ build \in Builds /\ area \in {0, 1} /\ moves \in 0 .. MaxMoves /\ ~hit
    BY <1>1, Sizes
  <2>4. {fault, hit, linked} \subseteq BOOLEAN /\ DOMAIN mem = Code!Addresses
    BY <1>1, <1>3
  <2>2. entry.rsp \in 2 * Size + 3 .. 3 * Size - 2 /\ entry.ret \in Rets
    BY <1>2
  <2>3. gs = IF build = "gs_rsp" THEN User + Distance ELSE Code!Meta
    BY <1>1, <1>2
  <2> QED
    BY <1>3, <1>4, <2>1, <2>2, <2>3, <2>4 DEF Shape
<1>6. /\ entry.rsp \in Code!Addresses /\ Code!Slot \in Code!Addresses
      /\ 0 \in Code!Addresses /\ Code!Meta + 1 \in Code!Addresses
      /\ Code!Meta + 2 \in Code!Addresses /\ Code!MaskVar \in Code!Addresses
      /\ entry.rsp + 1 - Size \in Code!Addresses
  BY <1>5, Places, SlotPlace, Sizes, AddressesAre
<1>7. /\ Code!Slot \in Int /\ Code!Slot > Size /\ Code!Slot < 4 * Size
      /\ Code!Slot >= sp + Size \/ Code!Slot <= sp - Size
  <2>1. Code!Slot = sp + Size \/ Code!Slot = sp - Size
    BY <1>2, <1>5, SlotPlace
  <2> HIDE DEF Code!Slot
  <2> QED
    BY <1>2, <2>1, Sizes
<1>8. Code!Area(1) = 4 * Size
  BY Sizes DEF Code!Area
<1> HIDE DEF Code!Slot
<1>9. /\ mem[sp] = r /\ mem[0] = x /\ mem[Code!Meta + 2] = x
      /\ mem[Code!MaskVar] = -Size /\ mem[Code!Meta + 1] = Size
  <2> DEFINE n == Code!Area(1) .. Code!Area(1) + Size - 1
  <2>1. /\ sp # 0 /\ sp # Code!Meta + 1 /\ sp # Code!Meta + 2 /\ sp # Code!MaskVar /\ sp \notin n
    BY <1>2, <1>8, Sizes
  <2>2. /\ 0 # Code!Meta + 1 /\ 0 # Code!Meta + 2 /\ 0 # Code!MaskVar /\ 0 \notin n
    BY <1>8, Sizes
  <2>3. /\ Code!Meta + 1 # Code!Meta + 2 /\ Code!Meta + 1 # Code!MaskVar
        /\ Code!Meta + 2 # Code!MaskVar /\ Code!Meta + 1 \notin n /\ Code!Meta + 2 \notin n
        /\ Code!MaskVar \notin n
    BY <1>8, Sizes
  <2> HIDE DEF n
  <2>4. mem[sp] = r
    BY <1>1, <1>2, <1>6, <2>1 DEF n
  <2>5. mem[0] = x
    BY <1>1, <1>6, <2>1, <2>2 DEF n
  <2>6. mem[Code!Meta + 1] = Size
    BY <1>1, <1>6, <2>1, <2>2, <2>3 DEF n
  <2>7. mem[Code!Meta + 2] = x
    BY <1>1, <1>6, <2>1, <2>2, <2>3 DEF n
  <2>8. mem[Code!MaskVar] = -Size
    BY <1>1, <1>6, <2>1, <2>2, <2>3 DEF n
  <2> QED
    BY <2>4, <2>5, <2>6, <2>7, <2>8
<1>10. mem[Code!Slot] = 0
  <2>1. /\ Code!Slot # sp /\ Code!Slot # 0 /\ Code!Slot # Code!Meta + 1
        /\ Code!Slot # Code!Meta + 2 /\ Code!Slot # Code!MaskVar
        /\ Code!Slot \notin Code!Area(1) .. Code!Area(1) + Size - 1
    BY <1>2, <1>7, <1>8, Sizes
  <2> QED
    BY <1>1, <1>6, <2>1
<1>11. mem[entry.rsp + 1 - Size] = 0
  <2> DEFINE e == entry.rsp + 1 - Size
  <2>1. /\ e # sp /\ e # 0 /\ e # Code!Meta + 1 /\ e # Code!Meta + 2 /\ e # Code!MaskVar
        /\ e \notin Code!Area(1) .. Code!Area(1) + Size - 1
    BY <1>2, <1>8, Sizes
  <2> HIDE DEF e
  <2>2. e \in Code!Addresses
    BY <1>6 DEF e
  <2>3. mem[e] = 0
    BY <1>1, <2>1, <2>2
  <2> QED
    BY <2>3 DEF e
<1>12. Words
  BY <1>1, <1>2, <1>9, <1>10, <1>11, Sizes DEF Words, Code!Unmapped
<1>13. Kept
  BY <1>3, <1>4 DEF Kept, Args
<1>14. Table
  <2>1. CASE ~linked
    <3>1. Fresh(1) /\ Around(1) /\ Args({"rdi", "rsi", "rdx"})
      BY <1>1, <1>2, <1>3, <1>4, <2>1 DEF Fresh, Around, Point, Args
    <3> QED
      BY <3>1 DEF Table, ShadowAt, RegAt, GlobalAt, BuddyAt, SizeAt, GsRspAt, FsGsAt, MsrAt,
                  ShadesmarAt, CallAt
  <2>2. CASE linked
    <3>1. build \in {"gs_rsp", "fs_gs", "fs_gs_msr"}
      BY <1>3, <2>2 DEF Code!LinkOf
    <3>2. Point("link", 1, 1) /\ linked /\ Val("r11", entry.ret)
      BY <1>1, <1>3, <1>4, <2>2 DEF Point, Val
    <3> QED
      BY <3>1, <3>2 DEF Table, GsRspAt, FsGsAt, MsrAt, Callers
  <2> QED
    BY <2>1, <2>2
<1> QED
  BY <1>5, <1>12, <1>13, <1>14 DEF Sound

LEMMA CodeInvInit ==
  ASSUME InitAll
  PROVE  CodeInv
BY CodeInit DEF InitAll, CodeInv, Sound

LEMMA CodeInvNext ==
  ASSUME CodeInv, [Read \/ RunCode]_allvars
  PROVE  CodeInv'
<1>1. CASE Read \/ UNCHANGED allvars
  <2>1. UNCHANGED <<part, codevars>>
    BY <1>1 DEF Read, allvars
  <2>2. UNCHANGED <<part, build, at, i, reg, mem, gs, area, entry, target, fault, hit, moves,
        linked>>
    BY <2>1 DEF codevars
  <2>3. part = "code" =>
        /\ UNCHANGED <<build, at, i, reg, mem, gs, area, entry, target, fault, hit, moves, linked>>
                         /\ Shape /\ (~hit => Words) /\ Kept /\ Table
    BY <2>2 DEF CodeInv
  <2>4. Shape => Shape'
    BY <2>2 DEF Shape, Distance
  <2>5. (~hit => Words) => (~hit' => Words')
    BY <2>2 DEF Words, Code!Slot, Distance
  <2>6. Kept => Kept'
    BY <2>2 DEF Kept, Args
  <2>7. Table => Table'
    BY <2>2 DEF Table, ShadowAt, RegAt, GlobalAt, BuddyAt, SizeAt, GsRspAt, FsGsAt, MsrAt,
                ShadesmarAt, CallAt, Fresh, Around, Point, Val, Copy, Both, ShadowCopy, Masked,
                Distance, Code!Slot, HomeTarget, Args, Saved
  <2> QED
    BY <2>2, <2>4, <2>5, <2>6, <2>7 DEF CodeInv
<1>2. CASE RunCode
  <2>1. part = "code" /\ Code!Next
    BY <1>2 DEF RunCode
  <2>2. Sound /\ Table
    BY <2>1 DEF CodeInv, Sound
  <2>3. Sound' /\ Table'
    BY <2>1, <2>2, TableNext
  <2> QED
    BY <2>3 DEF CodeInv, Sound
<1> QED
  BY <1>1, <1>2

\* The inserted code brings every call home, in every build, with a move between any two of
\* its instructions that falls in no window (afl-as.c 7011-7256, 7309-7371, 7486-7651).
THEOREM InsertedCodeSound == SpecAll => []CodeIsSound
<1>1. InitAll => CodeInv
  BY CodeInvInit
<1>2. CodeInv /\ [Read \/ RunCode]_allvars => CodeInv'
  BY CodeInvNext
<1>3. CodeInv => CodeIsSound
  BY TableIsSound DEF CodeInv, CodeIsSound, Sound
<1> QED
  BY <1>1, <1>2, <1>3, PTL DEF SpecAll
=============================================================================
