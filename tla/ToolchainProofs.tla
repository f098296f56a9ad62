-------------------------- MODULE ToolchainProofs --------------------------
(* For every value of the constants: with a file that sort made in the order  *)
(* of strcmp, the binary search stays in the list and finds exactly the       *)
(* functions of the first build; the blocks of the wrappers' allocator stay   *)
(* whole; a build does its files in order, whatever fails but the assembler   *)
(* by a signal and the wrapper itself; and no file is half rewritten but one  *)
(* whose own write was stopped, of which a beginning is left.                 *)
EXTENDS MCToolchain, FiniteSetTheorems, WellFoundedInduction, TLAPS

\* The file of README.md 142 in the environment of env.sh.
FromPipeline == FileOrder = ByteOrder /\ Newlines = {TRUE}

Occurs(s, x) == \E l \in DOMAIN s : s[l] = x
InList == pc \in {"reading", "search", "plt", "library", "linked", "unfound"}

\* The log holds what has been printed, and every name in it begins a run.
LogInv ==
    /\ \A j \in Jobs : printed[j] \in 0 .. Len(Defines[j])
    /\ \A j \in Jobs : \A k \in 1 .. printed[j] : Occurs(log, Defines[j][k])
    /\ \A l \in DOMAIN log : log[l] \in Defined
    /\ \A l \in DOMAIN log : \E k \in DOMAIN log :
          log[k] = log[l] /\ (k > 1 => log[k - 1] # log[l])

\* The file names what the first build has named, in the order of strcmp.
FileInv ==
    pc # "first" =>
        /\ Sorted(file, ByteOrder) /\ newline = TRUE
        /\ \A x \in Names : Occurs(file, x) <=> x \in Defined

ListInv == /\ ~InList => list = <<>>
           /\ InList => list = file \/ list = <<>>

ResultInv ==
    /\ pc \in {"search", "linked", "unfound"} => name \in Names
    /\ pc = "linked" => Occurs(list, name)
    /\ pc = "unfound" => ~Occurs(list, name)

IInv == TypeOK /\ LogInv /\ FileInv /\ ListInv /\ SearchInRange /\ ResultInv

-----------------------------------------------------------------------------
(* What the pipeline does to the names.                                      *)

\* The set of the places of a name is finite, so counting tells whether there are any.
LEMMA PlacesFinite ==
    ASSUME NEW s, NEW n \in Nat, DOMAIN s = 1 .. n, NEW S, S \subseteq DOMAIN s
    PROVE  IsFiniteSet(S) /\ Cardinality(S) \in Nat /\ (Cardinality(S) = 0 <=> S = {})
<1>1. IsFiniteSet(1 .. n)
  BY FS_Interval
<1>2. IsFiniteSet(S)
  BY <1>1, FS_Subset
<1>3. Cardinality(S) \in Nat
  BY <1>2, FS_CardinalityType
<1>4. QED
  BY <1>2, <1>3, FS_EmptySet

\* sort and uniq lose no name and add none.
LEMMA PipelineKeepsNames ==
    ASSUME NEW s \in Seq(Names), NEW f \in SortedFile(s),
           \A l \in DOMAIN s : \E k \in DOMAIN s :
              s[k] = s[l] /\ (k > 1 => s[k - 1] # s[l])
    PROVE  /\ f \in Seq(Names)
           /\ \A x \in Names : Occurs(f, x) <=> Occurs(s, x)
<1>1. PICK n \in 0 .. Len(s) : f \in [1 .. n -> Names]
  BY DEF SortedFile, AnyFile
<1>2. f \in Seq(Names) /\ DOMAIN f = 1 .. n /\ n \in Nat
  BY <1>1
<1>3. DOMAIN s = 1 .. Len(s) /\ Len(s) \in Nat
  OBVIOUS
<1>4. ASSUME NEW x \in Names PROVE Occurs(f, x) <=> Occurs(s, x)
  <2> DEFINE P == {l \in DOMAIN f : f[l] = x}
             R == {l \in DOMAIN s : s[l] = x /\ (l > 1 => s[l - 1] # x)}
  <2>1. Cardinality(P) = Cardinality(R)
    BY <1>4 DEF SortedFile, AnyFile, Count, Runs
  <2>2. Cardinality(P) = 0 <=> P = {}
    <3> HIDE DEF R
    <3> QED BY <1>2, PlacesFinite
  <2>3. Cardinality(R) = 0 <=> R = {}
    <3> HIDE DEF P
    <3> QED BY <1>3, PlacesFinite
  <2>4. P = {} <=> R = {}
    BY <2>1, <2>2, <2>3
  <2>5. Occurs(f, x) <=> P # {}
    BY DEF Occurs
  <2>6. Occurs(s, x) <=> R # {}
    BY DEF Occurs
  <2> QED
    BY <2>4, <2>5, <2>6
<1>5. QED
  BY <1>2, <1>4

\* One more line in the log.
LEMMA AppendKeepsRuns ==
    ASSUME NEW s \in Seq(Names), NEW x \in Names,
           \A l \in DOMAIN s : \E k \in DOMAIN s :
              s[k] = s[l] /\ (k > 1 => s[k - 1] # s[l])
    PROVE  LET t == Append(s, x)
           IN  \A l \in DOMAIN t : \E k \in DOMAIN t :
                  t[k] = t[l] /\ (k > 1 => t[k - 1] # t[l])
<1> DEFINE t == Append(s, x)
           n == Len(s)
<1>1. n \in Nat /\ DOMAIN s = 1 .. n /\ DOMAIN t = 1 .. n + 1
  OBVIOUS
<1>2. \A l \in 1 .. n : t[l] = s[l]
  OBVIOUS
<1>3. t[n + 1] = x
  OBVIOUS
<1> HIDE DEF t, n
<1>4. ASSUME NEW l \in 1 .. n
      PROVE  \E k \in DOMAIN t : t[k] = t[l] /\ (k > 1 => t[k - 1] # t[l])
  <2>1. PICK k \in 1 .. n : s[k] = s[l] /\ (k > 1 => s[k - 1] # s[l])
    BY <1>1, <1>4
  <2>2. k > 1 => t[k - 1] = s[k - 1]
    BY <1>1, <1>2, <2>1
  <2>3. t[k] = s[k] /\ t[l] = s[l]
    BY <1>2, <2>1, <1>4
  <2>4. k \in DOMAIN t
    BY <1>1, <2>1
  <2> QED
    BY <2>1, <2>2, <2>3, <2>4
<1>5. \E k \in DOMAIN t : t[k] = t[n + 1] /\ (k > 1 => t[k - 1] # t[n + 1])
  <2>1. CASE n > 0 /\ s[n] = x
    <3>1. n \in 1 .. n
      BY <1>1, <2>1
    <3>2. t[n] = t[n + 1]
      BY <1>2, <1>3, <2>1, <3>1
    <3> QED
      BY <1>4, <3>1, <3>2
  <2>2. CASE ~(n > 0 /\ s[n] = x)
    <3>1. n + 1 \in DOMAIN t
      BY <1>1
    <3>2. n + 1 > 1 => t[(n + 1) - 1] # t[n + 1]
      <4>1. (n + 1) - 1 = n /\ (n + 1 > 1 => n > 0 /\ n \in 1 .. n)
        BY <1>1
      <4> QED
        BY <4>1, <1>2, <1>3, <2>2
    <3> QED
      BY <3>1, <3>2
  <2> QED
    BY <2>1, <2>2
<1>6. \A l \in DOMAIN t : l \in 1 .. n \/ l = n + 1
  BY <1>1
<1>7. QED
  BY <1>4, <1>5, <1>6 DEF t

-----------------------------------------------------------------------------
(* The invariant.                                                            *)

LEMMA InitInv == FromPipeline /\ Init => IInv
<1> SUFFICES ASSUME FromPipeline, Init PROVE IInv
  OBVIOUS
<1>1. TypeOK
  BY DEF Init, TypeOK
<1>2. LogInv
  <2>1. \A j \in Jobs : Len(Defines[j]) \in Nat
    BY JobAssumption
  <2> QED
    BY <2>1 DEF Init, LogInv
<1>3. FileInv /\ ListInv /\ SearchInRange /\ ResultInv
  BY DEF Init, FileInv, ListInv, InList, SearchInRange, ResultInv
<1> QED
  BY <1>1, <1>2, <1>3 DEF IInv

LEMMA PrintInv ==
    ASSUME IInv, NEW j \in Jobs, PrintName(j) PROVE IInv'
<1> DEFINE x == Defines[j][printed[j] + 1]
<1>1. /\ printed[j] \in Nat /\ Len(Defines[j]) \in Nat
      /\ printed[j] + 1 \in 1 .. Len(Defines[j]) /\ Defines[j] \in Seq(Names)
  <2>1. printed[j] \in Nat /\ printed[j] < Len(Defines[j])
    BY DEF IInv, TypeOK, PrintName
  <2>2. Defines[j] \in Seq(Names)
    BY JobAssumption
  <2>3. Len(Defines[j]) \in Nat
    BY <2>2
  <2> QED
    BY <2>1, <2>2, <2>3
<1>2. x \in Names /\ x \in Defined
  BY <1>1 DEF Defined
<1>3. /\ log \in Seq(Names) /\ log' = Append(log, x)
      /\ printed' = [printed EXCEPT ![j] = printed[j] + 1] /\ printed \in [Jobs -> Nat]
  BY DEF IInv, TypeOK, PrintName
<1> HIDE DEF x
<1>4. TypeOK'
  <2>1. log' \in Seq(Names)
    BY <1>2, <1>3
  <2>2. printed' \in [Jobs -> Nat]
    BY <1>1, <1>3
  <2> QED
    BY <2>1, <2>2 DEF IInv, TypeOK, PrintName, fileVars, searchVars
<1>5. LogInv'
  <2>1. \A l \in Jobs : printed'[l] \in 0 .. Len(Defines[l])
    BY <1>1, <1>3 DEF IInv, LogInv
  <2>2. /\ DOMAIN log' = 1 .. Len(log) + 1 /\ DOMAIN log = 1 .. Len(log) /\ Len(log) \in Nat
        /\ \A l \in 1 .. Len(log) : log'[l] = log[l]
        /\ log'[Len(log) + 1] = x
    BY <1>2, <1>3
  <2>3. \A l \in DOMAIN log' : log'[l] \in Defined
    BY <2>2, <1>2 DEF IInv, LogInv
  <2>4. \A y : Occurs(log, y) => Occurs(log', y)
    BY <2>2 DEF Occurs
  <2>5. Occurs(log', x)
    BY <2>2 DEF Occurs
  <2>6. \A l \in Jobs : \A k \in 1 .. printed'[l] : Occurs(log', Defines[l][k])
    <3> SUFFICES ASSUME NEW l \in Jobs, NEW k \in 1 .. printed'[l]
                 PROVE  Occurs(log', Defines[l][k])
      OBVIOUS
    <3>1. CASE l = j /\ k = printed[j] + 1
      BY <3>1, <2>5 DEF x
    <3>2. CASE ~(l = j /\ k = printed[j] + 1)
      <4>1. k \in 1 .. printed[l]
        BY <3>2, <1>1, <1>3
      <4> QED
        BY <4>1, <2>4 DEF IInv, LogInv
    <3> QED
      BY <3>1, <3>2
  <2>7. \A l \in DOMAIN log' : \E k \in DOMAIN log' :
           log'[k] = log'[l] /\ (k > 1 => log'[k - 1] # log'[l])
    <3>1. \A l \in DOMAIN log : \E k \in DOMAIN log :
             log[k] = log[l] /\ (k > 1 => log[k - 1] # log[l])
      BY DEF IInv, LogInv
    <3> QED
      BY <3>1, <1>2, <1>3, AppendKeepsRuns
  <2> QED
    BY <2>1, <2>3, <2>6, <2>7 DEF LogInv
<1>6. pc = "first" /\ pc' = "first" /\ list' = list
  BY DEF PrintName
<1>7. FileInv' /\ ListInv' /\ SearchInRange' /\ ResultInv'
  BY <1>6 DEF IInv, FileInv, ListInv, InList, SearchInRange, ResultInv
<1> QED
  BY <1>4, <1>5, <1>7 DEF IInv

LEMMA ListStepInv == ASSUME IInv, FromPipeline, List PROVE IInv'
<1>1. /\ log \in Seq(Names) /\ file' \in SortedFile(log) /\ newline' = TRUE
      /\ \A j \in Jobs : printed[j] = Len(Defines[j])
      /\ pc' = "listed" /\ pc = "first" /\ list' = list /\ log' = log /\ printed' = printed
      /\ name' = name /\ low' = low /\ high' = high
  BY DEF IInv, TypeOK, List, FromPipeline, buildVars, searchVars
<1>2. \A l \in DOMAIN log : \E k \in DOMAIN log :
         log[k] = log[l] /\ (k > 1 => log[k - 1] # log[l])
  BY DEF IInv, LogInv
<1>3. file' \in Seq(Names) /\ \A x \in Names : Occurs(file', x) <=> Occurs(log, x)
  BY <1>1, <1>2, PipelineKeepsNames
<1>4. \A x \in Names : Occurs(log, x) <=> x \in Defined
  <2>1. \A x : Occurs(log, x) => x \in Defined
    BY DEF IInv, LogInv, Occurs
  <2>2. ASSUME NEW x \in Defined PROVE Occurs(log, x)
    <3>1. PICK j \in Jobs : \E k \in DOMAIN Defines[j] : x = Defines[j][k]
      BY <2>2 DEF Defined
    <3>2. DOMAIN Defines[j] = 1 .. printed[j]
      BY <1>1, JobAssumption
    <3> QED
      BY <3>1, <3>2 DEF IInv, LogInv
  <2> QED
    BY <2>1, <2>2
<1>5. Sorted(file', ByteOrder)
  BY <1>1 DEF SortedFile, FromPipeline
<1>6. TypeOK'
  BY <1>1, <1>3 DEF IInv, TypeOK
<1>7. LogInv'
  BY <1>1 DEF IInv, LogInv
<1>8. FileInv'
  BY <1>1, <1>3, <1>4, <1>5 DEF FileInv
<1>9. ListInv' /\ SearchInRange' /\ ResultInv'
  BY <1>1 DEF IInv, ListInv, InList, SearchInRange, ResultInv
<1> QED
  BY <1>6, <1>7, <1>8, <1>9 DEF IInv

\* What a step that leaves the build and the file alone has to show.
LEMMA Later ==
    ASSUME IInv, pc # "first", UNCHANGED <<buildVars, fileVars>>
    PROVE  LogInv' /\ FileInv'
  BY DEF IInv, LogInv, FileInv, buildVars, fileVars

LEMMA OpenInv ==
    ASSUME IInv, spa_open_protected_funcs_list \/ NoList PROVE IInv'
<1>1. /\ pc = "listed" /\ pc' \in {"fatal", "reading"}
      /\ pc' = "reading" => list' = file \/ list' = <<>>
      /\ UNCHANGED <<buildVars, fileVars, searchVars>>
  BY DEF IInv, FileInv, spa_open_protected_funcs_list, NoList, Lines
<1>2. pc' = "fatal" => list' = list
  BY DEF spa_open_protected_funcs_list, NoList
<1>3. LogInv' /\ FileInv'
  BY <1>1, Later
<1>4. list' \in Seq(Names)
  <2>1. file \in Seq(Names) /\ list \in Seq(Names) /\ <<>> \in Seq(Names)
    BY DEF IInv, TypeOK
  <2> QED
    BY <1>1, <1>2, <2>1
<1>5. TypeOK'
  BY <1>1, <1>4 DEF IInv, TypeOK, buildVars, fileVars, searchVars
<1>6. ListInv' /\ SearchInRange' /\ ResultInv'
  BY <1>1, <1>2 DEF IInv, ListInv, InList, SearchInRange, ResultInv, fileVars
<1> QED
  BY <1>3, <1>5, <1>6 DEF IInv

LEMMA CallInv ==
    ASSUME IInv, NEW f \in Names, NEW plt \in BOOLEAN, Call(f, plt) PROVE IInv'
<1>1. /\ pc = "reading" /\ pc' \in {"plt", "library", "search"} /\ name' = f
      /\ pc' = "search" => low' = 0 /\ high' = Len(list) - 1
      /\ pc' # "search" => low' = low /\ high' = high
      /\ UNCHANGED <<buildVars, fileVars, list>>
  BY DEF Call
<1>2. LogInv' /\ FileInv'
  BY <1>1, Later
<1>3. list \in Seq(Names) /\ list' = list /\ Len(list) \in Nat /\ DOMAIN list = 1 .. Len(list)
  BY <1>1 DEF IInv, TypeOK
<1>4. TypeOK'
  BY <1>1, <1>3 DEF IInv, TypeOK, buildVars, fileVars
<1>5. SearchInRange'
  BY <1>1, <1>3 DEF SearchInRange, fileVars
<1>6. ListInv' /\ ResultInv'
  BY <1>1 DEF IInv, ListInv, InList, ResultInv, fileVars
<1> QED
  BY <1>2, <1>4, <1>5, <1>6 DEF IInv

\* The name in the middle tells on which side of it the wanted one can be.
LEMMA SearchStepInv == ASSUME IInv, Search PROVE IInv'
<1>1. /\ pc = "search" /\ UNCHANGED <<buildVars, fileVars, list, name>>
      /\ pc' \in {"search", "linked", "unfound"}
  BY DEF Search, StepUp, StepDown
<1>2. LogInv' /\ FileInv'
  BY <1>1, Later
<1>3. /\ list \in Seq(Names) /\ DOMAIN list = 1 .. Len(list) /\ Len(list) \in Nat
      /\ low \in Nat /\ high \in Nat \cup {-1} /\ name \in Names
      /\ low <= high + 1 /\ high < Len(list)
      /\ \A l \in DOMAIN list : list[l] = name => low < l /\ l <= high + 1
  BY <1>1 DEF IInv, TypeOK, SearchInRange, ResultInv, FileInv
<1>4. Sorted(list, ByteOrder)
  BY <1>1 DEF IInv, FileInv, ListInv, InList, Sorted
<1>5. ListInv'
  BY <1>1 DEF IInv, ListInv, InList, fileVars
<1>6. CASE ~InRange
  <2>1. pc' = "unfound" /\ low' = low /\ high' = high
    BY <1>1, <1>6 DEF Search
  <2>2. ~Occurs(list, name)
    BY <1>3, <1>6 DEF Occurs, InRange
  <2>3. TypeOK'
    BY <1>1, <2>1 DEF IInv, TypeOK, buildVars, fileVars
  <2>4. SearchInRange' /\ ResultInv'
    BY <1>1, <1>3, <2>1, <2>2 DEF SearchInRange, ResultInv, fileVars, Occurs
  <2> QED
    BY <1>2, <1>5, <2>3, <2>4 DEF IInv
<1>7. CASE InRange
  <2> DEFINE m == Mid
  <2>1. m \in Nat /\ low <= m /\ m <= high /\ m + 1 \in DOMAIN list
    BY <1>3, <1>7 DEF InRange, Mid
  <2>2. list[m + 1] \in Names
    BY <1>3, <2>1
  <2>3. CASE Same(name, list[m + 1])
    <3>1. pc' = "linked" /\ low' = low /\ high' = high
      BY <1>1, <1>7, <2>3 DEF Search
    <3>2. Occurs(list, name)
      BY <2>1, <2>3 DEF Occurs, Same
    <3>3. TypeOK'
      BY <1>1, <3>1 DEF IInv, TypeOK, buildVars, fileVars
    <3>4. SearchInRange' /\ ResultInv'
      BY <1>1, <1>3, <3>1, <3>2 DEF SearchInRange, ResultInv, fileVars, Occurs
    <3> QED
      BY <1>2, <1>5, <3>3, <3>4 DEF IInv
  <2>4. CASE ~Same(name, list[m + 1]) /\ Below(list[m + 1], name)
    <3>1. pc' = pc /\ low' = m + 1 /\ high' = high
      BY <1>1, <1>7, <2>4 DEF Search, StepUp
    <3> HIDE DEF m
    <3>2. ASSUME NEW l \in DOMAIN list, list[l] = name PROVE m + 1 < l
      <4>1. l # m + 1
        BY <3>2, <2>4 DEF Same
      <4>2. ~(l < m + 1)
        BY <3>2, <1>4, <2>1, <2>4 DEF Sorted, Below
      <4> QED
        BY <4>1, <4>2, <2>1, <1>3
    <3>3. TypeOK'
      BY <1>1, <3>1, <2>1 DEF IInv, TypeOK, buildVars, fileVars
    <3>4. SearchInRange'
      BY <1>1, <1>3, <3>1, <3>2, <2>1 DEF SearchInRange, fileVars
    <3>5. ResultInv'
      BY <1>1, <1>3, <3>1 DEF ResultInv
    <3> QED
      BY <1>2, <1>5, <3>3, <3>4, <3>5 DEF IInv
  <2>5. CASE ~Same(name, list[m + 1]) /\ ~Below(list[m + 1], name)
    <3>1. pc' = pc /\ high' = m - 1 /\ low' = low
      BY <1>1, <1>7, <2>5 DEF Search, StepDown
    <3>2. Below(name, list[m + 1])
      BY <2>2, <2>5, <1>3, OrderAssumption DEF Below, Same, Total
    <3> HIDE DEF m
    <3>3. ASSUME NEW l \in DOMAIN list, list[l] = name PROVE l < m + 1
      <4>1. l # m + 1
        BY <3>3, <2>5 DEF Same
      <4>2. ~(m + 1 < l)
        BY <3>3, <3>2, <1>4, <2>1 DEF Sorted, Below
      <4> QED
        BY <4>1, <4>2, <2>1, <1>3
    <3>4. TypeOK'
      BY <1>1, <3>1, <2>1 DEF IInv, TypeOK, buildVars, fileVars
    <3>5. SearchInRange'
      BY <1>1, <1>3, <3>1, <3>3, <2>1 DEF SearchInRange, fileVars
    <3>6. ResultInv'
      BY <1>1, <1>3, <3>1 DEF ResultInv
    <3> QED
      BY <1>2, <1>5, <3>4, <3>5, <3>6 DEF IInv
  <2> QED
    BY <2>3, <2>4, <2>5
<1> QED
  BY <1>6, <1>7

LEMMA WrittenInv == ASSUME IInv, Written PROVE IInv'
<1>1. /\ pc \in {"plt", "library", "linked", "unfound"} /\ pc' = "reading"
      /\ UNCHANGED <<buildVars, fileVars, list, searchVars>>
  BY DEF Written
<1>2. LogInv' /\ FileInv'
  BY <1>1, Later
<1>3. TypeOK' /\ ListInv' /\ SearchInRange' /\ ResultInv'
  BY <1>1 DEF IInv, TypeOK, ListInv, InList, SearchInRange, ResultInv,
              buildVars, fileVars, searchVars
<1> QED
  BY <1>2, <1>3 DEF IInv

LEMMA StepInv == FromPipeline /\ IInv /\ [Next]_vars => IInv'
<1> SUFFICES ASSUME FromPipeline, IInv, [Next]_vars PROVE IInv'
  OBVIOUS
<1>1. CASE \E j \in Jobs : PrintName(j)
  BY <1>1, PrintInv
<1>2. CASE List
  BY <1>2, ListStepInv
<1>3. CASE spa_open_protected_funcs_list \/ NoList
  BY <1>3, OpenInv
<1>4. CASE \E f \in Names, plt \in BOOLEAN : Call(f, plt)
  BY <1>4, CallInv
<1>5. CASE Search
  BY <1>5, SearchStepInv
<1>6. CASE Written
  BY <1>6, WrittenInv
<1>7. CASE UNCHANGED vars
  BY <1>7 DEF vars, buildVars, fileVars, searchVars, IInv, TypeOK, LogInv, FileInv, ListInv,
              InList, SearchInRange, ResultInv
<1> QED
  BY <1>1, <1>2, <1>3, <1>4, <1>5, <1>6, <1>7 DEF Next

\* The invariant implies the properties.
LEMMA InvImplies == IInv => TypeOK /\ SearchInRange /\ LinkedWasNamed /\ NamedIsFound
<1> SUFFICES ASSUME IInv PROVE TypeOK /\ SearchInRange /\ LinkedWasNamed /\ NamedIsFound
  OBVIOUS
<1>1. pc = "linked" => name \in Defined
  <2>1. pc = "linked" => name \in Names /\ Occurs(list, name) /\ (list = file \/ list = <<>>)
    BY DEF IInv, ResultInv, ListInv, InList
  <2>2. ~Occurs(<<>>, name)
    BY DEF Occurs
  <2> QED
    BY <2>1, <2>2 DEF IInv, FileInv
<1>2. pc = "unfound" /\ list # <<>> => name \notin Defined
  BY DEF IInv, ResultInv, ListInv, InList, FileInv
<1> QED
  BY <1>1, <1>2 DEF IInv, LinkedWasNamed, NamedIsFound

-----------------------------------------------------------------------------

\* Types, for a file that sort has made in the order of strcmp (README.md 142, env.sh 1).
THEOREM TypeCorrect == ASSUME FromPipeline PROVE Spec => []TypeOK
<1>1. Init => IInv
  BY InitInv
<1>2. IInv /\ [Next]_vars => IInv'
  BY StepInv
<1>3. IInv => TypeOK
  BY InvImplies
<1> QED
  BY <1>1, <1>2, <1>3, PTL DEF Spec

\* is_protected_function reads no element outside of the list and leaves out none that may
\* be the one (afl-as.c 6698-6711).
THEOREM SearchStaysInRange == ASSUME FromPipeline PROVE Spec => []SearchInRange
<1>1. Init => IInv
  BY InitInv
<1>2. IInv /\ [Next]_vars => IInv'
  BY StepInv
<1>3. IInv => SearchInRange
  BY InvImplies
<1> QED
  BY <1>1, <1>2, <1>3, PTL DEF Spec

\* A call is linked only past the prologue of a function the first build has named
\* (afl-as.c 7336), and the search finds each of them (afl-as.c 6676).
THEOREM ListIsExact == ASSUME FromPipeline PROVE Spec => []SearchIsExact
<1>1. Init => IInv
  BY InitInv
<1>2. IInv /\ [Next]_vars => IInv'
  BY StepInv
<1>3. IInv => SearchIsExact
  BY InvImplies DEF SearchIsExact
<1> QED
  BY <1>1, <1>2, <1>3, PTL DEF Spec

-----------------------------------------------------------------------------
(* The allocator of the wrappers (AllocInl): blocks, tables and their client. *)

LEMMA BlockConstants ==
    /\ Null \notin Ptrs /\ DOMAIN Hash = Ptrs /\ DOMAIN Operations = BOOLEAN
    /\ Wrap \in Nat \ {0} /\ MaxAlloc \in Nat \ {0} /\ BlockInc \in Nat \ {0} /\ MaxAlloc < Wrap
    /\ Sizes \subseteq 0 .. Wrap - 1
BY ToolConstants DEF Blocks!AllocAssumption

Wanted == Blocks!Bytes \cup {"any"}
BlockType == [live : BOOLEAN, c1 : {"used", "freed", "junk"}, size : 0 .. MaxAlloc,
              mem : Seq(Blocks!Bytes)]
Tables == [{Hash[p] : p \in Ptrs} -> Seq(Ptrs \cup {Null})]

\* Block b has its canaries, unless some block has lost one, and holds what its client wants.
Whole(b, w, spoilt) ==
    /\ b \in BlockType /\ w \in Seq(Wanted)
    /\ b.live => /\ b.c1 = "used" /\ Len(b.mem) = b.size + 1
                 /\ b.mem[b.size + 1] = "canary" \/ spoilt
                 /\ Len(w) <= b.size
                 /\ \A n \in 1 .. Len(w) : w[n] # "any" => b.mem[n] = w[n]
    /\ ~b.live => b.c1 # "used"

\* The table of its bucket names a pointer once, or not at all.
OnceIn(s, p) == \E n \in DOMAIN s : \A m \in DOMAIN s : s[m] = p <=> m = n
NotIn(s, p) == \A n \in DOMAIN s : s[n] # p
AsOften(s, r, p) == (OnceIn(s, p) => OnceIn(r, p)) /\ (NotIn(s, p) => NotIn(r, p))
Listed(t, p) == OnceIn(t[Hash[p]], p)
Unlisted(t, p) == NotIn(t[Hash[p]], p)

\* The tables name what is in use.
Exact(t, h) == \A p \in Ptrs : IF h[p].live THEN Listed(t, p) ELSE Unlisted(t, p)

AllocInv ==
    /\ debug \in BOOLEAN /\ bad \in BOOLEAN /\ slipped = FALSE
    /\ DOMAIN heap = Ptrs /\ DOMAIN wants = Ptrs /\ TRK \in Tables
    /\ \A p \in Ptrs : Whole(heap[p], wants[p], bad)
    /\ debug => Exact(TRK, heap)
    /\ end \in {"", "canary", "refused", "out of memory", "bad request"}
    /\ end = "canary" => bad

-----------------------------------------------------------------------------
(* The tables.                                                               *)

\* The first of the places of a value in a table, which the loops of TRK_alloc_buf and
\* TRK_free_buf stop at.
LEMMA FirstPlace ==
    ASSUME NEW t \in Tables, NEW p \in Ptrs, NEW x, \E n \in DOMAIN t[Hash[p]] : t[Hash[p]][n] = x
    PROVE  Blocks!FirstSlot(t, p, x) \in DOMAIN t[Hash[p]]
           /\ t[Hash[p]][Blocks!FirstSlot(t, p, x)] = x
<1> DEFINE s == t[Hash[p]]
           P == {n \in DOMAIN s : s[n] = x}
<1>1. s \in Seq(Ptrs \cup {Null})
    BY BlockConstants DEF Tables
<1>2. P \subseteq Nat /\ P # {} /\ \A n \in DOMAIN s : \A m \in 1 .. n - 1 : m \in DOMAIN s
    BY <1>1
<1>3. \E n \in P : \A m \in P : ~(<<m, n>> \in OpToRel(<, Nat))
    BY <1>2, NatLessThanWellFounded, WFMin
<1>4. PICK n \in P : \A m \in P : ~(m < n)
    BY <1>2, <1>3 DEF OpToRel
<1>5. \A m \in 1 .. n - 1 : s[m] # x
    BY <1>2, <1>4
<1>6. \E k \in DOMAIN s : s[k] = x /\ \A m \in 1 .. k - 1 : s[m] # x
    BY <1>4, <1>5
<1> QED
    BY <1>6 DEF Blocks!FirstSlot

LEMMA PlaceSet ==
    ASSUME NEW s, NEW n \in DOMAIN s, NEW x, NEW r, DOMAIN r = DOMAIN s,
           \A m \in DOMAIN s : r[m] = IF m = n THEN x ELSE s[m]
    PROVE  /\ NotIn(s, x) => OnceIn(r, x)
           /\ OnceIn(s, s[n]) /\ s[n] # x => NotIn(r, s[n])
           /\ \A q : q # x /\ q # s[n] => AsOften(s, r, q)
<1>2. NotIn(s, x) => OnceIn(r, x)
    BY DEF NotIn, OnceIn
<1>3. OnceIn(s, s[n]) /\ s[n] # x => NotIn(r, s[n])
    BY DEF NotIn, OnceIn
<1>4. ASSUME NEW q, q # x, q # s[n]
      PROVE  AsOften(s, r, q)
    BY <1>4 DEF NotIn, OnceIn, AsOften
<1> QED
    BY <1>2, <1>3, <1>4

LEMMA PlaceAdded ==
    ASSUME NEW s, NEW n \in Nat, DOMAIN s = 1 .. n, NEW x, NEW r, DOMAIN r = 1 .. n + 1,
           r[n + 1] = x, \A m \in 1 .. n : r[m] = s[m]
    PROVE  /\ NotIn(s, x) => OnceIn(r, x)
           /\ \A q : q # x => AsOften(s, r, q)
<1>3. /\ \A m \in 1 .. n + 1 : m = n + 1 \/ (m \in 1 .. n /\ m # n + 1)
      /\ \A m \in 1 .. n : m \in 1 .. n + 1 /\ m # n + 1
      /\ n + 1 \in 1 .. n + 1
    OBVIOUS
<1>4. NotIn(s, x) => OnceIn(r, x)
    BY <1>3 DEF NotIn, OnceIn
<1>5. ASSUME NEW q, q # x
      PROVE  AsOften(s, r, q)
    <2>1. ASSUME OnceIn(s, q)  PROVE OnceIn(r, q)
        <3>1. PICK k \in DOMAIN s : \A m \in DOMAIN s : s[m] = q <=> m = k
            BY <2>1 DEF OnceIn
        <3>2. k \in DOMAIN r /\ \A m \in DOMAIN r : r[m] = q <=> m = k
            BY <1>3, <1>5, <3>1
        <3> QED
            BY <3>2 DEF OnceIn
    <2>2. NotIn(s, q) => NotIn(r, q)
        BY <1>3, <1>5 DEF NotIn
    <2> QED
        BY <2>1, <2>2 DEF AsOften
<1> QED
    BY <1>4, <1>5

LEMMA TrackLists ==
    ASSUME NEW t \in Tables, NEW p \in Ptrs, Unlisted(t, p)
    PROVE  /\ Blocks!Track(p, t) \in Tables /\ Listed(Blocks!Track(p, t), p)
           /\ \A q \in Ptrs \ {p} : /\ Listed(t, q) => Listed(Blocks!Track(p, t), q)
                                    /\ Unlisted(t, q) => Unlisted(Blocks!Track(p, t), q)
<1> DEFINE s == t[Hash[p]]
           u == Blocks!Track(p, t)
<1>1. s \in Seq(Ptrs \cup {Null}) /\ Null \notin Ptrs
    BY BlockConstants DEF Tables
<1>2. PICK r \in Seq(Ptrs \cup {Null}) :
          /\ u = [t EXCEPT ![Hash[p]] = r] /\ OnceIn(r, p)
          /\ \A q \in Ptrs \ {p} : AsOften(s, r, q)
    <2>0. NotIn(s, p)
        BY DEF Unlisted
    <2>1. CASE \E n \in DOMAIN s : s[n] = Null
        <3> DEFINE k == Blocks!FirstSlot(t, p, Null)
                   r == [s EXCEPT ![k] = p]
        <3>1. k \in DOMAIN s /\ s[k] = Null
            BY <2>1, FirstPlace
        <3>2. u = [t EXCEPT ![Hash[p]] = r]
            BY <2>1 DEF Blocks!Track
        <3> HIDE DEF k, s, u
        <3>3. /\ r \in Seq(Ptrs \cup {Null}) /\ DOMAIN r = DOMAIN s
              /\ \A m \in DOMAIN s : r[m] = IF m = k THEN p ELSE s[m]
            BY <1>1, <3>1
        <3> HIDE DEF r
        <3>4. OnceIn(r, p) /\ \A q : q # p /\ q # Null => AsOften(s, r, q)
            BY <2>0, <3>1, <3>3, PlaceSet
        <3> QED
            BY <1>1, <3>2, <3>3, <3>4
    <2>2. CASE ~\E n \in DOMAIN s : s[n] = Null
        <3> DEFINE r == Append(s, p)
        <3>1. u = [t EXCEPT ![Hash[p]] = r]
            BY <2>2 DEF Blocks!Track
        <3> HIDE DEF s, u
        <3>2. PICK n \in Nat : n = Len(s) /\ DOMAIN s = 1 .. n
            BY <1>1
        <3>3. /\ r \in Seq(Ptrs \cup {Null}) /\ DOMAIN r = 1 .. n + 1
              /\ r[n + 1] = p /\ \A m \in 1 .. n : r[m] = s[m]
            BY <1>1, <3>2
        <3> HIDE DEF r
        <3>4. OnceIn(r, p) /\ \A q : q # p => AsOften(s, r, q)
            BY <2>0, <3>2, <3>3, PlaceAdded
        <3> QED
            BY <1>1, <3>1, <3>3, <3>4
    <2> QED
        BY <2>1, <2>2
<1> HIDE DEF u
<1>3. /\ u \in Tables /\ u[Hash[p]] = r
      /\ \A q \in Ptrs : Hash[q] # Hash[p] => u[Hash[q]] = t[Hash[q]]
    BY <1>2, BlockConstants DEF Tables
<1> QED
    BY <1>2, <1>3 DEF Listed, Unlisted, AsOften, u

LEMMA UntrackStrikes ==
    ASSUME NEW t \in Tables, NEW p \in Ptrs, Listed(t, p)
    PROVE  /\ Blocks!Untrack(p, t) \in Tables /\ Unlisted(Blocks!Untrack(p, t), p)
           /\ \A q \in Ptrs \ {p} : /\ Listed(t, q) => Listed(Blocks!Untrack(p, t), q)
                                    /\ Unlisted(t, q) => Unlisted(Blocks!Untrack(p, t), q)
<1> DEFINE s == t[Hash[p]]
           u == Blocks!Untrack(p, t)
           k == Blocks!FirstSlot(t, p, p)
           r == [s EXCEPT ![k] = Null]
<1>1. Null \notin Ptrs /\ s \in Seq(Ptrs \cup {Null}) /\ OnceIn(s, p)
    BY BlockConstants DEF Tables, Listed
<1>2. k \in DOMAIN s /\ s[k] = p
    BY <1>1, FirstPlace DEF OnceIn
<1>3. u = [t EXCEPT ![Hash[p]] = r]
    BY <1>2 DEF Blocks!Untrack, Blocks!SlotsOf
<1> HIDE DEF k, u, s
<1>4. /\ r \in Seq(Ptrs \cup {Null}) /\ DOMAIN r = DOMAIN s
      /\ \A m \in DOMAIN s : r[m] = IF m = k THEN Null ELSE s[m]
    BY <1>1, <1>2
<1> HIDE DEF r
<1>6. NotIn(r, p) /\ \A q : q # Null /\ q # p => AsOften(s, r, q)
    BY <1>1, <1>2, <1>4, PlaceSet
<1>5. /\ u \in Tables /\ u[Hash[p]] = r
      /\ \A q \in Ptrs : Hash[q] # Hash[p] => u[Hash[q]] = t[Hash[q]]
    BY <1>3, <1>4, BlockConstants DEF Tables
<1> QED
    BY <1>1, <1>5, <1>6 DEF Listed, Unlisted, AsOften, s, u

-----------------------------------------------------------------------------
(* Blocks.                                                                   *)

LEMMA SizesAreNats == \A n \in Sizes : n \in Nat
BY BlockConstants

LEMMA NewIsWhole ==
    ASSUME NEW n \in Nat \ {0}, n <= MaxAlloc, NEW mem \in Seq(Blocks!Bytes), Len(mem) = n + 1,
           NEW w \in Seq(Wanted), Len(w) <= n, \A k \in 1 .. Len(w) : w[k] # "any" => mem[k] = w[k],
           NEW d \in BOOLEAN, mem[n + 1] = "canary" \/ d
    PROVE  Whole(Blocks!Block(mem), w, d) /\ Blocks!Block(mem).live
<1> DEFINE b == Blocks!Block(mem)
<1>1. Len(mem) - 1 = n /\ n \in 0 .. MaxAlloc
    BY BlockConstants
<1>2. b.live = TRUE /\ b.c1 = "used" /\ b.size = n /\ b.mem = mem /\ b \in BlockType
    BY <1>1 DEF Blocks!Block, BlockType
<1> HIDE DEF b
<1> QED
    BY <1>2 DEF Whole, b

LEMMA FreedIsWhole ==
    ASSUME NEW b \in Blocks!Freed, NEW d
    PROVE  Whole(b, <<>>, d) /\ ~b.live
<1>1. b \in BlockType /\ b.live = FALSE /\ b.c1 # "used"
    <2>1. <<>> \in Seq(Blocks!Bytes) /\ 0 \in 0 .. MaxAlloc
        BY BlockConstants
    <2>2. PICK c \in {"freed", "junk"} : b = [live |-> FALSE, c1 |-> c, size |-> 0, mem |-> <<>>]
        BY DEF Blocks!Freed
    <2> QED
        BY <2>1, <2>2 DEF BlockType
<1>2. <<>> \in Seq(Wanted)
    OBVIOUS
<1> QED
    BY <1>1, <1>2 DEF Whole

\* A block of n bytes that are all x, and its memory with the byte behind it.
FilledWith(n, x, z, w, mem) ==
    /\ w \in Seq(Wanted) /\ Len(w) = n
    /\ mem \in Seq(Blocks!Bytes) /\ Len(mem) = n + 1 /\ mem[n + 1] = z
    /\ \A k \in 1 .. n : w[k] = x /\ mem[k] = x
LEMMA Filled ==
    ASSUME NEW n \in Nat, NEW x \in Blocks!Bytes, NEW z \in Blocks!Bytes
    PROVE  FilledWith(n, x, z, Blocks!Fill(n, x), Blocks!Fill(n, x) \o <<z>>)
<1> DEFINE w == Blocks!Fill(n, x)
<1>1. w = [k \in 1 .. n |-> x]
    BY DEF Blocks!Fill
<1>2. w \in Seq(Blocks!Bytes) /\ w \in Seq(Wanted) /\ Len(w) = n /\ \A k \in 1 .. n : w[k] = x
    BY <1>1 DEF Wanted
<1> HIDE DEF w
<1>3. <<z>> \in Seq(Blocks!Bytes) /\ Len(<<z>>) = 1 /\ <<z>>[1] = z
    OBVIOUS
<1>4. /\ w \o <<z>> \in Seq(Blocks!Bytes) /\ Len(w \o <<z>>) = n + 1 /\ (w \o <<z>>)[n + 1] = z
      /\ \A k \in 1 .. n : (w \o <<z>>)[k] = x
    BY <1>2, <1>3
<1>5. FilledWith(n, x, z, w, w \o <<z>>)
    BY <1>2, <1>4 DEF FilledWith
<1> QED
    BY <1>5 DEF w

\* A block that stays as it is, also when another one is spoilt.
LEMMA StaysWhole ==
    ASSUME NEW b, NEW w, NEW d \in BOOLEAN, NEW e \in BOOLEAN, d => e, Whole(b, w, d)
    PROVE  Whole(b, w, e)
BY DEF Whole

LEMMA LiveBlocks ==
    ASSUME AllocInv, NEW p \in Ptrs
    PROVE  /\ Whole(heap[p], wants[p], bad) /\ heap[p].live \in BOOLEAN
           /\ p \in Blocks!Live <=> heap[p].live
           /\ ~heap[p].live => ~Blocks!Checks(p)
           /\ heap[p].live => (Blocks!Checks(p) \/ bad) /\ (Blocks!Checks(p) => Blocks!Sound(p))
<1>1. Whole(heap[p], wants[p], bad)
    BY DEF AllocInv
<1> QED
    BY <1>1 DEF Whole, BlockType, Blocks!Live, Blocks!Checks, Blocks!TailOK, Blocks!Sound

LEMMA AbortKeeps ==
    ASSUME AllocInv, NEW why \in {"canary", "refused", "out of memory", "bad request"},
           why = "canary" => bad, Blocks!Abort(why)
    PROVE  AllocInv'
<1>1. end' = why /\ UNCHANGED <<debug, heap, wants, TRK, bad, slipped>>
    BY DEF Blocks!Abort
<1> QED
    BY <1>1 DEF AllocInv, Exact, Listed, Unlisted

LEMMA NewBlockKeeps ==
    ASSUME AllocInv, NEW n \in Sizes \ {0}, NEW x \in Blocks!Bytes, NEW z \in Blocks!Bytes,
           Blocks!NewBlock(n, Blocks!Fill(n, x), Blocks!Fill(n, x) \o <<z>>)
    PROVE  AllocInv'
<1> DEFINE w == Blocks!Fill(n, x)
           mem == w \o <<z>>
<1>0. n \in Nat \ {0}
    BY SizesAreNats
<1>1. /\ w \in Seq(Wanted) /\ Len(w) = n
      /\ mem \in Seq(Blocks!Bytes) /\ Len(mem) = n + 1 /\ mem[n + 1] = z
      /\ \A k \in 1 .. n : w[k] = x /\ mem[k] = x
    <2>1. n \in Nat
        BY <1>0
    <2>2. FilledWith(n, x, z, w, mem)
        BY <2>1, Filled
    <2> HIDE DEF w, mem
    <2> QED
        BY <2>2 DEF FilledWith
<1>2. CASE Blocks!Abort("bad request") \/ Blocks!Abort("out of memory")
    BY <1>2, AbortKeeps
<1>3. CASE ~(Blocks!Abort("bad request") \/ Blocks!Abort("out of memory"))
    <2>1. ~Blocks!TooBig(n) /\ n <= MaxAlloc
        <3>1. ~Blocks!TooBig(n)
            BY <1>3 DEF Blocks!NewBlock
        <3> QED
            BY <1>0, <3>1, BlockConstants DEF Blocks!TooBig
    <2>2. PICK p \in Ptrs \ Blocks!Live :
              /\ heap' = [heap EXCEPT ![p] = Blocks!Block(mem)]
              /\ wants' = [wants EXCEPT ![p] = w]
              /\ TRK' = Blocks!TrackIf(p, TRK)
              /\ bad' = (bad \/ mem[Len(mem)] # "canary")
              /\ UNCHANGED <<debug, end, slipped>>
        BY <1>3, <2>1 DEF Blocks!NewBlock
    <2> HIDE DEF w, mem
    <2>3. bad' \in BOOLEAN /\ (bad => bad') /\ (mem[n + 1] = "canary" \/ bad')
        BY <1>1, <2>2 DEF AllocInv
    <2>4. Whole(Blocks!Block(mem), w, bad') /\ Blocks!Block(mem).live
        <3>1. \A k \in 1 .. Len(w) : w[k] # "any" => mem[k] = w[k]
            BY <1>1
        <3>2. Len(w) <= n
            BY <1>0, <1>1
        <3>3. PICK d \in BOOLEAN : d = bad'
            BY <2>3
        <3> QED
            BY <1>0, <1>1, <2>1, <2>3, <3>1, <3>2, <3>3, NewIsWhole
    <2>5. /\ DOMAIN heap' = Ptrs /\ DOMAIN wants' = Ptrs
          /\ heap'[p] = Blocks!Block(mem) /\ wants'[p] = w
          /\ \A q \in Ptrs \ {p} : heap'[q] = heap[q] /\ wants'[q] = wants[q]
        BY <2>2 DEF AllocInv
    <2>6. \A q \in Ptrs : Whole(heap'[q], wants'[q], bad')
        <3>1. \A q \in Ptrs \ {p} : Whole(heap[q], wants[q], bad')
            BY <2>3, StaysWhole DEF AllocInv
        <3> QED
            BY <2>4, <2>5, <3>1
    <2>7. TRK' \in Tables /\ (debug => Exact(TRK', heap'))
        <3>1. CASE ~debug
            BY <2>2, <3>1 DEF Blocks!TrackIf, AllocInv
        <3>2. CASE debug
            <4>1. TRK \in Tables /\ Exact(TRK, heap) /\ ~heap[p].live /\ TRK' = Blocks!Track(p, TRK)
                BY <2>2, <3>2 DEF Blocks!TrackIf, AllocInv, Blocks!Live
            <4>2. Unlisted(TRK, p)
                BY <4>1 DEF Exact
            <4>3. PICK t \in Tables : t = TRK
                BY <4>1
            <4>4. /\ Blocks!Track(p, t) \in Tables /\ Listed(Blocks!Track(p, t), p)
                  /\ \A q \in Ptrs \ {p} : /\ Listed(t, q) => Listed(Blocks!Track(p, t), q)
                                           /\ Unlisted(t, q) => Unlisted(Blocks!Track(p, t), q)
                BY <4>2, <4>3, TrackLists
            <4>5. TRK' = Blocks!Track(p, t)
                BY <4>1, <4>3
            <4> QED
                BY <2>4, <2>5, <4>1, <4>3, <4>4, <4>5 DEF Exact
        <3> QED
            BY <3>1, <3>2 DEF AllocInv
    <2> QED
        BY <2>2, <2>3, <2>5, <2>6, <2>7 DEF AllocInv
<1> QED
    BY <1>2, <1>3

\* Some blocks are replaced, and the tables follow.
LEMMA ReplacedKeeps ==
    ASSUME AllocInv, UNCHANGED <<debug, end, bad>>, slipped' = FALSE,
           DOMAIN heap' = Ptrs, DOMAIN wants' = Ptrs,
           \A q \in Ptrs : Whole(heap'[q], wants'[q], bad),
           TRK' \in Tables, debug => Exact(TRK', heap')
    PROVE  AllocInv'
BY DEF AllocInv

LEMMA ReleaseKeeps ==
    ASSUME AllocInv, NEW p \in Ptrs, heap[p].live, Blocks!Release(p)
    PROVE  AllocInv'
<1>1. CASE ~Blocks!Checks(p)
    <2>1. bad /\ Blocks!Abort("canary")
        BY <1>1, LiveBlocks DEF Blocks!Release
    <2> QED
        BY <2>1, AbortKeeps
<1>2. CASE Blocks!Checks(p)
    <2>1. PICK b \in Blocks!Freed : heap' = [heap EXCEPT ![p] = b]
        BY <1>2 DEF Blocks!Release
    <2>2. /\ wants' = [wants EXCEPT ![p] = <<>>] /\ TRK' = Blocks!UntrackIf(p, TRK)
          /\ slipped' = (slipped \/ ~Blocks!Sound(p)) /\ UNCHANGED <<debug, end, bad>>
        BY <1>2 DEF Blocks!Release
    <2>3. slipped' = FALSE
        BY <1>2, <2>2, LiveBlocks DEF AllocInv
    <2>4. Whole(b, <<>>, bad) /\ ~b.live
        BY FreedIsWhole
    <2>5. /\ DOMAIN heap' = Ptrs /\ DOMAIN wants' = Ptrs /\ heap'[p] = b /\ wants'[p] = <<>>
          /\ \A q \in Ptrs \ {p} : heap'[q] = heap[q] /\ wants'[q] = wants[q]
        BY <2>1, <2>2 DEF AllocInv
    <2>6. \A q \in Ptrs : Whole(heap'[q], wants'[q], bad)
        BY <2>4, <2>5 DEF AllocInv
    <2>7. TRK' \in Tables /\ (debug => Exact(TRK', heap'))
        <3>1. CASE ~debug
            BY <2>2, <3>1 DEF Blocks!UntrackIf, AllocInv
        <3>2. CASE debug
            <4>1. TRK \in Tables /\ Exact(TRK, heap) /\ TRK' = Blocks!Untrack(p, TRK)
                BY <2>2, <3>2 DEF Blocks!UntrackIf, AllocInv
            <4>2. Listed(TRK, p)
                BY <4>1 DEF Exact
            <4>3. PICK t \in Tables : t = TRK
                BY <4>1
            <4>4. /\ Blocks!Untrack(p, t) \in Tables /\ Unlisted(Blocks!Untrack(p, t), p)
                  /\ \A q \in Ptrs \ {p} : /\ Listed(t, q) => Listed(Blocks!Untrack(p, t), q)
                                           /\ Unlisted(t, q) => Unlisted(Blocks!Untrack(p, t), q)
                BY <4>2, <4>3, UntrackStrikes
            <4>5. TRK' = Blocks!Untrack(p, t)
                BY <4>1, <4>3
            <4> QED
                BY <2>4, <2>5, <4>1, <4>3, <4>4, <4>5 DEF Exact
        <3> QED
            BY <3>1, <3>2 DEF AllocInv
    <2> QED
        BY <2>2, <2>3, <2>5, <2>6, <2>7, ReplacedKeeps
<1> QED
    BY <1>1, <1>2

\* What ck_realloc makes of a block and of what its client wants of it.
LEMMA ResizedIsWhole ==
    ASSUME NEW b, NEW w, NEW d \in BOOLEAN, Whole(b, w, d), b.live,
           NEW n \in Nat \ {0}, n <= MaxAlloc, NEW asked \in Nat, asked <= n
    PROVE  Whole(Blocks!Block(Blocks!Resized(b.mem, b.size, n)),
                 [k \in 1 .. asked |-> IF k <= Len(w) THEN w[k]
                                       ELSE IF k > b.size THEN "0" ELSE "any"], d)
           /\ Blocks!Block(Blocks!Resized(b.mem, b.size, n)).live
<1> DEFINE mem == Blocks!Resized(b.mem, b.size, n)
           v == [k \in 1 .. asked |-> IF k <= Len(w) THEN w[k]
                                      ELSE IF k > b.size THEN "0" ELSE "any"]
<1>1. /\ b.mem \in Seq(Blocks!Bytes) /\ b.size \in Nat /\ Len(b.mem) = b.size + 1
      /\ w \in Seq(Wanted) /\ Len(w) \in Nat /\ Len(w) <= b.size
      /\ \A k \in 1 .. Len(w) : w[k] # "any" => b.mem[k] = w[k]
    <2>1. b.mem \in Seq(Blocks!Bytes) /\ b.size \in 0 .. MaxAlloc
        BY DEF Whole, BlockType
    <2>2. b.size \in Nat
        BY <2>1, BlockConstants
    <2> QED
        BY <2>1, <2>2 DEF Whole
<1>2. mem = [k \in 1 .. n + 1 |-> IF k = n + 1 THEN "canary" ELSE IF k <= b.size THEN b.mem[k] ELSE "0"]
    BY DEF Blocks!Resized
<1>3. \A k \in 1 .. n + 1 : /\ k <= b.size => b.mem[k] \in Blocks!Bytes
                            /\ mem[k] \in Blocks!Bytes
    <2>1. \A k \in 1 .. n + 1 : k <= b.size => k \in DOMAIN b.mem
        BY <1>1
    <2> QED
        BY <1>1, <1>2, <2>1 DEF Blocks!Bytes
<1>4. mem \in Seq(Blocks!Bytes) /\ Len(mem) = n + 1 /\ mem[n + 1] = "canary"
    BY <1>2, <1>3
<1>5. \A k \in 1 .. asked : v[k] \in Wanted
    <2>1. \A k \in 1 .. asked : k <= Len(w) => w[k] \in Wanted
        BY <1>1
    <2> QED
        BY <2>1 DEF Wanted, Blocks!Bytes
<1>6. v \in Seq(Wanted) /\ Len(v) = asked
    BY <1>5
<1>7. \A k \in 1 .. asked : v[k] # "any" => mem[k] = v[k]
    <2> SUFFICES ASSUME NEW k \in 1 .. asked, v[k] # "any"  PROVE mem[k] = v[k]
        OBVIOUS
    <2>1. k \in 1 .. n + 1 /\ k # n + 1
        OBVIOUS
    <2>2. CASE k <= Len(w)
        BY <1>1, <1>2, <2>1, <2>2
    <2>3. CASE ~(k <= Len(w))
        BY <1>1, <1>2, <2>1, <2>3
    <2> QED
        BY <2>2, <2>3
<1> HIDE DEF mem, v
<1>8. Whole(Blocks!Block(mem), v, d) /\ Blocks!Block(mem).live
    BY <1>4, <1>6, <1>7, NewIsWhole
<1> QED
    BY <1>8 DEF mem, v

LEMMA ReallocKeeps ==
    ASSUME AllocInv, NEW p \in Ptrs, heap[p].live, NEW n \in Nat \ {0}, NEW asked \in Nat,
           asked <= n, Blocks!Realloc(p, n, asked)
    PROVE  AllocInv'
<1>1. CASE ~Blocks!Checks(p)
    <2>1. bad /\ Blocks!Abort("canary")
        BY <1>1, LiveBlocks DEF Blocks!Realloc
    <2> QED
        BY <2>1, AbortKeeps
<1>2. CASE Blocks!Abort("bad request") \/ Blocks!Abort("out of memory")
    BY <1>2, AbortKeeps
<1>3. CASE Blocks!Checks(p) /\ ~(Blocks!Abort("bad request") \/ Blocks!Abort("out of memory"))
    <2> DEFINE c == Blocks!Block(Blocks!Resized(heap[p].mem, heap[p].size, n))
               v == [k \in 1 .. asked |-> IF k <= Len(wants[p]) THEN wants[p][k]
                                          ELSE IF k > heap[p].size THEN "0" ELSE "any"]
    <2>1. ~Blocks!TooBig(n)
        BY <1>3 DEF Blocks!Realloc
    <2>2. n <= MaxAlloc
        BY <2>1, BlockConstants DEF Blocks!TooBig
    <2>3. PICK q \in (Ptrs \ Blocks!Live) \cup (IF debug THEN {} ELSE {p}), b \in Blocks!Freed :
              /\ heap' = [[heap EXCEPT ![p] = b] EXCEPT ![q] = c]
              /\ wants' = [[wants EXCEPT ![p] = <<>>] EXCEPT ![q] = v]
              /\ TRK' = Blocks!TrackIf(q, Blocks!UntrackIf(p, TRK))
              /\ slipped' = (slipped \/ ~Blocks!Sound(p))
              /\ UNCHANGED <<debug, end, bad>>
        BY <1>3, <2>1 DEF Blocks!Realloc
    <2>4. Whole(heap[p], wants[p], bad) /\ bad \in BOOLEAN
        BY DEF AllocInv
    <2>5. Whole(c, v, bad) /\ c.live
        BY <2>2, <2>4, ResizedIsWhole
    <2> HIDE DEF c, v
    <2>6. Whole(b, <<>>, bad) /\ ~b.live
        BY FreedIsWhole
    <2>7. q \in Ptrs /\ (debug => q # p /\ ~heap[q].live)
        BY <2>3 DEF Blocks!Live
    <2>8. /\ DOMAIN heap' = Ptrs /\ DOMAIN wants' = Ptrs
          /\ heap'[q] = c /\ wants'[q] = v
          /\ q # p => heap'[p] = b /\ wants'[p] = <<>>
          /\ \A r \in Ptrs \ {p, q} : heap'[r] = heap[r] /\ wants'[r] = wants[r]
        BY <2>3, <2>7 DEF AllocInv
    <2>9. slipped' = FALSE
        BY <1>3, <2>3, LiveBlocks DEF AllocInv
    <2>10. \A r \in Ptrs : Whole(heap'[r], wants'[r], bad)
        BY <2>5, <2>6, <2>8 DEF AllocInv
    <2>11. TRK' \in Tables /\ (debug => Exact(TRK', heap'))
        <3>1. CASE ~debug
            BY <2>3, <3>1 DEF Blocks!TrackIf, Blocks!UntrackIf, AllocInv
        <3>2. CASE debug
            <4>1. /\ TRK \in Tables /\ Exact(TRK, heap)
                  /\ TRK' = Blocks!Track(q, Blocks!Untrack(p, TRK))
                BY <2>3, <3>2 DEF Blocks!TrackIf, Blocks!UntrackIf, AllocInv
            <4>2. Listed(TRK, p) /\ Unlisted(TRK, q) /\ q # p
                BY <2>7, <3>2, <4>1 DEF Exact
            <4>3. PICK t \in Tables : t = TRK
                BY <4>1
            <4>4. /\ Blocks!Untrack(p, t) \in Tables /\ Unlisted(Blocks!Untrack(p, t), p)
                  /\ \A r \in Ptrs \ {p} : /\ Listed(t, r) => Listed(Blocks!Untrack(p, t), r)
                                           /\ Unlisted(t, r) => Unlisted(Blocks!Untrack(p, t), r)
                BY <4>2, <4>3, UntrackStrikes
            <4>5. PICK u \in Tables : u = Blocks!Untrack(p, t)
                BY <4>4
            <4>6. Unlisted(u, q)
                BY <2>7, <4>2, <4>3, <4>4, <4>5
            <4>7. /\ Blocks!Track(q, u) \in Tables /\ Listed(Blocks!Track(q, u), q)
                  /\ \A r \in Ptrs \ {q} : /\ Listed(u, r) => Listed(Blocks!Track(q, u), r)
                                           /\ Unlisted(u, r) => Unlisted(Blocks!Track(q, u), r)
                BY <2>7, <4>6, TrackLists
            <4>8. TRK' = Blocks!Track(q, u)
                BY <4>1, <4>3, <4>5
            <4>9. \A r \in Ptrs \ {p, q} : IF heap'[r].live THEN Listed(TRK', r) ELSE Unlisted(TRK', r)
                BY <2>8, <4>1, <4>3, <4>4, <4>5, <4>7, <4>8 DEF Exact
            <4>10. Listed(TRK', q) /\ Unlisted(TRK', p)
                BY <4>2, <4>4, <4>5, <4>7, <4>8
            <4> QED
                BY <2>5, <2>6, <2>8, <4>2, <4>7, <4>8, <4>9, <4>10 DEF Exact
        <3> QED
            BY <3>1, <3>2 DEF AllocInv
    <2> QED
        BY <2>3, <2>8, <2>9, <2>10, <2>11, ReplacedKeeps
<1> QED
    BY <1>1, <1>2, <1>3

\* Lines 243-245: a block that is large enough stays, another one grows by more than was
\* asked for.
LEMMA BlockReallocKeeps ==
    ASSUME AllocInv, \A n \in Sizes : n + BlockInc < Wrap, Blocks!ck_realloc_block
    PROVE  AllocInv'
<1>1. PICK p \in Blocks!Live, n \in Sizes :
          IF debug THEN IF n = 0 THEN Blocks!Release(p) ELSE Blocks!Realloc(p, n, n)
          ELSE IF ~Blocks!Checks(p) THEN Blocks!Abort("canary")
          ELSE IF Blocks!Fits(p, n)
               THEN /\ wants' = [wants EXCEPT ![p] = [k \in 1 .. n |->
                                   IF k <= Len(wants[p]) THEN wants[p][k] ELSE "any"]]
                    /\ slipped' = (slipped \/ ~Blocks!Sound(p))
                    /\ UNCHANGED <<debug, heap, TRK, end, bad>>
               ELSE LET m == (n + BlockInc) % Wrap
                    IN  IF m = 0 THEN Blocks!Release(p) ELSE Blocks!Realloc(p, m, n)
    BY DEF Blocks!ck_realloc_block
<1>2. p \in Ptrs /\ heap[p].live /\ n \in Nat
    BY SizesAreNats DEF Blocks!Live
<1>3. CASE debug
    BY <1>1, <1>2, <1>3, ReleaseKeeps, ReallocKeeps
<1>4. CASE ~debug /\ ~Blocks!Checks(p)
    BY <1>1, <1>2, <1>4, LiveBlocks, AbortKeeps
<1>5. CASE ~debug /\ Blocks!Checks(p) /\ Blocks!Fits(p, n)
    <2> DEFINE v == [k \in 1 .. n |-> IF k <= Len(wants[p]) THEN wants[p][k] ELSE "any"]
    <2>1. /\ wants' = [wants EXCEPT ![p] = v] /\ slipped' = (slipped \/ ~Blocks!Sound(p))
          /\ UNCHANGED <<debug, heap, TRK, end, bad>>
        BY <1>1, <1>5
    <2>2. Whole(heap[p], wants[p], bad)
        BY <1>2 DEF AllocInv
    <2>3. wants[p] \in Seq(Wanted) /\ heap[p].size \in Nat /\ n <= heap[p].size
        <3>1. wants[p] \in Seq(Wanted) /\ heap[p].size \in 0 .. MaxAlloc
            BY <2>2 DEF Whole, BlockType
        <3> QED
            BY <1>5, <3>1, BlockConstants DEF Blocks!Fits
    <2>4. \A k \in 1 .. n : v[k] \in Wanted
        <3>1. \A k \in 1 .. n : k <= Len(wants[p]) => wants[p][k] \in Wanted
            BY <2>3
        <3> QED
            BY <3>1 DEF Wanted
    <2>5. v \in Seq(Wanted) /\ Len(v) = n
        BY <1>2, <2>4
    <2>6. \A k \in 1 .. n : v[k] # "any" => heap[p].mem[k] = v[k]
        BY <1>2, <2>2, <2>3 DEF Whole
    <2> HIDE DEF v
    <2>7. Whole(heap[p], v, bad)
        BY <1>2, <2>2, <2>3, <2>5, <2>6 DEF Whole
    <2>8. /\ DOMAIN wants' = Ptrs /\ wants'[p] = v
          /\ \A q \in Ptrs \ {p} : wants'[q] = wants[q]
        BY <1>2, <2>1 DEF AllocInv
    <2>9. slipped' = FALSE
        BY <1>2, <1>5, <2>1, LiveBlocks DEF AllocInv
    <2>10. debug => Exact(TRK', heap')
        BY <1>5
    <2>11. \A q \in Ptrs : Whole(heap'[q], wants'[q], bad)
        BY <2>1, <2>7, <2>8 DEF AllocInv
    <2> QED
        BY <2>1, <2>8, <2>9, <2>10, <2>11, ReplacedKeeps DEF AllocInv
<1>6. CASE ~debug /\ Blocks!Checks(p) /\ ~Blocks!Fits(p, n)
    <2>1. (n + BlockInc) % Wrap = n + BlockInc /\ n + BlockInc \in Nat \ {0} /\ n <= n + BlockInc
        BY <1>2, BlockConstants
    <2>2. Blocks!Realloc(p, n + BlockInc, n)
        BY <1>1, <1>6, <2>1
    <2> QED
        BY <1>2, <2>1, <2>2, ReallocKeeps
<1> QED
    BY <1>3, <1>4, <1>5, <1>6

LEMMA ByteSet ==
    ASSUME NEW T, NEW m \in Seq(T), NEW k \in DOMAIN m, NEW x \in T
    PROVE  [m EXCEPT ![k] = x] \in Seq(T) /\ Len([m EXCEPT ![k] = x]) = Len(m)
OBVIOUS

\* The client writes into a block, where it may or just behind.
LEMMA WriteKeeps ==
    ASSUME AllocInv, NEW p \in Ptrs, heap[p].live, NEW k \in Nat \ {0}, NEW w \in Seq(Wanted),
           heap' = [heap EXCEPT ![p].mem[k] = "data"],
           DOMAIN wants' = Ptrs, wants'[p] = w, \A q \in Ptrs \ {p} : wants'[q] = wants[q],
           UNCHANGED <<debug, TRK, end, slipped>>, bad' \in BOOLEAN, bad => bad',
           \/ k <= heap[p].size /\ k \in DOMAIN wants[p] /\ w = [wants[p] EXCEPT ![k] = "data"]
           \/ k = heap[p].size + 1 /\ w = wants[p] /\ bad'
    PROVE  AllocInv'
<1> DEFINE b == [heap[p] EXCEPT !.mem[k] = "data"]
<1>1. Whole(heap[p], wants[p], bad)
    BY DEF AllocInv
<1>2. /\ heap[p] \in BlockType /\ heap[p].size \in Nat /\ heap[p].mem \in Seq(Blocks!Bytes)
      /\ Len(heap[p].mem) = heap[p].size + 1 /\ wants[p] \in Seq(Wanted)
      /\ Len(wants[p]) <= heap[p].size /\ heap[p].c1 = "used"
    BY <1>1, BlockConstants DEF Whole, BlockType
<1>3. k \in 1 .. heap[p].size + 1 /\ k \in DOMAIN heap[p].mem
    BY <1>2
<1>4. /\ b \in BlockType /\ b.live = heap[p].live /\ b.c1 = heap[p].c1 /\ b.size = heap[p].size
      /\ b.mem = [heap[p].mem EXCEPT ![k] = "data"] /\ Len(b.mem) = heap[p].size + 1
    <2>1. "data" \in Blocks!Bytes
        BY DEF Blocks!Bytes
    <2>4. /\ [heap[p].mem EXCEPT ![k] = "data"] \in Seq(Blocks!Bytes)
          /\ Len([heap[p].mem EXCEPT ![k] = "data"]) = Len(heap[p].mem)
        BY <1>2, <1>3, <2>1, ByteSet
    <2>2. PICK s \in Seq(Blocks!Bytes) : s = [heap[p].mem EXCEPT ![k] = "data"] /\ Len(s) = Len(heap[p].mem)
        BY <2>4
    <2>3. b = [heap[p] EXCEPT !.mem = s]
        BY <2>2
    <2> HIDE DEF b
    <2> QED
        BY <1>2, <2>2, <2>3 DEF BlockType
<1>5. \A m \in 1 .. heap[p].size + 1 : b.mem[m] = IF m = k THEN "data" ELSE heap[p].mem[m]
    BY <1>2, <1>4
<1>6. heap' = [heap EXCEPT ![p] = b]
    OBVIOUS
<1> HIDE DEF b
<1>7. Len(w) = Len(wants[p]) /\ \A m \in 1 .. Len(w) : w[m] = wants[p][m] \/ (w[m] = "data" /\ m = k)
    BY <1>2
<1>8. \A m \in 1 .. Len(w) : m \in 1 .. heap[p].size + 1 /\ m # heap[p].size + 1
    BY <1>2, <1>7
<1>9. \A m \in 1 .. Len(w) : w[m] # "any" => b.mem[m] = w[m]
    <2> SUFFICES ASSUME NEW m \in 1 .. Len(w), w[m] # "any"  PROVE b.mem[m] = w[m]
        OBVIOUS
    <2>1. CASE k = heap[p].size + 1 /\ w = wants[p]
        BY <1>1, <1>5, <1>7, <1>8, <2>1 DEF Whole
    <2>2. CASE k \in DOMAIN wants[p] /\ w = [wants[p] EXCEPT ![k] = "data"]
        <3>1. w[m] = IF m = k THEN "data" ELSE wants[p][m]
            BY <1>2, <1>7, <2>2
        <3> QED
            BY <1>1, <1>5, <1>7, <1>8, <3>1 DEF Whole
    <2> QED
        BY <2>1, <2>2
<1>10. b.mem[b.size + 1] = "canary" \/ bad'
    <2>1. heap[p].size + 1 \in 1 .. heap[p].size + 1
        BY <1>2
    <2>2. CASE bad'
        BY <2>2
    <2>3. CASE ~bad'
        <3>1. k # heap[p].size + 1 /\ heap[p].mem[heap[p].size + 1] = "canary"
            BY <1>1, <1>2, <2>3 DEF Whole
        <3> QED
            BY <1>4, <1>5, <2>1, <3>1
    <2> QED
        BY <2>2, <2>3
<1>11. Whole(b, w, bad')
    BY <1>2, <1>4, <1>7, <1>9, <1>10 DEF Whole
<1>12. /\ DOMAIN heap' = Ptrs /\ DOMAIN wants' = Ptrs /\ heap'[p] = b /\ wants'[p] = w
       /\ \A q \in Ptrs \ {p} : heap'[q] = heap[q] /\ wants'[q] = wants[q]
    BY <1>6 DEF AllocInv
<1>13. \A q \in Ptrs : Whole(heap'[q], wants'[q], bad')
    <2>1. \A q \in Ptrs \ {p} : Whole(heap[q], wants[q], bad')
        BY StaysWhole DEF AllocInv
    <2> QED
        BY <1>11, <1>12, <2>1
<1>14. debug => Exact(TRK, heap')
    BY <1>4, <1>12 DEF AllocInv, Exact
<1>15. /\ TRK \in Tables /\ debug \in BOOLEAN /\ ~slipped
       /\ end \in {"", "canary", "refused", "out of memory", "bad request"}
       /\ end = "canary" => bad'
    BY DEF AllocInv
<1>16. TRK' = TRK /\ debug' = debug /\ slipped' = slipped /\ end' = end
    OBVIOUS
<1>17. debug' => Exact(TRK', heap')
    BY <1>14, <1>16
<1> QED
    BY <1>12, <1>13, <1>15, <1>16, <1>17 DEF AllocInv

LEMMA ClientKeeps ==
    ASSUME AllocInv, Blocks!Write \/ Blocks!Overrun
    PROVE  AllocInv'
<1>1. CASE Blocks!Write
    <2>1. PICK p \in Blocks!Live : \E k \in DOMAIN wants[p] :
              /\ k <= heap[p].size
              /\ heap' = [heap EXCEPT ![p].mem[k] = "data"]
              /\ wants' = [wants EXCEPT ![p][k] = "data"]
        BY <1>1 DEF Blocks!Write
    <2>2. PICK k \in DOMAIN wants[p] :
              /\ k <= heap[p].size
              /\ heap' = [heap EXCEPT ![p].mem[k] = "data"]
              /\ wants' = [wants EXCEPT ![p] = [wants[p] EXCEPT ![k] = "data"]]
        BY <2>1
    <2>8. /\ DOMAIN wants' = Ptrs /\ wants'[p] = [wants[p] EXCEPT ![k] = "data"]
          /\ \A q \in Ptrs \ {p} : wants'[q] = wants[q]
        BY <2>2 DEF AllocInv, Blocks!Live
    <2>3. UNCHANGED <<debug, TRK, end, bad, slipped>>
        BY <1>1 DEF Blocks!Write
    <2>4. p \in Ptrs /\ heap[p].live
        BY DEF Blocks!Live
    <2>5. wants[p] \in Seq(Wanted)
        BY <2>4 DEF AllocInv, Whole
    <2>6. k \in Nat \ {0} /\ [wants[p] EXCEPT ![k] = "data"] \in Seq(Wanted)
        BY <2>5 DEF Wanted, Blocks!Bytes
    <2>7. bad' \in BOOLEAN /\ (bad => bad')
        BY <2>3 DEF AllocInv
    <2> QED
        BY <2>2, <2>3, <2>4, <2>6, <2>7, <2>8, WriteKeeps
<1>2. CASE Blocks!Overrun
    <2>1. PICK p \in Blocks!Live : heap' = [heap EXCEPT ![p].mem[heap[p].size + 1] = "data"]
        BY <1>2 DEF Blocks!Overrun
    <2>2. bad' = TRUE /\ UNCHANGED <<debug, wants, TRK, end, slipped>>
        BY <1>2 DEF Blocks!Overrun
    <2>3. p \in Ptrs /\ heap[p].live
        BY DEF Blocks!Live
    <2>4. wants[p] \in Seq(Wanted) /\ heap[p].size + 1 \in Nat \ {0}
        <3>1. Whole(heap[p], wants[p], bad)
            BY <2>3 DEF AllocInv
        <3>2. wants[p] \in Seq(Wanted) /\ heap[p].size \in 0 .. MaxAlloc
            BY <3>1 DEF Whole, BlockType
        <3> QED
            BY <3>2, BlockConstants
    <2>5. DOMAIN wants' = Ptrs /\ \A q \in Ptrs : wants'[q] = wants[q]
        BY <2>2 DEF AllocInv
    <2>6. bad' \in BOOLEAN /\ (bad => bad')
        BY <2>2
    <2> QED
        BY <2>1, <2>2, <2>3, <2>4, <2>5, <2>6, WriteKeeps
<1> QED
    BY <1>1, <1>2

LEMMA AllocNext ==
    ASSUME AllocInv, \A n \in Sizes : n + BlockInc < Wrap, [Blocks!Next]_blockvars
    PROVE  AllocInv'
<1>1. CASE Blocks!ck_alloc \/ Blocks!ck_memdup \/ Blocks!ck_memdup_str
    <2>1. {"0", "data", "canary"} \subseteq Blocks!Bytes /\ Blocks!Tail1 = <<"canary">>
        BY DEF Blocks!Bytes, Blocks!Tail1
    <2> QED
        BY <1>1, <2>1, NewBlockKeeps DEF Blocks!ck_alloc, Blocks!ck_memdup, Blocks!ck_memdup_str
<1>2. CASE Blocks!ck_free
    BY <1>2, ReleaseKeeps DEF Blocks!ck_free, Blocks!Live
<1>3. CASE Blocks!ck_realloc
    <2>1. PICK p \in Blocks!Live, n \in Sizes :
              IF n = 0 THEN Blocks!Release(p) ELSE Blocks!Realloc(p, n, n)
        BY <1>3 DEF Blocks!ck_realloc
    <2>2. p \in Ptrs /\ heap[p].live /\ n \in Nat /\ n <= n
        BY SizesAreNats DEF Blocks!Live
    <2> QED
        BY <2>1, <2>2, ReleaseKeeps, ReallocKeeps
<1>4. CASE Blocks!ck_realloc_block
    BY <1>4, BlockReallocKeeps
<1>5. CASE Blocks!FreeAgain \/ Blocks!ReallocAgain
    <2>1. \A p \in Ptrs \ Blocks!Live : ~Blocks!Checks(p)
        BY LiveBlocks
    <2>2. Blocks!Abort("refused")
        BY <1>5, <2>1 DEF Blocks!FreeAgain, Blocks!ReallocAgain
    <2> QED
        BY <2>2, AbortKeeps
<1>6. CASE Blocks!Write \/ Blocks!Overrun
    BY <1>6, ClientKeeps
<1>7. CASE UNCHANGED blockvars
    BY <1>7 DEF blockvars, AllocInv, Exact, Listed, Unlisted
<1> QED
    BY <1>1, <1>2, <1>3, <1>4, <1>5, <1>6, <1>7 DEF Blocks!Next

LEMMA AllocBegins == Blocks!Init => AllocInv
<1> SUFFICES ASSUME Blocks!Init  PROVE AllocInv
    OBVIOUS
<1>1. /\ DOMAIN heap = Ptrs /\ DOMAIN wants = Ptrs
      /\ \A p \in Ptrs : heap[p] = [live |-> FALSE, c1 |-> "junk", size |-> 0, mem |-> <<>>]
                        /\ wants[p] = <<>>
    BY DEF Blocks!Init
<1>2. [live |-> FALSE, c1 |-> "junk", size |-> 0, mem |-> <<>>] \in Blocks!Freed
    BY DEF Blocks!Freed
<1>3. \A p \in Ptrs : Whole(heap[p], wants[p], bad) /\ ~heap[p].live
    BY <1>1, <1>2, FreedIsWhole
<1>4. TRK = [b \in {Hash[p] : p \in Ptrs} |-> <<>>]
    BY DEF Blocks!Init
<1>5. TRK \in Tables /\ \A p \in Ptrs : TRK[Hash[p]] = <<>>
    BY <1>4 DEF Tables
<1>6. \A p \in Ptrs : Unlisted(TRK, p)
    BY <1>5 DEF Unlisted, NotIn
<1>7. Exact(TRK, heap)
    BY <1>3, <1>6 DEF Exact
<1>8. debug \in BOOLEAN /\ bad = FALSE /\ slipped = FALSE /\ end = ""
    BY DEF Blocks!Init
<1> QED
    BY <1>1, <1>3, <1>5, <1>7, <1>8 DEF AllocInv

LEMMA AllocIsWhole == AllocInv => Blocks!BlocksAreWhole
<1> SUFFICES ASSUME AllocInv  PROVE Blocks!BlocksAreWhole
    OBVIOUS
<1>1. \A p \in Ptrs : Whole(heap[p], wants[p], bad)
    BY DEF AllocInv
<1>2. Blocks!TypeOK
    <2>1. \A p \in Ptrs : heap[p].size \in 0 .. MaxAlloc /\ (heap[p].live => Len(heap[p].mem) = heap[p].size + 1)
        BY <1>1 DEF Whole, BlockType
    <2>2. \A b \in DOMAIN TRK : \A k \in DOMAIN TRK[b] : TRK[b][k] \in Ptrs \cup {Null}
        <3>1. \A b \in DOMAIN TRK : TRK[b] \in Seq(Ptrs \cup {Null})
            BY DEF AllocInv, Tables
        <3> QED
            BY <3>1
    <2> QED
        BY <2>1, <2>2 DEF AllocInv, Blocks!TypeOK
<1>3. Blocks!NoFalseAlarm /\ Blocks!NothingSlips
    BY DEF AllocInv, Blocks!NoFalseAlarm, Blocks!NothingSlips
<1>4. Blocks!EnoughRoom
    BY <1>1 DEF Whole, Blocks!EnoughRoom, Blocks!Live
<1>5. Blocks!ContentsKept
    BY <1>1 DEF Whole, Blocks!ContentsKept, Blocks!Live
<1>6. Blocks!TablesExact
    <2> SUFFICES ASSUME debug, NEW p \in Ptrs
                 PROVE  Blocks!Cardinality(Blocks!SlotsOf(TRK, p)) = IF p \in Blocks!Live THEN 1 ELSE 0
        BY DEF Blocks!TablesExact
    <2>1. \A S : Blocks!Cardinality(S) = Cardinality(S)
        BY DEF Blocks!Cardinality, Cardinality
    <2>2. Exact(TRK, heap)
        BY DEF AllocInv
    <2>3. CASE p \in Blocks!Live
        <3>1. Listed(TRK, p)
            BY <2>2, <2>3 DEF Exact, Blocks!Live
        <3>2. PICK n : Blocks!SlotsOf(TRK, p) = {n}
            BY <3>1 DEF Listed, OnceIn, Blocks!SlotsOf
        <3>3. Cardinality({n}) = 1
            BY FS_Singleton
        <3> QED
            BY <2>1, <2>3, <3>2, <3>3
    <2>4. CASE p \notin Blocks!Live
        <3>1. Unlisted(TRK, p)
            BY <2>2, <2>4 DEF Exact, Blocks!Live
        <3>2. Blocks!SlotsOf(TRK, p) = {}
            BY <3>1 DEF Unlisted, NotIn, Blocks!SlotsOf
        <3> QED
            BY <2>1, <2>4, <3>2, FS_EmptySet
    <2> QED
        BY <2>3, <2>4
<1> QED
    BY <1>2, <1>3, <1>4, <1>5, <1>6 DEF Blocks!BlocksAreWhole

\* In both builds, for any number of pointers, any hash, any client that calls these functions,
\* writes into its blocks and one byte behind them, and uses what it has freed: blocks are
\* whole, their contents kept, mistakes refused, and the tables of DEBUG_BUILD are the list
\* of what is in use (alloc-inl.h 79-455).  The sum of line 245 must not wrap: a block of a
\* size near 2^32 would be smaller than its client believes.
THEOREM BlocksStayWhole ==
    ASSUME \A n \in Sizes : n + BlockInc < Wrap
    PROVE  SpecAll => []BlocksAreWhole
<1>1. InitAll => AllocInv
    BY AllocBegins DEF InitAll
<1>2. AllocInv /\ [Listing \/ Driving \/ Allocating \/ Sizing]_allvars => AllocInv'
    <2>1. [Listing \/ Driving \/ Allocating \/ Sizing]_allvars => [Blocks!Next]_blockvars
        BY DEF Listing, Driving, Allocating, Sizing, allvars
    <2> QED
        BY <2>1, AllocNext
<1>3. AllocInv => BlocksAreWhole
    BY AllocIsWhole DEF BlocksAreWhole
<1> QED
    BY <1>1, <1>2, <1>3, PTL DEF SpecAll

-----------------------------------------------------------------------------
(* The wrappers (BuildDriver): the command line and the files of a build.     *)

LEMMA DriverConstants ==
    /\ Commands \subseteq Driver!JobType
    /\ Outcomes \subseteq {"ended_0", "ended_1", "killed"}
BY ToolConstants DEF Driver!DriverAssumption

SanitizerWords == {"-fsanitize=address", "-fsanitize=memory"}
ForeignWords == {"-B", "-Bdir", "-integrated-as", "-pipe"}
OurWords == Driver!Added \cup {"-C", "path", "argv0", "default"}
Line == [by : {"user"}, word : Driver!Words] \cup [by : {"wrapper"}, word : OurWords]

Said(s, by) == {s[n].word : n \in {m \in DOMAIN s : s[m].by = by}}
OneB(s) == \E n \in DOMAIN s : \A m \in DOMAIN s : s[m].word = "-B" <=> m = n
NoB(s) == \A n \in DOMAIN s : s[n].word # "-B"

\* The words kept so far are the user's, and the flags say what is among them.
Edited(s, f) ==
    /\ NoB(s) /\ Said(s, "wrapper") = {} /\ Said(s, "user") \cap ForeignWords = {}
    /\ f.asan <=> Said(s, "user") \cap SanitizerWords # {}
    /\ f.fortify <=> "FORTIFY_SOURCE" \in Said(s, "user")

\* What the compiler is told: one directory of assemblers, and nothing that rules out
\* what the environment asks for.
OneDirectory(s, t) ==
    /\ OneB(s) /\ Said(s, "user") \cap ForeignWords = {}
    /\ t = "clang" => "-no-integrated-as" \in Said(s, "wrapper")
Consistent(user, ours) ==
    /\ SanitizerWords \cap ours # {} =>
          SanitizerWords \cap user = {} /\ "-fstack-protector-all" \notin user \cup ours
    /\ ~(SanitizerWords \subseteq ours)
    /\ "-D_FORTIFY_SOURCE=2" \in user \cup ours =>
          {"-U_FORTIFY_SOURCE", "FORTIFY_SOURCE"} \cap (user \cup ours) = {}

LineInv ==
    /\ job \in Commands /\ params \in Seq(Line)
    /\ next \in 1 .. Len(job.words) + 1
    /\ flags \in [asan : BOOLEAN, fortify : BOOLEAN]
    /\ dir \in {"none", "path", "argv0", "default"}
    /\ where \in {"find", "words", "exec", "compile", "done"}
    /\ where = "find" => params = <<>> /\ flags = [asan |-> FALSE, fortify |-> FALSE]
    /\ where = "words" => job.tool # "rustc" /\ dir # "none" /\ Edited(params, flags)
    /\ where = "exec" \/ Driver!Running =>
          /\ job.tool # "rustc" => OneDirectory(params, job.tool)
          /\ Consistent(Said(params, "user"), Said(params, "wrapper"))

-----------------------------------------------------------------------------
(* The words of a command line that is put together.                         *)

LEMMA SaidBoth ==
    ASSUME NEW s \in Seq(Line), NEW r \in Seq(Line)
    PROVE  /\ s \o r \in Seq(Line)
           /\ \A by : Said(s \o r, by) = Said(s, by) \cup Said(r, by)
           /\ NoB(s) /\ NoB(r) => NoB(s \o r)
           /\ NoB(s) /\ OneB(r) => OneB(s \o r)
           /\ OneB(s) /\ NoB(r) => OneB(s \o r)
<1> DEFINE t == s \o r
<1>1. /\ t \in Seq(Line) /\ Len(t) = Len(s) + Len(r)
      /\ \A n \in 1 .. Len(s) : t[n] = s[n]
      /\ \A n \in 1 .. Len(r) : t[Len(s) + n] = r[n]
      /\ DOMAIN s = 1 .. Len(s) /\ DOMAIN r = 1 .. Len(r) /\ DOMAIN t = 1 .. Len(t)
      /\ Len(s) \in Nat /\ Len(r) \in Nat
    OBVIOUS
<1>2. /\ \A n \in DOMAIN t : n \in DOMAIN s \/ (n - Len(s) \in DOMAIN r /\ t[n] = r[n - Len(s)])
      /\ \A n \in DOMAIN s : n \in DOMAIN t /\ t[n] = s[n]
      /\ \A n \in DOMAIN r : Len(s) + n \in DOMAIN t /\ t[Len(s) + n] = r[n]
    <2> HIDE DEF t
    <2>1. ASSUME NEW n \in DOMAIN t  PROVE n \in DOMAIN s \/ (n - Len(s) \in DOMAIN r /\ t[n] = r[n - Len(s)])
        <3>1. n \in Nat /\ n >= 1 /\ n <= Len(s) + Len(r)
            BY <1>1, <2>1
        <3>2. CASE n <= Len(s)
            BY <1>1, <3>1, <3>2
        <3>3. CASE n > Len(s)
            <4>1. n - Len(s) \in 1 .. Len(r) /\ Len(s) + (n - Len(s)) = n
                BY <1>1, <3>1, <3>3
            <4> QED
                BY <1>1, <4>1
        <3> QED
            BY <1>1, <3>1, <3>2, <3>3
    <2>2. \A n \in DOMAIN s : n \in DOMAIN t /\ t[n] = s[n]
        BY <1>1
    <2>3. \A n \in DOMAIN r : Len(s) + n \in DOMAIN t /\ t[Len(s) + n] = r[n]
        BY <1>1
    <2> QED
        BY <2>1, <2>2, <2>3
<1>3. ASSUME NEW by  PROVE Said(t, by) = Said(s, by) \cup Said(r, by)
    <2> HIDE DEF t
    <2>1. \A x \in Said(t, by) : x \in Said(s, by) \cup Said(r, by)
        <3> SUFFICES ASSUME NEW n \in DOMAIN t, t[n].by = by
                     PROVE  t[n].word \in Said(s, by) \cup Said(r, by)
            BY DEF Said
        <3>1. CASE n \in DOMAIN s
            BY <1>2, <3>1 DEF Said
        <3>2. CASE n - Len(s) \in DOMAIN r /\ t[n] = r[n - Len(s)]
            BY <3>2 DEF Said
        <3> QED
            BY <1>2, <3>1, <3>2
    <2>2. \A x \in Said(s, by) : x \in Said(t, by)
        BY <1>2 DEF Said
    <2>3. \A x \in Said(r, by) : x \in Said(t, by)
        BY <1>2 DEF Said
    <2> QED
        BY <2>1, <2>2, <2>3
<1>4. NoB(s) /\ NoB(r) => NoB(t)
    <2> HIDE DEF t
    <2> QED
        BY <1>2 DEF NoB
<1>5. NoB(s) /\ OneB(r) => OneB(t)
    <2> HIDE DEF t
    <2> SUFFICES ASSUME NoB(s), NEW n \in DOMAIN r, \A m \in DOMAIN r : r[m].word = "-B" <=> m = n
                 PROVE  OneB(t)
        BY DEF OneB
    <2>1. Len(s) + n \in DOMAIN t /\ t[Len(s) + n].word = "-B"
        BY <1>2
    <2>2. ASSUME NEW m \in DOMAIN t, t[m].word = "-B"  PROVE m = Len(s) + n
        <3>1. m \notin DOMAIN s
            BY <1>2, <2>2 DEF NoB
        <3>2. m - Len(s) \in DOMAIN r /\ t[m] = r[m - Len(s)]
            BY <1>2, <3>1
        <3>3. m - Len(s) = n
            BY <2>2, <3>2
        <3>4. m \in Nat
            BY <1>1
        <3> QED
            BY <1>1, <3>3, <3>4
    <2> QED
        BY <2>1, <2>2 DEF OneB
<1>6. OneB(s) /\ NoB(r) => OneB(t)
    <2> HIDE DEF t
    <2> SUFFICES ASSUME NoB(r), NEW n \in DOMAIN s, \A m \in DOMAIN s : s[m].word = "-B" <=> m = n
                 PROVE  OneB(t)
        BY DEF OneB
    <2>1. n \in DOMAIN t /\ t[n].word = "-B"
        BY <1>2
    <2>2. ASSUME NEW m \in DOMAIN t, t[m].word = "-B"  PROVE m = n
        BY <1>2, <2>2 DEF NoB
    <2> QED
        BY <2>1, <2>2 DEF OneB
<1> QED
    BY <1>1, <1>3, <1>4, <1>5, <1>6

\* A word more, of the user or of the wrapper.
LEMMA OneSaid ==
    ASSUME NEW x \in Line
    PROVE  /\ <<x>> \in Seq(Line)
           /\ \A by : Said(<<x>>, by) = IF x.by = by THEN {x.word} ELSE {}
           /\ IF x.word = "-B" THEN OneB(<<x>>) ELSE NoB(<<x>>)
BY DEF Said, OneB, NoB

LEMMA NoneSaid ==
    <<>> \in Seq(Line) /\ NoB(<<>>) /\ \A by : Said(<<>>, by) = {}
BY DEF Said, NoB

LEMMA AppendJoined == \A s \in Seq(Line), x \in Line : Append(s, x) = s \o <<x>>
OBVIOUS

\* Words that the wrapper adds: none of them is the user's.
OurPart(s, words) ==
    s \in Seq(Line) /\ Said(s, "user") = {} /\ Said(s, "wrapper") = words

LEMMA OurWord ==
    ASSUME NEW w \in OurWords
    PROVE  /\ OurPart(<<Driver!Ours(w)>>, {w}) /\ Driver!Ours(w) \in Line
           /\ IF w = "-B" THEN OneB(<<Driver!Ours(w)>>) ELSE NoB(<<Driver!Ours(w)>>)
<1>1. Driver!Ours(w) \in Line /\ Driver!Ours(w).by = "wrapper" /\ Driver!Ours(w).word = w
    BY DEF Driver!Ours, Line
<1> QED
    BY <1>1, OneSaid DEF OurPart

LEMMA OurTwo ==
    ASSUME NEW v \in OurWords, NEW w \in OurWords, w # "-B"
    PROVE  /\ OurPart(<<Driver!Ours(v), Driver!Ours(w)>>, {v, w})
           /\ IF v = "-B" THEN OneB(<<Driver!Ours(v), Driver!Ours(w)>>)
                          ELSE NoB(<<Driver!Ours(v), Driver!Ours(w)>>)
<1> DEFINE x == Driver!Ours(v)
           y == Driver!Ours(w)
           s == <<x, y>>
<1>1. x \in Line /\ x.by = "wrapper" /\ x.word = v /\ y \in Line /\ y.by = "wrapper" /\ y.word = w
    BY DEF Driver!Ours, Line
<1> HIDE DEF x, y
<1>2. s \in Seq(Line) /\ DOMAIN s = {1, 2} /\ s[1] = x /\ s[2] = y
    BY <1>1
<1> HIDE DEF s
<1>3. Said(s, "user") = {}
    BY <1>1, <1>2 DEF Said
<1>4. Said(s, "wrapper") = {v, w}
    <2>1. \A z \in Said(s, "wrapper") : z \in {v, w}
        BY <1>1, <1>2 DEF Said
    <2>2. v \in Said(s, "wrapper") /\ w \in Said(s, "wrapper")
        BY <1>1, <1>2 DEF Said
    <2> QED
        BY <2>1, <2>2
<1>5. IF v = "-B" THEN OneB(s) ELSE NoB(s)
    BY <1>1, <1>2 DEF OneB, NoB
<1> QED
    BY <1>2, <1>3, <1>4, <1>5 DEF OurPart, s, x, y

LEMMA OurBoth ==
    ASSUME NEW s, NEW r, NEW V, NEW W, OurPart(s, V), OurPart(r, W)
    PROVE  OurPart(s \o r, V \cup W)
<1>1. s \in Seq(Line) /\ r \in Seq(Line)
    BY DEF OurPart
<1> QED
    BY <1>1, SaidBoth DEF OurPart

LEMMA OurNone == OurPart(<<>>, {})
BY NoneSaid DEF OurPart

LEMMA OursAdded ==
    ASSUME NEW s \in Seq(Line), NEW r, NEW W, OurPart(r, W)
    PROVE  /\ s \o r \in Seq(Line)
           /\ Said(s \o r, "user") = Said(s, "user")
           /\ Said(s \o r, "wrapper") = Said(s, "wrapper") \cup W
           /\ NoB(s) /\ OneB(r) => OneB(s \o r)
           /\ OneB(s) /\ NoB(r) => OneB(s \o r)
           /\ NoB(s) /\ NoB(r) => NoB(s \o r)
<1>1. r \in Seq(Line) /\ Said(r, "user") = {} /\ Said(r, "wrapper") = W
    BY DEF OurPart
<1>2. /\ s \o r \in Seq(Line)
      /\ Said(s \o r, "user") = Said(s, "user") \cup Said(r, "user")
      /\ Said(s \o r, "wrapper") = Said(s, "wrapper") \cup Said(r, "wrapper")
      /\ NoB(s) /\ OneB(r) => OneB(s \o r)
      /\ OneB(s) /\ NoB(r) => OneB(s \o r)
      /\ NoB(s) /\ NoB(r) => NoB(s \o r)
    BY <1>1, SaidBoth
<1> QED
    BY <1>1, <1>2

\* What edit_params adds: the four parts, each with its words.
LEMMA AssemblerWords ==
    ASSUME dir \in {"path", "argv0", "default"}
    PROVE  /\ OneB(Driver!Assembler)
           /\ OurPart(Driver!Assembler, {"-B", dir} \cup
                 (IF job.tool = "clang" THEN {"-no-integrated-as"} ELSE {}))
<1> DEFINE s == <<Driver!Ours("-B"), Driver!Ours(dir)>>
           r == IF job.tool = "clang" THEN <<Driver!Ours("-no-integrated-as")>> ELSE <<>>
           W == IF job.tool = "clang" THEN {"-no-integrated-as"} ELSE {}
<1>1. OurPart(s, {"-B", dir}) /\ OneB(s)
    <2>1. "-B" \in OurWords /\ dir \in OurWords /\ dir # "-B"
        BY DEF OurWords, Driver!Added
    <2> QED
        BY <2>1, OurTwo
<1>2. OurPart(r, W) /\ NoB(r)
    <2>1. "-no-integrated-as" \in OurWords
        BY DEF OurWords, Driver!Added
    <2> QED
        BY <2>1, OurWord, OurNone, NoneSaid
<1> HIDE DEF s, r, W
<1>3. s \in Seq(Line)
    BY <1>1 DEF OurPart
<1>4. OurPart(s \o r, {"-B", dir} \cup W) /\ OneB(s \o r)
    <2>1. OurPart(s \o r, {"-B", dir} \cup W)
        BY <1>1, <1>2, OurBoth
    <2>2. OneB(s \o r)
        BY <1>1, <1>2, <1>3, OursAdded
    <2> QED
        BY <2>1, <2>2
<1> QED
    BY <1>4 DEF Driver!Assembler, s, r, W

HardeningWords ==
    IF "AFL_HARDEN" \notin job.env THEN {}
    ELSE {"-fstack-protector-all"} \cup (IF flags.fortify THEN {} ELSE {"-D_FORTIFY_SOURCE=2"})
LEMMA HardeningSaid == OurPart(Driver!Hardening, HardeningWords) /\ NoB(Driver!Hardening)
<1> DEFINE s == <<Driver!Ours("-fstack-protector-all")>>
           r == IF flags.fortify THEN <<>> ELSE <<Driver!Ours("-D_FORTIFY_SOURCE=2")>>
           W == IF flags.fortify THEN {} ELSE {"-D_FORTIFY_SOURCE=2"}
<1>1. "-fstack-protector-all" \in OurWords /\ "-D_FORTIFY_SOURCE=2" \in OurWords
    BY DEF OurWords, Driver!Added
<1>2. OurPart(s, {"-fstack-protector-all"}) /\ NoB(s)
    BY <1>1, OurWord
<1>3. OurPart(r, W) /\ NoB(r)
    BY <1>1, OurWord, OurNone, NoneSaid
<1> HIDE DEF s, r, W
<1>4. OurPart(s \o r, {"-fstack-protector-all"} \cup W)
    BY <1>2, <1>3, OurBoth
<1>5. NoB(s \o r)
    <2>1. s \in Seq(Line)
        BY <1>2 DEF OurPart
    <2> QED
        BY <2>1, <1>2, <1>3, OursAdded
<1>6. CASE "AFL_HARDEN" \in job.env
    <2>1. Driver!Hardening = s \o r /\ HardeningWords = {"-fstack-protector-all"} \cup W
        BY <1>6 DEF Driver!Hardening, Driver!Set, HardeningWords, s, r, W
    <2> QED
        BY <2>1, <1>4, <1>5
<1>7. CASE "AFL_HARDEN" \notin job.env
    <2>1. Driver!Hardening = <<>> /\ HardeningWords = {}
        BY <1>7 DEF Driver!Hardening, Driver!Set, HardeningWords
    <2> QED
        BY <2>1, OurNone, NoneSaid
<1> QED
    BY <1>6, <1>7

AddedSanitizer ==
    IF flags.asan THEN {}
    ELSE IF "AFL_USE_ASAN" \in job.env THEN {"-U_FORTIFY_SOURCE", "-fsanitize=address"}
    ELSE IF "AFL_USE_MSAN" \in job.env THEN {"-U_FORTIFY_SOURCE", "-fsanitize=memory"}
    ELSE {}
LEMMA SanitizerSaid == OurPart(Driver!Sanitizer, AddedSanitizer) /\ NoB(Driver!Sanitizer)
<1>1. /\ "-U_FORTIFY_SOURCE" \in OurWords /\ "-fsanitize=address" \in OurWords
      /\ "-fsanitize=memory" \in OurWords
    BY DEF OurWords, Driver!Added
<1>2. /\ OurPart(<<Driver!Ours("-U_FORTIFY_SOURCE"), Driver!Ours("-fsanitize=address")>>,
                 {"-U_FORTIFY_SOURCE", "-fsanitize=address"})
      /\ NoB(<<Driver!Ours("-U_FORTIFY_SOURCE"), Driver!Ours("-fsanitize=address")>>)
    BY <1>1, OurTwo
<1>3. /\ OurPart(<<Driver!Ours("-U_FORTIFY_SOURCE"), Driver!Ours("-fsanitize=memory")>>,
                 {"-U_FORTIFY_SOURCE", "-fsanitize=memory"})
      /\ NoB(<<Driver!Ours("-U_FORTIFY_SOURCE"), Driver!Ours("-fsanitize=memory")>>)
    BY <1>1, OurTwo
<1> QED
    BY <1>2, <1>3, OurNone, NoneSaid DEF Driver!Sanitizer, Driver!Set, AddedSanitizer

LEMMA RestSaid ==
    /\ NoB(Driver!Rest)
    /\ \E W : W \subseteq {"-fno-builtin", "-Wl"} /\ OurPart(Driver!Rest, W)
<1> DEFINE s == IF Driver!Set("AFL_NO_BUILTIN") THEN <<Driver!Ours("-fno-builtin")>> ELSE <<>>
           V == IF Driver!Set("AFL_NO_BUILTIN") THEN {"-fno-builtin"} ELSE {}
           r == <<Driver!Ours("-Wl")>>
<1>1. "-fno-builtin" \in OurWords /\ "-Wl" \in OurWords
    BY DEF OurWords, Driver!Added
<1>2. OurPart(s, V) /\ NoB(s)
    BY <1>1, OurWord, OurNone, NoneSaid
<1>3. OurPart(r, {"-Wl"}) /\ NoB(r)
    BY <1>1, OurWord
<1>4. V \subseteq {"-fno-builtin"}
    OBVIOUS
<1> HIDE DEF s, r, V
<1>5. OurPart(s \o r, V \cup {"-Wl"})
    BY <1>2, <1>3, OurBoth
<1>6. NoB(s \o r)
    <2>1. s \in Seq(Line)
        BY <1>2 DEF OurPart
    <2> QED
        BY <2>1, <1>2, <1>3, OursAdded
<1>7. Driver!Rest = s \o r
    BY DEF Driver!Rest, s, r
<1>8. V \cup {"-Wl"} \subseteq {"-fno-builtin", "-Wl"}
    BY <1>4
<1> QED
    BY <1>5, <1>6, <1>7, <1>8

-----------------------------------------------------------------------------
(* The steps of afl-gcc.c.                                                   *)

LEMMA JobWords ==
    ASSUME job \in Commands
    PROVE  /\ job.words \in Seq(Driver!Words) /\ job.files \in Seq(Driver!File)
           /\ job.tool \in {"gcc", "clang", "rustc"}
BY DriverConstants DEF Driver!JobType

\* What a step that leaves the command line alone has to show.
LEMMA LineStays ==
    ASSUME LineInv, where = "compile", where' \in {"compile", "done"},
           UNCHANGED <<job, next, params, flags, dir>>
    PROVE  LineInv'
<1>1. Driver!Running
    BY DEF Driver!Running
<1> QED
    BY <1>1 DEF LineInv

LEMMA FindKeepsLine == LineInv /\ Driver!FindAs => LineInv'
<1> SUFFICES ASSUME LineInv, Driver!FindAs  PROVE LineInv'
    OBVIOUS
<1>1. where = "find" /\ job.tool # "rustc" /\ UNCHANGED <<job, next, params, flags>>
    BY DEF Driver!FindAs
<1>2. CASE Driver!FoundIn = "none"
    <2>1. where' = "done" /\ dir' = dir /\ "no wrapper" \in failures'
        BY <1>2 DEF Driver!FindAs, Driver!Fatal
    <2>2. ~Driver!Running'
        BY <2>1 DEF Driver!Running
    <2> QED
        BY <1>1, <2>1, <2>2 DEF LineInv
<1>3. CASE Driver!FoundIn # "none"
    <2>1. where' = "words" /\ dir' = Driver!FoundIn
        BY <1>3 DEF Driver!FindAs
    <2>2. dir' \in {"path", "argv0", "default"}
        BY <1>3, <2>1 DEF Driver!FoundIn
    <2>3. params = <<>> /\ flags = [asan |-> FALSE, fortify |-> FALSE]
        BY <1>1 DEF LineInv
    <2>4. Edited(params, flags)
        BY <2>3, NoneSaid DEF Edited
    <2>5. Edited(params, flags)'
        BY <1>1, <2>4
    <2>6. ~Driver!Running'
        BY <2>1 DEF Driver!Running
    <2> QED
        BY <1>1, <2>1, <2>2, <2>5, <2>6 DEF LineInv
<1> QED
    BY <1>2, <1>3

LEMMA RustcKeepsLine == LineInv /\ Driver!Rustc => LineInv'
<1> SUFFICES ASSUME LineInv, Driver!Rustc  PROVE LineInv'
    OBVIOUS
<1> DEFINE u == [n \in DOMAIN job.words |-> Driver!User(job.words[n])]
           r == <<Driver!Ours("-C"), Driver!Ours("no-integrated-as")>>
<1>1. /\ where = "find" /\ job.tool = "rustc" /\ where' = "exec" /\ params' = u \o r
      /\ UNCHANGED <<job, next, flags, dir>>
    BY DEF Driver!Rustc
<1>2. u \in Seq(Line) /\ \A n \in DOMAIN u : u[n].by = "user" /\ u[n].word \in Driver!Words
    <2>1. job.words \in Seq(Driver!Words)
        BY JobWords DEF LineInv
    <2>2. \A n \in DOMAIN job.words : u[n] \in Line /\ u[n].by = "user" /\ u[n].word \in Driver!Words
        BY <2>1 DEF Driver!User, Line
    <2>3. DOMAIN u = 1 .. Len(job.words) /\ Len(job.words) \in Nat
        BY <2>1
    <2> QED
        BY <2>2, <2>3
<1>3. OurPart(r, {"-C", "no-integrated-as"})
    <2>1. "-C" \in OurWords /\ "no-integrated-as" \in OurWords /\ "no-integrated-as" # "-B"
        BY DEF OurWords, Driver!Added
    <2> QED
        BY <2>1, OurTwo
<1> HIDE DEF u, r
<1>4. /\ params' \in Seq(Line) /\ Said(params', "user") = Said(u, "user")
      /\ Said(params', "wrapper") = Said(u, "wrapper") \cup {"-C", "no-integrated-as"}
    BY <1>1, <1>2, <1>3, OursAdded
<1>5. Said(u, "user") \subseteq Driver!Words /\ Said(u, "wrapper") = {}
    BY <1>2 DEF Said
<1>6. Consistent(Said(params', "user"), Said(params', "wrapper"))
    BY <1>4, <1>5 DEF Consistent, SanitizerWords, Driver!Words
<1> QED
    BY <1>1, <1>4, <1>6 DEF LineInv

LEMMA EditKeepsLine == LineInv /\ Driver!EditWord => LineInv'
<1> SUFFICES ASSUME LineInv, Driver!EditWord  PROVE LineInv'
    OBVIOUS
<1> DEFINE w == job.words[next]
<1>1. /\ where = "words" /\ where' = "words" /\ next <= Len(job.words) /\ UNCHANGED <<job, dir>>
      /\ IF w \in {"-B", "-Bdir"}
         THEN next' = next + Driver!Consumed(w) /\ UNCHANGED <<params, flags>>
         ELSE /\ next' = next + 1
              /\ params' = IF w \in Driver!Dropped THEN params ELSE Append(params, Driver!User(w))
              /\ flags' = [asan |-> flags.asan \/ w \in SanitizerWords,
                           fortify |-> flags.fortify \/ w = "FORTIFY_SOURCE"]
    BY DEF Driver!EditWord, SanitizerWords
<1>2. /\ job.words \in Seq(Driver!Words) /\ Len(job.words) \in Nat
      /\ next \in 1 .. Len(job.words) + 1 /\ w \in Driver!Words
    <2>1. job.words \in Seq(Driver!Words) /\ next \in 1 .. Len(job.words) + 1
        BY JobWords DEF LineInv
    <2> QED
        BY <2>1, <1>1
<1>3. Edited(params, flags) /\ params \in Seq(Line) /\ flags \in [asan : BOOLEAN, fortify : BOOLEAN]
    BY <1>1 DEF LineInv
<1>4. next' \in 1 .. Len(job.words) + 1
    <2>1. CASE w \in {"-B", "-Bdir"}
        <3>1. next' = next + Driver!Consumed(w)
            BY <1>1, <2>1
        <3> HIDE DEF w
        <3> QED
            BY <3>1, <1>1, <1>2 DEF Driver!Consumed
    <2>2. CASE w \notin {"-B", "-Bdir"}
        <3>1. next' = next + 1
            BY <1>1, <2>2
        <3> QED
            BY <3>1, <1>1, <1>2
    <2> QED
        BY <2>1, <2>2
<1> HIDE DEF w
<1>5. /\ params' \in Seq(Line) /\ flags' \in [asan : BOOLEAN, fortify : BOOLEAN]
      /\ Edited(params', flags')
    <2>1. CASE w \in {"-B", "-Bdir"}
        BY <1>1, <1>3, <2>1
    <2>2. CASE w \notin {"-B", "-Bdir"} /\ w \in Driver!Dropped
        <3>1. w \notin SanitizerWords /\ w # "FORTIFY_SOURCE"
            BY <2>2 DEF Driver!Dropped, SanitizerWords
        <3>2. params' = params /\ flags' = [asan |-> flags.asan, fortify |-> flags.fortify]
            BY <1>1, <1>3, <2>2, <3>1
        <3> QED
            BY <1>3, <3>2 DEF Edited
    <2>3. CASE w \notin {"-B", "-Bdir"} /\ w \notin Driver!Dropped
        <3> DEFINE x == Driver!User(w)
        <3>1. x \in Line /\ x.by = "user" /\ x.word = w
            BY <1>2 DEF Driver!User, Line
        <3>2. params' = params \o <<x>>
            BY <1>1, <1>3, <2>3, <3>1, AppendJoined
        <3> HIDE DEF x
        <3>3. <<x>> \in Seq(Line) /\ Said(<<x>>, "user") = {w} /\ Said(<<x>>, "wrapper") = {} /\ NoB(<<x>>)
            BY <3>1, <2>3, OneSaid
        <3> DEFINE y == <<x>>
        <3> HIDE DEF y
        <3>10. /\ params \o y \in Seq(Line)
               /\ \A by : Said(params \o y, by) = Said(params, by) \cup Said(y, by)
               /\ NoB(params) => NoB(params \o y)
            BY <3>3, <1>3, SaidBoth DEF y
        <3>11. params' = params \o y /\ Said(y, "user") = {w} /\ Said(y, "wrapper") = {}
            BY <3>2, <3>3 DEF y
        <3>4. /\ params' \in Seq(Line) /\ Said(params', "user") = Said(params, "user") \cup {w}
              /\ Said(params', "wrapper") = Said(params, "wrapper")
              /\ NoB(params) => NoB(params')
            BY <3>10, <3>11
        <3>12. flags' = [asan |-> flags.asan \/ w \in SanitizerWords,
                         fortify |-> flags.fortify \/ w = "FORTIFY_SOURCE"]
            BY <1>1, <2>3
        <3>13. flags' \in [asan : BOOLEAN, fortify : BOOLEAN]
            BY <3>12
        <3>5. /\ flags'.asan <=> (flags.asan \/ w \in SanitizerWords)
              /\ flags'.fortify <=> (flags.fortify \/ w = "FORTIFY_SOURCE")
            BY <3>12
        <3>6. w \notin ForeignWords
            BY <2>3 DEF Driver!Dropped, ForeignWords
        <3>7. NoB(params') /\ Said(params', "wrapper") = {} /\ Said(params', "user") \cap ForeignWords = {}
            BY <1>3, <3>4, <3>6 DEF Edited
        <3>8. flags'.asan <=> Said(params', "user") \cap SanitizerWords # {}
            BY <1>3, <3>4, <3>5 DEF Edited
        <3>9. flags'.fortify <=> "FORTIFY_SOURCE" \in Said(params', "user")
            BY <1>3, <3>4, <3>5 DEF Edited
        <3> QED
            BY <3>4, <3>13, <3>7, <3>8, <3>9 DEF Edited
    <2> QED
        BY <2>1, <2>2, <2>3
<1>6. ~Driver!Running'
    BY <1>1 DEF Driver!Running
<1> QED
    BY <1>1, <1>4, <1>5, <1>6 DEF LineInv

LEMMA AddKeepsLine == LineInv /\ Driver!AddWords => LineInv'
<1> SUFFICES ASSUME LineInv, Driver!AddWords  PROVE LineInv'
    OBVIOUS
<1>1. where = "words" /\ UNCHANGED <<job, next, flags, dir>>
    BY DEF Driver!AddWords
<1>2. /\ job.tool # "rustc" /\ dir \in {"path", "argv0", "default"} /\ params \in Seq(Line)
      /\ Edited(params, flags) /\ flags \in [asan : BOOLEAN, fortify : BOOLEAN]
    BY <1>1 DEF LineInv
<1>3. CASE Driver!Conflict
    <2>1. where' = "done" /\ params' = params /\ "conflict" \in failures'
        BY <1>3 DEF Driver!AddWords, Driver!Fatal
    <2>2. ~Driver!Running'
        BY <2>1 DEF Driver!Running
    <2> QED
        BY <1>1, <2>1, <2>2 DEF LineInv
<1>4. CASE ~Driver!Conflict
    <2> DEFINE a == Driver!Assembler
               h == Driver!Hardening
               s == Driver!Sanitizer
               r == Driver!Rest
               A == {"-B", dir} \cup (IF job.tool = "clang" THEN {"-no-integrated-as"} ELSE {})
    <2>1. params' = ((((params \o a) \o h) \o s) \o r) /\ where' = "exec"
        BY <1>4 DEF Driver!AddWords
    <2>2. OurPart(a, A) /\ OneB(a)
        BY <1>2, AssemblerWords
    <2>3. OurPart(h, HardeningWords) /\ NoB(h)
        BY HardeningSaid
    <2>4. OurPart(s, AddedSanitizer) /\ NoB(s)
        BY SanitizerSaid
    <2>5. PICK R : R \subseteq {"-fno-builtin", "-Wl"} /\ OurPart(r, R) /\ NoB(r)
        BY RestSaid
    <2> HIDE DEF a, h, s, r, A
    <2> DEFINE U == Said(params, "user")
    <2>6. NoB(params) /\ Said(params, "wrapper") = {} /\ U \cap ForeignWords = {}
        BY <1>2 DEF Edited
    <2> HIDE DEF U
    <2>16. U = Said(params, "user")
        BY DEF U
    <2> DEFINE p == params \o a
               q == p \o h
               z == q \o s
               t == z \o r
    <2>7. p \in Seq(Line) /\ Said(p, "user") = U /\ Said(p, "wrapper") = A /\ OneB(p)
        <3>1. /\ p \in Seq(Line) /\ Said(p, "user") = Said(params, "user")
              /\ Said(p, "wrapper") = Said(params, "wrapper") \cup A /\ OneB(p)
            BY <1>2, <2>2, <2>6, OursAdded
        <3> QED
            BY <3>1, <2>6, <2>16
    <2> HIDE DEF p
    <2>8. /\ q \in Seq(Line) /\ Said(q, "user") = U /\ OneB(q)
          /\ Said(q, "wrapper") = A \cup HardeningWords
        BY <2>3, <2>7, OursAdded
    <2> HIDE DEF q
    <2>9. /\ z \in Seq(Line) /\ Said(z, "user") = U /\ OneB(z)
          /\ Said(z, "wrapper") = A \cup HardeningWords \cup AddedSanitizer
        BY <2>4, <2>8, OursAdded
    <2> HIDE DEF z
    <2>10. /\ t \in Seq(Line) /\ Said(t, "user") = U /\ OneB(t)
           /\ Said(t, "wrapper") = A \cup HardeningWords \cup AddedSanitizer \cup R
        BY <2>5, <2>9, OursAdded
    <2> DEFINE W == A \cup HardeningWords \cup AddedSanitizer \cup R
    <2>11. /\ params' \in Seq(Line) /\ Said(params', "user") = U /\ OneB(params')
           /\ Said(params', "wrapper") = W
        BY <2>1, <2>10 DEF p, q, z
    <2>12. job.tool = "clang" => "-no-integrated-as" \in W
        BY DEF A
    <2>13. OneDirectory(params', job'.tool)
        BY <1>1, <2>6, <2>11, <2>12 DEF OneDirectory
    <2>14. Consistent(U, W)
        <3>1. A \subseteq {"-B", "-no-integrated-as", "path", "argv0", "default"}
            BY <1>2 DEF A
        <3>2. U \subseteq Driver!Words
            BY <1>2, <2>16 DEF Said, Line
        <3>3. flags.asan <=> U \cap SanitizerWords # {}
            BY <1>2, <2>16 DEF Edited
        <3>4. flags.fortify <=> "FORTIFY_SOURCE" \in U
            BY <1>2, <2>16 DEF Edited
        <3>5. /\ \A x \in A : x \notin SanitizerWords
              /\ "-fstack-protector-all" \notin A /\ "-D_FORTIFY_SOURCE=2" \notin A
              /\ "-U_FORTIFY_SOURCE" \notin A /\ "FORTIFY_SOURCE" \notin A
            BY <3>1 DEF SanitizerWords
        <3>6. /\ \A x \in R : x \notin SanitizerWords
              /\ "-fstack-protector-all" \notin R /\ "-D_FORTIFY_SOURCE=2" \notin R
              /\ "-U_FORTIFY_SOURCE" \notin R /\ "FORTIFY_SOURCE" \notin R
            BY <2>5 DEF SanitizerWords
        <3>7. /\ "-fstack-protector-all" \notin U /\ "-D_FORTIFY_SOURCE=2" \notin U
              /\ "-U_FORTIFY_SOURCE" \notin U
            BY <3>2 DEF Driver!Words
        <3>8. AddedSanitizer # {} => ~flags.asan /\ "AFL_HARDEN" \notin job.env
            BY <1>4 DEF AddedSanitizer, Driver!Conflict, Driver!Set
        <3>9. SanitizerWords \cap W # {} => AddedSanitizer # {}
            <4>1. SanitizerWords \cap HardeningWords = {}
                BY DEF SanitizerWords, HardeningWords
            <4> QED
                BY <4>1, <3>5, <3>6
        <3>10. "AFL_HARDEN" \notin job.env => HardeningWords = {}
            BY DEF HardeningWords
        <3>11. /\ SanitizerWords \cap W # {} =>
                     SanitizerWords \cap U = {} /\ "-fstack-protector-all" \notin U \cup W
            <4>1. "-fstack-protector-all" \notin AddedSanitizer
                BY DEF AddedSanitizer
            <4> QED
                BY <4>1, <3>3, <3>5, <3>6, <3>7, <3>8, <3>9, <3>10
        <3>12. ~(SanitizerWords \subseteq W)
            <4>1. SanitizerWords \cap HardeningWords = {}
                BY DEF SanitizerWords, HardeningWords
            <4>2. ~(SanitizerWords \subseteq AddedSanitizer)
                BY DEF SanitizerWords, AddedSanitizer
            <4> QED
                BY <4>1, <4>2, <3>5, <3>6
        <3>13. "-D_FORTIFY_SOURCE=2" \in U \cup W =>
                    {"-U_FORTIFY_SOURCE", "FORTIFY_SOURCE"} \cap (U \cup W) = {}
            <4> SUFFICES ASSUME "-D_FORTIFY_SOURCE=2" \in U \cup W
                         PROVE  "-U_FORTIFY_SOURCE" \notin U \cup W /\ "FORTIFY_SOURCE" \notin U \cup W
                OBVIOUS
            <4>1. "-D_FORTIFY_SOURCE=2" \notin AddedSanitizer /\ "FORTIFY_SOURCE" \notin AddedSanitizer
                BY DEF AddedSanitizer
            <4>2. "-D_FORTIFY_SOURCE=2" \in HardeningWords
                BY <4>1, <3>5, <3>6, <3>7
            <4>3. /\ "AFL_HARDEN" \in job.env /\ ~flags.fortify
                  /\ HardeningWords = {"-fstack-protector-all", "-D_FORTIFY_SOURCE=2"}
                BY <4>2 DEF HardeningWords
            <4>4. AddedSanitizer = {}
                BY <4>3, <3>8
            <4> QED
                BY <4>1, <4>3, <4>4, <3>4, <3>5, <3>6, <3>7
        <3> HIDE DEF U, W
        <3> QED
            BY <3>11, <3>12, <3>13 DEF Consistent
    <2> HIDE DEF U, W
    <2>15. Consistent(Said(params', "user"), Said(params', "wrapper"))
        BY <2>11, <2>14
    <2> QED
        BY <1>1, <2>1, <2>11, <2>13, <2>15 DEF LineInv
<1> QED
    BY <1>3, <1>4

LEMMA ExecKeepsLine == LineInv /\ Driver!Exec => LineInv'
<1> SUFFICES ASSUME LineInv, Driver!Exec  PROVE LineInv'
    OBVIOUS
<1>1. /\ where = "exec" /\ where' \in {"compile", "done"} /\ UNCHANGED <<job, next, params, flags, dir>>
    BY DEF Driver!Exec, Driver!Fatal
<1> QED
    BY <1>1 DEF LineInv

\* What a state of the command line says of the program.
LEMMA LineIsInOrder ==
    ASSUME LineInv
    PROVE  /\ Driver!OneAssembler /\ Driver!NotCombined
           /\ Driver!WordsOf("user") \subseteq Driver!Words
           /\ Driver!WordsOf("wrapper") \subseteq Driver!Added \cup {"-C", "path", "argv0", "default"}
<1>1. /\ Driver!WordsOf("user") = Said(params, "user")
      /\ Driver!WordsOf("wrapper") = Said(params, "wrapper")
    BY DEF Driver!WordsOf, Said
<1>2. params \in Seq(Line)
    BY DEF LineInv
<1>3. Said(params, "user") \subseteq Driver!Words /\ Said(params, "wrapper") \subseteq OurWords
    BY <1>2 DEF Said, Line
<1>4. Driver!OneAssembler
    <2> SUFFICES ASSUME Driver!Running, job.tool # "rustc"
                 PROVE  /\ Driver!WordsOf("user") \cap {"-B", "-Bdir", "-integrated-as", "-pipe"} = {}
                        /\ Driver!Cardinality({n \in DOMAIN params : params[n].word = "-B"}) = 1
                        /\ job.tool = "clang" => "-no-integrated-as" \in Driver!AllWords
        BY DEF Driver!OneAssembler
    <2>1. OneDirectory(params, job.tool)
        BY DEF LineInv
    <2>2. PICK n \in DOMAIN params : \A m \in DOMAIN params : params[m].word = "-B" <=> m = n
        BY <2>1 DEF OneDirectory, OneB
    <2>3. {m \in DOMAIN params : params[m].word = "-B"} = {n}
        BY <2>2
    <2>4. Driver!Cardinality({n}) = Cardinality({n}) /\ Cardinality({n}) = 1
        BY FS_Singleton DEF Driver!Cardinality, Cardinality
    <2> QED
        BY <1>1, <2>1, <2>3, <2>4 DEF OneDirectory, ForeignWords, Driver!AllWords
<1>5. Driver!NotCombined
    <2> SUFFICES ASSUME Driver!Running, Consistent(Said(params, "user"), Said(params, "wrapper"))
                 PROVE  Driver!NotCombined
        BY DEF LineInv, Driver!NotCombined
    <2> QED
        BY <1>1 DEF Consistent, SanitizerWords, Driver!NotCombined, Driver!AllWords
<1> QED
    BY <1>1, <1>3, <1>4, <1>5 DEF OurWords

-----------------------------------------------------------------------------
(* The files of a build.                                                     *)

Due(f) == IF f.temp \/ f.procs = "equal" THEN 1 ELSE 0
Built(o, f) == \E x \in o : x.file = f
Copy(f) == [depth |-> 1, file |-> f, kept |-> "AFL_KEEP_ASSEMBLY" \in job.env]

ProcType == [pc : {"start", "check", "write", "fork", "wait", "ended_0", "ended_1", "killed"},
             file : Driver!File, times : {0, 1}, pass_thru : BOOLEAN]
\* It has written its copy, or has none to write.
Past(a) == a.pc \in {"fork", "wait", "ended_0", "ended_1", "killed"}

\* The process that the compiler has started, and what its place says.
First(a) ==
    /\ a.pc # "start" => a.file.name \in {"file", "--version"}
    /\ a.pc = "write" => a.file.name = "file"
    /\ ~Past(a) => a.times = 0
    /\ a.file.name = "file" /\ a.pc \in {"check", "write"} =>
          (a.pass_thru <=> ~a.file.temp /\ a.file.procs # "equal")
    /\ a.file.name = "file" /\ Past(a) => a.times = Due(a.file)
    /\ a.pc = "ended_0" /\ a.file.name = "file" => Built(objects, a.file)
    /\ a.pc = "killed" => "killed" \in failures

\* Its child, when AFL_AS names the wrapper, has not got far.
Second(a, c) ==
    a.pc = "wait" /\ c.pc \in {"start", "check"} /\ c.file.name \in {"file", "--version"}

\* A copy is to be kept, has been left by a process that ended in FATAL, or is in use.
CopyInv(t) ==
    \/ t.kept \/ failures \cap {"unequal", "fork"} # {}
    \/ Len(procs) >= 1 /\ Past(procs[1]) /\ t = Copy(procs[1].file)

ObjectInv(o) == o.file \in Driver!File /\ (Driver!RunsWrapper => o.times = Due(o.file))

\* A file is yet to be assembled, in work or done, or the build is known to have failed,
\* or a signal has hidden that.
Accounted(f) ==
    \/ f.name # "file" \/ Built(objects, f) \/ "killed" \in failures \/ code = 1
    \/ \E n \in DOMAIN todo : todo[n] = f
    \/ Len(procs) >= 1 /\ procs[1].file = f

WorkInv ==
    /\ todo \in Seq(Driver!File) /\ procs \in Seq(ProcType) /\ Len(procs) <= 2
    /\ code \in {0, 1} /\ (where # "done" => code = 0)
    /\ where # "compile" => Len(procs) = 0
    /\ where \in {"find", "words", "exec"} => todo = job.files /\ temps = {} /\ objects = {}
    /\ where = "done" /\ code = 0 => Len(todo) = 0
    /\ Len(procs) >= 1 => First(procs[1])
    /\ Len(procs) = 2 => Second(procs[1], procs[2])
    /\ \A o \in objects : ObjectInv(o)
    /\ \A t \in temps : CopyInv(t)
    /\ \A n \in DOMAIN job.files : Accounted(job.files[n])

\* While the command line is put together there is nothing to lose.
LEMMA WorkStays ==
    ASSUME LineInv, WorkInv, where \in {"find", "words", "exec"},
           UNCHANGED <<job, todo, procs, temps, objects>>, failures \subseteq failures',
           \/ where' \in {"words", "exec", "compile"} /\ code' = code
           \/ where' = "done" /\ code' = 1
    PROVE  WorkInv'
<1>1. temps = {} /\ objects = {} /\ Len(procs) = 0 /\ code = 0 /\ todo = job.files
    BY DEF WorkInv
<1>2. \A n \in DOMAIN job'.files : Accounted(job.files[n])'
    <2> SUFFICES ASSUME NEW n \in DOMAIN job.files  PROVE Accounted(job.files[n])'
        OBVIOUS
    <2>1. todo'[n] = job.files[n]
        BY <1>1
    <2> QED
        BY <1>1, <2>1 DEF Accounted
<1> QED
    BY <1>1, <1>2 DEF WorkInv

\* What a step of a process has to show while one goes on.
LEMMA WorkGoesOn ==
    ASSUME WorkInv, where = "compile", where' = "compile", Len(procs) >= 1, Len(procs') >= 1, Len(procs') <= 2,
           procs' \in Seq(ProcType), procs'[1].file = procs[1].file,
           UNCHANGED <<job, todo, code>>,
           objects \subseteq objects', failures \subseteq failures',
           First(procs[1])', (Len(procs) = 2 => Second(procs[1], procs[2]))',
           (\A o \in objects : ObjectInv(o))', (\A t \in temps : CopyInv(t))'
    PROVE  WorkInv'
<1>1. (\A n \in DOMAIN job.files : Accounted(job.files[n]))'
    <2> SUFFICES ASSUME NEW n \in DOMAIN job.files, Accounted(job.files[n])
                 PROVE  Accounted(job.files[n])'
        BY DEF WorkInv
    <2> QED
        BY DEF Accounted, Built
<1>2. todo \in Seq(Driver!File) /\ code \in {0, 1} /\ code = 0
    BY DEF WorkInv
<1> QED
    BY <1>1, <1>2 DEF WorkInv

\* What the end of the process that the compiler waits for has to show.
LEMMA WorkEnds ==
    ASSUME WorkInv, where = "compile", Len(procs) = 1, procs' = <<>>,
           UNCHANGED <<job, params, dir, todo, objects>>, failures \subseteq failures',
           \A t \in temps' : t.kept \/ failures' \cap {"unequal", "fork"} # {},
           \/ where' = "done" /\ code' = 1
           \/ /\ where' = "compile" /\ code' = code
              /\ \/ procs[1].file.name # "file"
                 \/ Built(objects, procs[1].file) \/ "killed" \in failures
    PROVE  WorkInv'
<1>1. (\A n \in DOMAIN job.files : Accounted(job.files[n]))'
    <2> SUFFICES ASSUME NEW n \in DOMAIN job.files, Accounted(job.files[n])
                 PROVE  Accounted(job.files[n])'
        BY DEF WorkInv
    <2> QED
        BY DEF Accounted, Built
<1>2. (\A o \in objects : ObjectInv(o))'
    <2>1. \A o \in objects : ObjectInv(o)
        BY DEF WorkInv
    <2> QED
        BY <2>1 DEF ObjectInv, Driver!RunsWrapper
<1>3. (\A t \in temps : CopyInv(t))'
    BY DEF CopyInv
<1>4. procs' \in Seq(ProcType) /\ Len(procs') = 0
    OBVIOUS
<1> QED
    BY <1>1, <1>2, <1>3, <1>4 DEF WorkInv

LEMMA WorkBegins == Driver!Init => WorkInv
<1> SUFFICES ASSUME Driver!Init  PROVE WorkInv
    OBVIOUS
<1>1. /\ job \in Commands /\ where = "find" /\ procs = <<>> /\ temps = {} /\ objects = {}
      /\ code = 0 /\ todo = job.files
    BY DEF Driver!Init
<1>2. todo \in Seq(Driver!File) /\ procs \in Seq(ProcType) /\ Len(procs) = 0
    BY <1>1, JobWords
<1>3. \A n \in DOMAIN job.files : Accounted(job.files[n])
    BY <1>1 DEF Accounted
<1> QED
    BY <1>1, <1>2, <1>3 DEF WorkInv

LEMMA LineBegins == Driver!Init => LineInv
<1> SUFFICES ASSUME Driver!Init  PROVE LineInv
    OBVIOUS
<1>1. /\ job \in Commands /\ where = "find" /\ next = 1 /\ params = <<>> /\ dir = "none"
      /\ flags = [asan |-> FALSE, fortify |-> FALSE]
    BY DEF Driver!Init
<1>2. params \in Seq(Line) /\ Len(job.words) \in Nat
    BY <1>1, JobWords
<1>3. next \in 1 .. Len(job.words) + 1
    BY <1>1, <1>2
<1>4. ~Driver!Running
    BY <1>1 DEF Driver!Running
<1> QED
    BY <1>1, <1>2, <1>3, <1>4 DEF LineInv

LEMMA LineStepsKeepWork ==
    ASSUME LineInv, WorkInv,
           Driver!FindAs \/ Driver!Rustc \/ Driver!EditWord \/ Driver!AddWords \/ Driver!Exec
    PROVE  WorkInv'
<1>1. CASE Driver!FindAs
    BY <1>1, WorkStays DEF Driver!FindAs, Driver!Fatal, Driver!asVars
<1>2. CASE Driver!Rustc
    BY <1>2, WorkStays DEF Driver!Rustc, Driver!asVars
<1>3. CASE Driver!EditWord
    <2>1. where = "words" /\ UNCHANGED <<job, where, todo, procs, temps, objects, code, failures>>
        BY <1>3 DEF Driver!EditWord, Driver!asVars
    <2> QED
        BY <2>1, WorkStays
<1>4. CASE Driver!AddWords
    <2>1. /\ where = "words" /\ UNCHANGED <<job, todo, procs, temps, objects>>
          /\ failures \subseteq failures'
          /\ \/ where' = "exec" /\ code' = code
             \/ where' = "done" /\ code' = 1
        BY <1>4 DEF Driver!AddWords, Driver!Fatal, Driver!asVars
    <2> QED
        BY <2>1, WorkStays
<1>5. CASE Driver!Exec
    BY <1>5, WorkStays DEF Driver!Exec, Driver!Fatal, Driver!asVars
<1> QED
    BY <1>1, <1>2, <1>3, <1>4, <1>5

-----------------------------------------------------------------------------
(* The compiler, and the processes of afl-as.c.                              *)

LEMMA WrapperStays ==
    UNCHANGED <<job, params, dir>> => Driver!RunsWrapper' = Driver!RunsWrapper
BY DEF Driver!RunsWrapper

LEMMA HeadTail ==
    ASSUME NEW S, NEW s \in Seq(S), s # <<>>
    PROVE  /\ Tail(s) \in Seq(S) /\ Head(s) \in S /\ Head(s) = s[1]
           /\ \A n \in DOMAIN s : n = 1 \/ (n - 1 \in DOMAIN Tail(s) /\ Tail(s)[n - 1] = s[n])
OBVIOUS

LEMMA CompileKeepsWork == WorkInv /\ Driver!Compile => WorkInv'
<1> SUFFICES ASSUME WorkInv, Driver!Compile  PROVE WorkInv'
    OBVIOUS
<1> DEFINE f == Head(todo)
<1>1. /\ where = "compile" /\ procs = <<>> /\ todo # <<>> /\ todo' = Tail(todo) /\ code = 0
      /\ UNCHANGED <<job, where, params, dir, temps, code, failures>>
    BY DEF Driver!Compile, WorkInv
<1>2. /\ todo' \in Seq(Driver!File) /\ f \in Driver!File
      /\ \A n \in DOMAIN todo : todo[n] = f \/ \E m \in DOMAIN todo' : todo'[m] = todo[n]
    <2>1. todo \in Seq(Driver!File)
        BY DEF WorkInv
    <2> QED
        BY <1>1, <2>1, HeadTail
<1>3. \A t \in temps' : t.kept \/ failures' \cap {"unequal", "fork"} # {}
    <2>1. \A t \in temps : CopyInv(t)
        BY DEF WorkInv
    <2> QED
        BY <1>1, <2>1 DEF CopyInv
<1>4. CASE Driver!RunsWrapper
    <2> DEFINE a == Driver!Process(f, 0)
    <2>1. procs' = <<a>> /\ objects' = objects
        BY <1>4 DEF Driver!Compile
    <2>2. a \in ProcType /\ a.file = f /\ a.pc = "start" /\ a.times = 0
        BY <1>2 DEF Driver!Process, ProcType
    <2> HIDE DEF a
    <2>3. procs' \in Seq(ProcType) /\ Len(procs') = 1 /\ procs'[1] = a
        BY <2>1, <2>2
    <2>4. First(procs[1])'
        BY <2>2, <2>3 DEF First, Past
    <2>5. (\A o \in objects : ObjectInv(o))'
        BY <1>1, <2>1 DEF WorkInv, ObjectInv, Driver!RunsWrapper
    <2>6. (\A t \in temps : CopyInv(t))'
        BY <1>3 DEF CopyInv
    <2>7. (\A n \in DOMAIN job.files : Accounted(job.files[n]))'
        <3> SUFFICES ASSUME NEW n \in DOMAIN job.files, Accounted(job.files[n])
                     PROVE  Accounted(job.files[n])'
            BY <1>1 DEF WorkInv
        <3> QED
            BY <1>1, <1>2, <2>1, <2>2, <2>3 DEF Accounted
    <2> QED
        BY <1>1, <1>2, <2>3, <2>4, <2>5, <2>6, <2>7 DEF WorkInv
<1>5. CASE ~Driver!RunsWrapper
    <2>1. procs' = procs /\ objects' = objects \cup {[file |-> f, times |-> 0]}
        BY <1>5 DEF Driver!Compile
    <2>2. Len(procs) = 0 /\ procs' \in Seq(ProcType)
        BY <1>1, <2>1
    <2>3. (\A o \in objects : ObjectInv(o))'
        <3>1. ~Driver!RunsWrapper'
            BY <1>1, <1>5, WrapperStays
        <3>2. \A o \in objects : o.file \in Driver!File
            BY DEF WorkInv, ObjectInv
        <3> HIDE DEF f
        <3> QED
            BY <1>2, <2>1, <3>1, <3>2 DEF ObjectInv
    <2>4. (\A t \in temps : CopyInv(t))'
        BY <1>3 DEF CopyInv
    <2>5. (\A n \in DOMAIN job.files : Accounted(job.files[n]))'
        <3> SUFFICES ASSUME NEW n \in DOMAIN job.files, Accounted(job.files[n])
                     PROVE  Accounted(job.files[n])'
            BY <1>1 DEF WorkInv
        <3> HIDE DEF f
        <3>1. \A g : Built(objects, g) => Built(objects', g)
            BY <2>1 DEF Built
        <3>2. Built(objects', f)
            <4>1. [file |-> f, times |-> 0] \in objects' /\ [file |-> f, times |-> 0].file = f
                BY <2>1
            <4> QED
                BY <4>1 DEF Built
        <3> QED
            BY <1>1, <1>2, <2>1, <2>2, <3>1, <3>2 DEF Accounted
    <2> QED
        BY <1>1, <1>2, <2>1, <2>2, <2>3, <2>4, <2>5 DEF WorkInv
<1> QED
    BY <1>4, <1>5

LEMMA FinishKeepsWork == WorkInv /\ Driver!Finish => WorkInv'
<1> SUFFICES ASSUME WorkInv, Driver!Finish  PROVE WorkInv'
    OBVIOUS
<1>1. /\ where = "compile" /\ procs = <<>> /\ todo = <<>> /\ where' = "done" /\ code' = 0
      /\ UNCHANGED <<job, params, dir, todo, procs, temps, objects, failures>>
    BY DEF Driver!Finish, Driver!asVars
<1>2. code = 0 /\ Len(todo) = 0 /\ Len(procs) = 0
    BY <1>1 DEF WorkInv
<1>3. (\A o \in objects : ObjectInv(o))' /\ (\A t \in temps : CopyInv(t))'
    BY <1>1 DEF WorkInv, ObjectInv, CopyInv, Driver!RunsWrapper, Copy
<1>4. (\A n \in DOMAIN job.files : Accounted(job.files[n]))'
    <2> SUFFICES ASSUME NEW n \in DOMAIN job.files, Accounted(job.files[n])
                 PROVE  Accounted(job.files[n])'
        BY <1>1 DEF WorkInv
    <2> QED
        BY <1>1, <1>2 DEF Accounted
<1> QED
    BY <1>1, <1>2, <1>3, <1>4 DEF WorkInv

\* The process that runs.
LEMMA AtPlace ==
    ASSUME WorkInv, NEW w, Driver!At(w)
    PROVE  /\ where = "compile" /\ code = 0 /\ Len(procs) \in {1, 2} /\ Driver!Depth = Len(procs)
           /\ Driver!Top = procs[Len(procs)] /\ Driver!Top.pc = w /\ Driver!Top \in ProcType
           /\ procs[1] \in ProcType /\ First(procs[1])
           /\ Len(procs) = 1 \/ (w \in {"start", "check"} /\ Second(procs[1], procs[2]))
<1>1. where = "compile" /\ procs # <<>> /\ Driver!Top.pc = w
    BY DEF Driver!At
<1>2. procs \in Seq(ProcType) /\ Len(procs) <= 2 /\ code = 0
    BY <1>1 DEF WorkInv
<1>3. Len(procs) \in {1, 2}
    <2>1. Len(procs) \in Nat /\ Len(procs) # 0 /\ Len(procs) <= 2
        BY <1>1, <1>2
    <2>2. \A n \in Nat : n # 0 /\ n <= 2 => n \in {1, 2}
        OBVIOUS
    <2> QED
        BY <2>1, <2>2
<1>4. Driver!Depth = Len(procs) /\ Driver!Top = procs[Len(procs)]
    BY DEF Driver!Depth, Driver!Top
<1>5. procs[Len(procs)] \in ProcType /\ procs[1] \in ProcType
    BY <1>2, <1>3
<1>6. First(procs[1]) /\ (Len(procs) = 2 => Second(procs[1], procs[2]))
    BY <1>3 DEF WorkInv
<1> QED
    BY <1>1, <1>2, <1>3, <1>4, <1>5, <1>6 DEF Second

LEMMA Becomes ==
    ASSUME procs \in Seq(ProcType), Len(procs) \in {1, 2}, NEW b \in ProcType, Driver!Become(b)
    PROVE  /\ procs' \in Seq(ProcType) /\ Len(procs') = Len(procs) /\ procs'[Len(procs)] = b
           /\ Len(procs) = 2 => procs'[1] = procs[1]
<1>1. procs' = [procs EXCEPT ![Len(procs)] = b]
    BY DEF Driver!Become, Driver!Depth
<1> QED
    BY <1>1

LEMMA ExitsAlone ==
    ASSUME Len(procs) = 1, NEW n \in {0, 1}, NEW w, Driver!Exit(n, w)
    PROVE  /\ procs' = <<>> /\ failures' = failures \cup w
           /\ IF n = 0 THEN UNCHANGED <<where, code>> ELSE where' = "done" /\ code' = 1
BY DEF Driver!Exit, Driver!Depth

LEMMA OnlyReplaced ==
    ASSUME NEW S, NEW s \in Seq(S), Len(s) = 1, NEW b \in S
    PROVE  /\ [s EXCEPT ![1] = b] \in Seq(S) /\ Len([s EXCEPT ![1] = b]) = 1
           /\ [s EXCEPT ![1] = b][1] = b
OBVIOUS

LEMMA ExitsToParent ==
    ASSUME procs \in Seq(ProcType), Len(procs) = 2, NEW w, Driver!Exit(1, w)
    PROVE  /\ procs' \in Seq(ProcType) /\ Len(procs') = 1
           /\ procs'[1] = [procs[1] EXCEPT !.pc = "ended_1"]
           /\ failures' = failures \cup w /\ UNCHANGED <<where, code>>
<1> DEFINE s == SubSeq(procs, 1, 2 - 1)
<1>1. /\ procs' = [s EXCEPT ![2 - 1].pc = IF 1 = 0 THEN "ended_0" ELSE "ended_1"]
      /\ failures' = failures \cup w /\ UNCHANGED <<where, code>>
    BY DEF Driver!Exit, Driver!Depth
<1>2. s \in Seq(ProcType) /\ Len(s) = 1 /\ s[1] = procs[1] /\ procs[1] \in ProcType
    OBVIOUS
<1> HIDE DEF s
<1>3. [procs[1] EXCEPT !.pc = "ended_1"] \in ProcType
    BY <1>2 DEF ProcType
<1>4. procs' = [s EXCEPT ![1].pc = "ended_1"]
    BY <1>1
<1>5. procs' = [s EXCEPT ![1] = [s[1] EXCEPT !.pc = "ended_1"]]
    BY <1>4
<1> DEFINE b == [procs[1] EXCEPT !.pc = "ended_1"]
<1> HIDE DEF b
<1>6. procs' = [s EXCEPT ![1] = b]
    BY <1>2, <1>5 DEF b
<1>7. b \in ProcType
    BY <1>3 DEF b
<1>8. procs' \in Seq(ProcType) /\ Len(procs') = 1 /\ procs'[1] = b
    BY <1>2, <1>6, <1>7, OnlyReplaced
<1> QED
    BY <1>1, <1>8 DEF b

\* What every copy satisfies when nothing of this process is one.
LEMMA NoCopyYet ==
    ASSUME WorkInv, Len(procs) >= 1, ~Past(procs[1])
    PROVE  \A t \in temps : t.kept \/ failures \cap {"unequal", "fork"} # {}
BY DEF WorkInv, CopyInv

\* What stays true of copies and objects while a process goes on.
LEMMA CopiesStay ==
    ASSUME WorkInv, Len(procs) >= 1, Len(procs') >= 1, procs'[1].file = procs[1].file,
           Past(procs[1]) => Past(procs'[1]), UNCHANGED <<job, temps>>, failures \subseteq failures'
    PROVE  (\A t \in temps : CopyInv(t))'
<1>1. \A t \in temps : CopyInv(t)
    BY DEF WorkInv
<1> QED
    BY <1>1 DEF CopyInv, Copy

LEMMA ObjectsStay ==
    ASSUME WorkInv, UNCHANGED <<job, params, dir, objects>>
    PROVE  (\A o \in objects : ObjectInv(o))'
<1>1. \A o \in objects : ObjectInv(o)
    BY DEF WorkInv
<1> QED
    BY <1>1, WrapperStays DEF ObjectInv

\* FATAL of the only process, before it has a copy.
LEMMA FatalEarly ==
    ASSUME WorkInv, where = "compile", Len(procs) = 1, ~Past(procs[1]), NEW w, Driver!Exit(1, w),
           UNCHANGED <<job, params, dir, todo, objects, temps>>
    PROVE  WorkInv'
<1>1. /\ procs' = <<>> /\ failures' = failures \cup w /\ where' = "done" /\ code' = 1
    BY ExitsAlone
<1>2. \A t \in temps' : t.kept \/ failures' \cap {"unequal", "fork"} # {}
    BY <1>1, NoCopyYet
<1>3. failures \subseteq failures'
    BY <1>1
<1> QED
    BY <1>1, <1>2, <1>3, WorkEnds

\* The child ends, always with status 1.
LEMMA ChildEnds ==
    ASSUME WorkInv, where = "compile", Len(procs) = 2, NEW w, Driver!Exit(1, w),
           UNCHANGED <<job, params, dir, todo, objects, temps>>
    PROVE  WorkInv'
<1> DEFINE b == [procs[1] EXCEPT !.pc = "ended_1"]
<1>1. procs \in Seq(ProcType) /\ procs[1] \in ProcType /\ First(procs[1]) /\ procs[1].pc = "wait"
    <2>1. procs \in Seq(ProcType)
        BY DEF WorkInv
    <2>2. First(procs[1])
        BY DEF WorkInv
    <2>3. Second(procs[1], procs[2])
        BY DEF WorkInv
    <2>4. procs[1] \in ProcType
        BY <2>1
    <2> QED
        BY <2>1, <2>2, <2>3, <2>4 DEF Second
<1>2. /\ procs' \in Seq(ProcType) /\ Len(procs') = 1 /\ procs'[1] = b
      /\ failures' = failures \cup w /\ UNCHANGED <<where, code>>
    BY <1>1, ExitsToParent
<1>3. /\ b.file = procs[1].file /\ b.pc = "ended_1" /\ b.times = procs[1].times
      /\ b.pass_thru = procs[1].pass_thru
    BY <1>1 DEF ProcType
<1> HIDE DEF b
<1>4. First(procs[1])'
    BY <1>1, <1>2, <1>3 DEF First, Past
<1>5. Past(procs'[1]) /\ procs'[1].file = procs[1].file /\ failures \subseteq failures'
    BY <1>2, <1>3 DEF Past
<1>6. (\A t \in temps : CopyInv(t))'
    BY <1>2, <1>5, CopiesStay
<1>7. (\A o \in objects : ObjectInv(o))'
    BY ObjectsStay
<1> QED
    BY <1>2, <1>4, <1>5, <1>6, <1>7, WorkGoesOn

\* A process takes another place and nothing else changes.
LEMMA OnlyMoves ==
    ASSUME WorkInv, where = "compile", Len(procs) \in {1, 2}, NEW b \in ProcType,
           Driver!Become(b), b.file = procs[Len(procs)].file,
           UNCHANGED <<job, where, params, dir, todo, code, failures, objects, temps>>,
           Len(procs) = 1 => First(b) /\ ~Past(procs[1]),
           Len(procs) = 2 => Second(procs[1], b)
    PROVE  WorkInv'
<1>1. procs \in Seq(ProcType)
    BY DEF WorkInv
<1>2. /\ procs' \in Seq(ProcType) /\ Len(procs') = Len(procs) /\ procs'[Len(procs)] = b
      /\ Len(procs) = 2 => procs'[1] = procs[1]
    BY <1>1, Becomes
<1>3. procs'[1].file = procs[1].file /\ (Past(procs[1]) => Past(procs'[1]))
    BY <1>2
<1>4. First(procs[1])'
    <2>1. First(procs'[1])
        BY <1>2 DEF WorkInv
    <2> QED
        BY <2>1 DEF First
<1>5. (Len(procs) = 2 => Second(procs[1], procs[2]))'
    BY <1>2 DEF Second
<1>6. (\A t \in temps : CopyInv(t))'
    BY <1>2, <1>3, CopiesStay
<1>7. (\A o \in objects : ObjectInv(o))'
    BY ObjectsStay
<1> QED
    BY <1>2, <1>3, <1>4, <1>5, <1>6, <1>7, WorkGoesOn

LEMMA ParamsKeepWork == WorkInv /\ Driver!AsParams => WorkInv'
<1> SUFFICES ASSUME WorkInv, Driver!AsParams  PROVE WorkInv'
    OBVIOUS
<1> DEFINE T == Driver!Top
           b == [T EXCEPT !.pc = "check"]
           c == [T EXCEPT !.pc = "check",
                          !.pass_thru = ~T.file.temp /\ T.file.procs # "equal"]
<1>1. Driver!At("start") /\ UNCHANGED <<job, params, dir, todo, temps, objects>>
    BY DEF Driver!AsParams, Driver!ccVars
<1>2. /\ where = "compile" /\ Len(procs) \in {1, 2} /\ T = procs[Len(procs)] /\ T.pc = "start"
      /\ T \in ProcType /\ First(procs[1])
      /\ Len(procs) = 1 \/ Second(procs[1], procs[2])
    BY <1>1, AtPlace
<1> HIDE DEF T
<1>3. T.file \in Driver!File /\ T.file.name \in {"file", "-", "--version", "-option"}
    BY <1>2 DEF ProcType, Driver!File
<1>4. Len(procs) = 1 => ~Past(procs[1]) /\ T.times = 0
    BY <1>2 DEF First, Past
<1>5. CASE T.file.name = "--version"
    <2>1. Driver!Become(b) /\ UNCHANGED <<where, code, failures>>
        BY <1>5 DEF Driver!AsParams, Driver!Goto, T
    <2>2. b \in ProcType /\ b.file = T.file /\ b.pc = "check" /\ b.times = T.times
        BY <1>2 DEF ProcType
    <2> HIDE DEF b
    <2>3. Len(procs) = 1 => First(b)
        BY <1>4, <1>5, <2>2 DEF First, Past
    <2>4. Len(procs) = 2 => Second(procs[1], b)
        BY <1>2, <1>5, <2>2 DEF Second
    <2> QED
        BY <1>1, <1>2, <1>4, <2>1, <2>2, <2>3, <2>4, OnlyMoves
<1>6. CASE T.file.name \in {"-option", "-"}
    <2>1. PICK w : Driver!Exit(1, w)
        BY <1>6 DEF Driver!AsParams, T
    <2>2. Len(procs) = 1
        BY <1>2, <1>6 DEF Second
    <2> QED
        BY <1>1, <1>2, <1>4, <2>1, <2>2, FatalEarly
<1>7. CASE T.file.name = "file"
    <2>1. Driver!Become(c) /\ UNCHANGED <<where, code, failures>>
        BY <1>7 DEF Driver!AsParams, T
    <2>2. /\ c \in ProcType /\ c.file = T.file /\ c.pc = "check" /\ c.times = T.times
          /\ c.pass_thru <=> ~T.file.temp /\ T.file.procs # "equal"
        BY <1>2 DEF ProcType
    <2> HIDE DEF c
    <2>3. Len(procs) = 1 => First(c)
        BY <1>4, <1>7, <2>2 DEF First, Past
    <2>4. Len(procs) = 2 => Second(procs[1], c)
        BY <1>2, <1>7, <2>2 DEF Second
    <2> QED
        BY <1>1, <1>2, <1>4, <2>1, <2>2, <2>3, <2>4, OnlyMoves
<1> QED
    BY <1>3, <1>5, <1>6, <1>7

LEMMA CheckKeepsWork == WorkInv /\ Driver!AsCheck => WorkInv'
<1> SUFFICES ASSUME WorkInv, Driver!AsCheck  PROVE WorkInv'
    OBVIOUS
<1> DEFINE T == Driver!Top
           b == [T EXCEPT !.pc = IF T.file.name = "--version" THEN "fork" ELSE "write"]
<1>1. Driver!At("check") /\ UNCHANGED <<job, params, dir, todo, temps, objects>>
    BY DEF Driver!AsCheck, Driver!ccVars
<1>2. /\ where = "compile" /\ Len(procs) \in {1, 2} /\ T = procs[Len(procs)] /\ T.pc = "check"
      /\ T \in ProcType /\ First(procs[1]) /\ Driver!Depth = Len(procs)
    BY <1>1, AtPlace
<1>3. Len(procs) = 1 => ~Past(procs[1])
    BY <1>2 DEF Past
<1>4. CASE Driver!Set("bad_ratio") \/ Driver!Looping
    <2>1. PICK w : Driver!Exit(1, w)
        BY <1>4 DEF Driver!AsCheck
    <2>2. CASE Len(procs) = 1
        BY <1>1, <1>2, <1>3, <2>1, <2>2, FatalEarly
    <2>3. CASE Len(procs) = 2
        BY <1>1, <1>2, <2>1, <2>3, ChildEnds
    <2> QED
        BY <1>2, <2>2, <2>3
<1>5. CASE ~Driver!Set("bad_ratio") /\ ~Driver!Looping
    <2>1. Len(procs) = 1
        BY <1>2, <1>5 DEF Driver!Looping
    <2>2. Driver!Become(b) /\ UNCHANGED <<where, code, failures>>
        BY <1>5 DEF Driver!AsCheck, Driver!Goto
    <2> HIDE DEF T
    <2>3. /\ b \in ProcType /\ b.file = T.file /\ b.times = T.times /\ b.pass_thru = T.pass_thru
          /\ b.pc = IF T.file.name = "--version" THEN "fork" ELSE "write"
        BY <1>2 DEF ProcType
    <2> HIDE DEF b
    <2>4. First(b)
        BY <1>2, <2>1, <2>3 DEF First, Past
    <2> QED
        BY <1>1, <1>2, <1>3, <2>1, <2>2, <2>3, <2>4, OnlyMoves
<1> QED
    BY <1>4, <1>5

LEMMA WriteKeepsWork == WorkInv /\ Driver!AsWrite => WorkInv'
<1> SUFFICES ASSUME WorkInv, Driver!AsWrite  PROVE WorkInv'
    OBVIOUS
<1> DEFINE T == Driver!Top
           b == [T EXCEPT !.pc = "fork", !.times = IF T.pass_thru THEN T.times ELSE T.times + 1]
<1>1. Driver!At("write") /\ UNCHANGED <<job, params, dir, todo, objects>>
    BY DEF Driver!AsWrite, Driver!ccVars
<1>2. /\ where = "compile" /\ Len(procs) = 1 /\ T = procs[1] /\ T.pc = "write"
      /\ T \in ProcType /\ First(T) /\ Driver!Depth = 1 /\ procs \in Seq(ProcType) /\ code = 0
    <2>1. procs \in Seq(ProcType)
        BY DEF WorkInv
    <2> QED
        BY <1>1, <2>1, AtPlace
<1>3. ~Past(procs[1])
    BY <1>2 DEF Past
<1>4. CASE Driver!Exit(1, {"open"}) /\ UNCHANGED temps
    BY <1>1, <1>2, <1>3, <1>4, FatalEarly
<1>5. CASE temps' = temps \cup {Driver!Temp} /\ Driver!Refused /\ Driver!Exit(1, {"unequal"})
    <2>1. procs' = <<>> /\ failures' = failures \cup {"unequal"} /\ where' = "done" /\ code' = 1
        BY <1>2, <1>5, ExitsAlone
    <2> QED
        BY <1>1, <1>2, <2>1, WorkEnds
<1>6. CASE /\ temps' = temps \cup {Driver!Temp} /\ UNCHANGED <<where, code, failures>>
           /\ Driver!Become(b)
    <2>1. T.times = 0 /\ T.file.name = "file" /\ (T.pass_thru <=> ~T.file.temp /\ T.file.procs # "equal")
        BY <1>2 DEF First, Past
    <2>2. Driver!Temp = Copy(T.file)
        BY <1>2 DEF Driver!Temp, Copy, Driver!Set
    <2> HIDE DEF T
    <2> DEFINE k == IF T.pass_thru THEN T.times ELSE T.times + 1
    <2>8. k = Due(T.file) /\ k \in {0, 1}
        BY <2>1 DEF Due
    <2> HIDE DEF k
    <2>3. b \in ProcType /\ b.file = T.file /\ b.pc = "fork" /\ b.times = Due(T.file)
        <3>1. b = [T EXCEPT !.pc = "fork", !.times = k]
            BY DEF k
        <3> HIDE DEF b
        <3> QED
            BY <1>2, <2>8, <3>1 DEF ProcType
    <2> HIDE DEF b
    <2>4. procs' \in Seq(ProcType) /\ Len(procs') = 1 /\ procs'[1] = b
        BY <1>2, <1>6, <2>3, Becomes
    <2>5. First(procs[1])'
        BY <2>1, <2>3, <2>4 DEF First, Past
    <2>6. (\A t \in temps : CopyInv(t))'
        <3> SUFFICES ASSUME NEW t \in temps'  PROVE CopyInv(t)'
            OBVIOUS
        <3>1. CASE t \in temps
            <4>1. t.kept \/ failures \cap {"unequal", "fork"} # {}
                BY <1>2, <1>3, <3>1, NoCopyYet
            <4> QED
                BY <1>6, <4>1 DEF CopyInv
        <3>2. CASE t = Copy(T.file)
            <4>1. Past(procs'[1]) /\ Len(procs') >= 1 /\ t = Copy(procs[1].file)'
                BY <1>1, <2>3, <2>4, <3>2 DEF Past, Copy
            <4> QED
                BY <4>1 DEF CopyInv
        <3> QED
            BY <1>6, <2>2, <3>1, <3>2
    <2>7. (\A o \in objects : ObjectInv(o))'
        BY <1>1, ObjectsStay
    <2> QED
        BY <1>1, <1>2, <1>6, <2>3, <2>4, <2>5, <2>6, <2>7, WorkGoesOn
<1> QED
    BY <1>4, <1>5, <1>6 DEF Driver!AsWrite

LEMMA Appended ==
    ASSUME NEW S, NEW s \in Seq(S), NEW c \in S
    PROVE  /\ Append(s, c) \in Seq(S) /\ Len(Append(s, c)) = Len(s) + 1
           /\ \A n \in 1 .. Len(s) : Append(s, c)[n] = s[n]
           /\ Append(s, c)[Len(s) + 1] = c
OBVIOUS

LEMMA AddedToOne ==
    ASSUME NEW S, NEW s \in Seq(S), Len(s) = 1, NEW c \in S
    PROVE  /\ Append(s, c) \in Seq(S) /\ Len(Append(s, c)) = 2
           /\ Append(s, c)[1] = s[1] /\ Append(s, c)[2] = c
<1> PICK t : t = Append(s, c)
    OBVIOUS
<1>1. t \in Seq(S)
    OBVIOUS
<1>2. Len(t) = Len(s) + 1
    BY Appended
<1>3. \A n \in 1 .. Len(s) : t[n] = s[n]
    BY Appended
<1>4. t[Len(s) + 1] = c
    BY Appended
<1>5. 1 \in 1 .. Len(s) /\ Len(s) + 1 = 2
    OBVIOUS
<1> QED
    BY <1>1, <1>2, <1>3, <1>4, <1>5

LEMMA ForkKeepsWork == WorkInv /\ Driver!AsFork => WorkInv'
<1> SUFFICES ASSUME WorkInv, Driver!AsFork  PROVE WorkInv'
    OBVIOUS
<1> DEFINE T == Driver!Top
<1>1. Driver!At("fork") /\ UNCHANGED <<job, params, dir, todo, temps>>
    BY DEF Driver!AsFork, Driver!ccVars
<1>2. /\ where = "compile" /\ Len(procs) = 1 /\ T = procs[1] /\ T.pc = "fork"
      /\ T \in ProcType /\ First(T) /\ Driver!Depth = 1 /\ procs \in Seq(ProcType) /\ code = 0
    <2>1. procs \in Seq(ProcType)
        BY DEF WorkInv
    <2> QED
        BY <1>1, <2>1, AtPlace
<1>3. /\ T.file \in Driver!File /\ T.file.name \in {"file", "--version"} /\ T.times \in {0, 1}
      /\ T.file.name = "file" => T.times = Due(T.file)
    BY <1>2 DEF First, Past, ProcType
<1>4. CASE Driver!Exit(1, {"fork"}) /\ UNCHANGED objects
    <2>1. procs' = <<>> /\ failures' = failures \cup {"fork"} /\ where' = "done" /\ code' = 1
        BY <1>2, <1>4, ExitsAlone
    <2> QED
        BY <1>1, <1>2, <1>4, <2>1, WorkEnds
<1>5. CASE /\ procs' = Append([procs EXCEPT ![Driver!Depth].pc = "wait"],
                              Driver!Process([T.file EXCEPT !.temp = TRUE], T.times))
           /\ UNCHANGED <<where, code, failures, objects>>
    <2> DEFINE b == [procs[1] EXCEPT !.pc = "wait"]
               g == [T.file EXCEPT !.temp = TRUE]
               c == Driver!Process(g, T.times)
               s == [procs EXCEPT ![1] = b]
    <2>1. /\ b \in ProcType /\ b.file = T.file /\ b.pc = "wait" /\ b.times = T.times
          /\ b.pass_thru = T.pass_thru
        BY <1>2 DEF ProcType
    <2>2. g \in Driver!File /\ g.name = T.file.name
        BY <1>3 DEF Driver!File
    <2> HIDE DEF g
    <2>3. c \in ProcType /\ c.pc = "start" /\ c.file = g
        BY <1>3, <2>2 DEF Driver!Process, ProcType
    <2>4. procs' = Append(s, c)
        BY <1>2, <1>5 DEF g
    <2> HIDE DEF b, c
    <2>5. s \in Seq(ProcType) /\ Len(s) = 1 /\ s[1] = b
        BY <1>2, <2>1, OnlyReplaced
    <2> HIDE DEF s
    <2>6. procs' \in Seq(ProcType) /\ Len(procs') = 2 /\ procs'[1] = b /\ procs'[2] = c
        BY <2>3, <2>4, <2>5, AddedToOne
    <2>7. First(procs[1])'
        BY <1>3, <2>1, <2>6 DEF First, Past
    <2>8. Second(procs[1], procs[2])'
        BY <1>3, <2>1, <2>2, <2>3, <2>6 DEF Second
    <2>9. Past(procs'[1]) /\ procs'[1].file = procs[1].file
        BY <1>2, <2>1, <2>6 DEF Past
    <2>10. (\A t \in temps : CopyInv(t))'
        BY <1>1, <1>2, <1>5, <2>6, <2>9, CopiesStay
    <2>11. (\A o \in objects : ObjectInv(o))'
        BY <1>1, <1>5, ObjectsStay
    <2> QED
        BY <1>1, <1>2, <1>5, <2>6, <2>7, <2>8, <2>9, <2>10, <2>11, WorkGoesOn
<1>6. CASE \E o \in Outcomes :
              /\ Driver!Goto(o) /\ UNCHANGED <<where, code>>
              /\ objects' = IF o = "ended_0" /\ T.file.name = "file"
                            THEN objects \cup {[file |-> T.file, times |-> T.times]}
                            ELSE objects
              /\ failures' = failures \cup ({o} \ {"ended_0"})
    <2>1. PICK o \in Outcomes :
              /\ Driver!Goto(o) /\ UNCHANGED <<where, code>>
              /\ objects' = IF o = "ended_0" /\ T.file.name = "file"
                            THEN objects \cup {[file |-> T.file, times |-> T.times]}
                            ELSE objects
              /\ failures' = failures \cup ({o} \ {"ended_0"})
        BY <1>6
    <2> DEFINE b == [T EXCEPT !.pc = o]
               x == [file |-> T.file, times |-> T.times]
    <2>2. o \in {"ended_0", "ended_1", "killed"}
        BY DriverConstants
    <2>3. Driver!Become(b)
        BY <2>1 DEF Driver!Goto
    <2> HIDE DEF T
    <2>4. /\ b \in ProcType /\ b.file = T.file /\ b.pc = o /\ b.times = T.times
          /\ b.pass_thru = T.pass_thru
        BY <1>2, <2>2 DEF ProcType
    <2> HIDE DEF b
    <2>5. procs' \in Seq(ProcType) /\ Len(procs') = 1 /\ procs'[1] = b
        BY <1>2, <2>3, <2>4, Becomes
    <2>6. x.file = T.file /\ x.times = T.times
        OBVIOUS
    <2> HIDE DEF x
    <2>7. o = "ended_0" /\ T.file.name = "file" => Built(objects', T.file)
        BY <2>1, <2>6 DEF Built, x
    <2>8. o = "killed" => "killed" \in failures'
        BY <2>1
    <2>9. First(procs[1])'
        BY <1>3, <2>2, <2>4, <2>5, <2>7, <2>8 DEF First, Past
    <2>10. Past(procs'[1]) /\ procs'[1].file = procs[1].file /\ failures \subseteq failures'
        BY <1>2, <2>1, <2>2, <2>4, <2>5 DEF Past
    <2>11. (\A t \in temps : CopyInv(t))'
        BY <1>1, <1>2, <2>5, <2>10, CopiesStay
    <2>12. objects \subseteq objects'
        BY <2>1
    <2>13. (\A y \in objects : ObjectInv(y))'
        <3>1. \A y \in objects : ObjectInv(y)
            BY DEF WorkInv
        <3>2. \A y \in objects' : y \in objects \/ (y = x /\ T.file.name = "file")
            BY <2>1 DEF x
        <3>3. Driver!RunsWrapper' = Driver!RunsWrapper
            BY <1>1, WrapperStays
        <3> QED
            BY <1>3, <2>6, <3>1, <3>2, <3>3 DEF ObjectInv
    <2> QED
        BY <1>1, <1>2, <2>1, <2>5, <2>9, <2>10, <2>11, <2>12, <2>13, WorkGoesOn
<1> QED
    BY <1>4, <1>5, <1>6 DEF Driver!AsFork

LEMMA WaitKeepsWork == WorkInv /\ Driver!AsWait => WorkInv'
<1> SUFFICES ASSUME WorkInv, Driver!AsWait  PROVE WorkInv'
    OBVIOUS
<1> DEFINE T == Driver!Top
<1>1. PICK how \in {"ended_0", "ended_1", "killed"} :
          Driver!At(how) /\ Driver!Exit(Driver!ExitStatus(how), {})
    BY DEF Driver!AsWait
<1>2. temps' = temps \ Driver!Unlinked(Driver!Temp) /\ UNCHANGED <<job, params, dir, todo, objects>>
    BY DEF Driver!AsWait, Driver!ccVars
<1>3. /\ where = "compile" /\ Len(procs) = 1 /\ T = procs[1] /\ T.pc = how
      /\ T \in ProcType /\ First(T) /\ Driver!Depth = 1 /\ code = 0
    BY <1>1, AtPlace
<1>4. PICK n \in {0, 1} : n = Driver!ExitStatus(how) /\ (n = 0 => how # "ended_1")
    BY DEF Driver!ExitStatus
<1>5. /\ procs' = <<>> /\ failures' = failures
      /\ IF n = 0 THEN UNCHANGED <<where, code>> ELSE where' = "done" /\ code' = 1
    <2>1. Driver!Exit(n, {})
        BY <1>1, <1>4
    <2>2. procs' = <<>> /\ failures' = failures \cup {}
          /\ IF n = 0 THEN UNCHANGED <<where, code>> ELSE where' = "done" /\ code' = 1
        BY <2>1, <1>3, ExitsAlone
    <2> QED
        BY <2>2
<1>6. how # "ended_1" => \/ procs[1].file.name # "file"
                         \/ Built(objects, procs[1].file) \/ "killed" \in failures
    BY <1>3 DEF First
<1>7. \A t \in temps' : t.kept \/ failures' \cap {"unequal", "fork"} # {}
    <2> SUFFICES ASSUME NEW t \in temps', ~t.kept  PROVE failures \cap {"unequal", "fork"} # {}
        BY <1>5
    <2>1. Driver!Temp = Copy(T.file)
        BY <1>3 DEF Driver!Temp, Copy, Driver!Set
    <2>2. t \in temps /\ t # Copy(T.file)
        <3>1. CASE "AFL_KEEP_ASSEMBLY" \in job.env
            <4>1. Copy(T.file).kept
                BY <3>1 DEF Copy
            <4> QED
                BY <1>2, <4>1
        <3>2. CASE "AFL_KEEP_ASSEMBLY" \notin job.env
            BY <1>2, <2>1, <3>2 DEF Driver!Unlinked, Driver!Set
        <3> QED
            BY <3>1, <3>2
    <2> QED
        BY <1>3, <2>2 DEF WorkInv, CopyInv
<1> QED
    BY <1>2, <1>3, <1>4, <1>5, <1>6, <1>7, WorkEnds

-----------------------------------------------------------------------------

LEMMA ProcessesKeepLine ==
    ASSUME LineInv, WorkInv,
           Driver!Compile \/ Driver!Finish \/ Driver!AsParams \/ Driver!AsCheck
              \/ Driver!AsWrite \/ Driver!AsFork \/ Driver!AsWait
    PROVE  LineInv'
<1>1. where = "compile" /\ UNCHANGED <<job, next, params, flags, dir>>
    BY DEF Driver!Compile, Driver!Finish, Driver!AsParams, Driver!AsCheck, Driver!AsWrite,
           Driver!AsFork, Driver!AsWait, Driver!ccVars, Driver!asVars, Driver!At
<1>2. \A n, w : Driver!Exit(n, w) => where' \in {where, "done"}
    BY DEF Driver!Exit
<1>3. where' \in {"compile", "done"}
    <2>1. CASE Driver!Compile \/ Driver!Finish
        BY <1>1, <2>1 DEF Driver!Compile, Driver!Finish
    <2>2. CASE Driver!AsParams
        <3>1. Driver!Top.file.name \in {"file", "-", "--version", "-option"}
            <4>1. Driver!At("start")
                BY <2>2 DEF Driver!AsParams
            <4> QED
                BY <4>1, AtPlace DEF ProcType, Driver!File
        <3>2. CASE Driver!Top.file.name \in {"file", "--version"}
            BY <1>1, <2>2, <3>2 DEF Driver!AsParams
        <3>3. CASE Driver!Top.file.name \in {"-", "-option"}
            BY <1>1, <1>2, <2>2, <3>3 DEF Driver!AsParams
        <3> QED
            BY <3>1, <3>2, <3>3
    <2>3. CASE Driver!AsCheck
        BY <1>1, <1>2, <2>3 DEF Driver!AsCheck
    <2>4. CASE Driver!AsWrite
        BY <1>1, <1>2, <2>4 DEF Driver!AsWrite
    <2>5. CASE Driver!AsFork
        BY <1>1, <1>2, <2>5 DEF Driver!AsFork
    <2>6. CASE Driver!AsWait
        BY <1>1, <1>2, <2>6 DEF Driver!AsWait
    <2> QED
        BY <2>1, <2>2, <2>3, <2>4, <2>5, <2>6
<1> QED
    BY <1>1, <1>3, LineStays

DriverInv == LineInv /\ WorkInv

LEMMA DriverNext == DriverInv /\ [Driver!Next]_drivervars => DriverInv'
<1>1. CASE UNCHANGED drivervars
    <2>1. ASSUME LineInv, UNCHANGED drivervars  PROVE LineInv'
        BY <2>1 DEF LineInv, drivervars, Driver!Running
    <2>2. ASSUME WorkInv, UNCHANGED drivervars  PROVE WorkInv'
        <3>1. UNCHANGED <<job, where, params, dir, todo, procs, temps, objects, code, failures>>
            BY <2>2 DEF drivervars
        <3>2. (\A o \in objects : ObjectInv(o))' /\ (\A t \in temps : CopyInv(t))'
            BY <2>2, <3>1 DEF WorkInv, ObjectInv, CopyInv, Copy, Driver!RunsWrapper
        <3>3. (\A n \in DOMAIN job.files : Accounted(job.files[n]))'
            BY <2>2, <3>1 DEF WorkInv, Accounted
        <3>4. (Len(procs) >= 1 => First(procs[1]))'
            BY <2>2, <3>1 DEF WorkInv, First
        <3> QED
            BY <2>2, <3>1, <3>2, <3>3, <3>4 DEF WorkInv
    <2> QED
        BY <1>1, <2>1, <2>2 DEF DriverInv
<1>2. ASSUME DriverInv, Driver!Next  PROVE DriverInv'
    <2>1. LineInv /\ WorkInv
        BY <1>2 DEF DriverInv
    <2>2. CASE Driver!FindAs
        BY <2>1, <2>2, FindKeepsLine, LineStepsKeepWork DEF DriverInv
    <2>3. CASE Driver!Rustc
        BY <2>1, <2>3, RustcKeepsLine, LineStepsKeepWork DEF DriverInv
    <2>4. CASE Driver!EditWord
        BY <2>1, <2>4, EditKeepsLine, LineStepsKeepWork DEF DriverInv
    <2>5. CASE Driver!AddWords
        BY <2>1, <2>5, AddKeepsLine, LineStepsKeepWork DEF DriverInv
    <2>6. CASE Driver!Exec
        BY <2>1, <2>6, ExecKeepsLine, LineStepsKeepWork DEF DriverInv
    <2>7. CASE Driver!Compile
        BY <2>1, <2>7, ProcessesKeepLine, CompileKeepsWork DEF DriverInv
    <2>8. CASE Driver!Finish
        BY <2>1, <2>8, ProcessesKeepLine, FinishKeepsWork DEF DriverInv
    <2>9. CASE Driver!AsParams
        BY <2>1, <2>9, ProcessesKeepLine, ParamsKeepWork DEF DriverInv
    <2>10. CASE Driver!AsCheck
        BY <2>1, <2>10, ProcessesKeepLine, CheckKeepsWork DEF DriverInv
    <2>11. CASE Driver!AsWrite
        BY <2>1, <2>11, ProcessesKeepLine, WriteKeepsWork DEF DriverInv
    <2>12. CASE Driver!AsFork
        BY <2>1, <2>12, ProcessesKeepLine, ForkKeepsWork DEF DriverInv
    <2>13. CASE Driver!AsWait
        BY <2>1, <2>13, ProcessesKeepLine, WaitKeepsWork DEF DriverInv
    <2> QED
        BY <1>2, <2>2, <2>3, <2>4, <2>5, <2>6, <2>7, <2>8, <2>9, <2>10, <2>11, <2>12, <2>13
        DEF Driver!Next
<1> QED
    BY <1>1, <1>2

LEMMA BuildIsInOrder == DriverInv => Driver!BuildInOrder
<1> SUFFICES ASSUME LineInv, WorkInv  PROVE Driver!BuildInOrder
    BY DEF DriverInv
<1>1. /\ Driver!OneAssembler /\ Driver!NotCombined
      /\ Driver!WordsOf("user") \subseteq Driver!Words
      /\ Driver!WordsOf("wrapper") \subseteq Driver!Added \cup {"-C", "path", "argv0", "default"}
    BY LineIsInOrder
<1>2. procs \in Seq(ProcType) /\ Len(procs) <= 2 /\ (Len(procs) = 2 => procs[1].pc = "wait")
    BY DEF WorkInv, Second
<1>3. \A n \in DOMAIN procs : /\ procs[n].file \in Driver!File /\ procs[n].times \in {0, 1}
                              /\ Driver!Depth \in {1, 2} /\ Driver!Depth = Len(procs)
                              /\ n < Driver!Depth => procs[n].pc = "wait"
    <2> SUFFICES ASSUME NEW n \in DOMAIN procs
                 PROVE  /\ procs[n].file \in Driver!File /\ procs[n].times \in {0, 1}
                        /\ Len(procs) \in {1, 2}
                        /\ n < Len(procs) => procs[n].pc = "wait"
        BY DEF Driver!Depth
    <2>1. procs[n] \in ProcType /\ n \in 1 .. Len(procs) /\ Len(procs) \in Nat
        BY <1>2
    <2>2. Len(procs) \in {1, 2} /\ (n < Len(procs) => n = 1 /\ Len(procs) = 2)
        <3>1. \A l \in Nat : \A k \in 1 .. l : l <= 2 => l \in {1, 2} /\ (k < l => k = 1 /\ l = 2)
            OBVIOUS
        <3> QED
            BY <1>2, <2>1, <3>1
    <2> QED
        BY <1>2, <2>1, <2>2 DEF ProcType
<1>4. \A o \in objects : o.file \in Driver!File /\ (Driver!RunsWrapper => o.times = Due(o.file))
    BY DEF WorkInv, ObjectInv
<1>5. Driver!TypeOK
    <2>1. \A n \in DOMAIN procs : procs[n].times \in 0 .. Driver!Depth
        BY <1>3
    <2>2. code \in {0, 1}
        BY DEF WorkInv
    <2> QED
        BY <1>1, <1>3, <1>4, <2>1, <2>2 DEF LineInv, Driver!TypeOK
<1>6. Driver!InstrumentedOnce
    <2>1. \A n \in DOMAIN procs : procs[n].times <= 1
        BY <1>3
    <2> QED
        BY <2>1, <1>4 DEF Due, Driver!InstrumentedOnce
<1>7. Driver!NoCopyLeft
    BY DEF WorkInv, CopyInv, Driver!NoCopyLeft
<1>8. Driver!SuccessIsComplete
    <2> SUFFICES ASSUME where = "done", code = 0, "killed" \notin failures,
                        NEW n \in DOMAIN job.files, job.files[n].name = "file"
                 PROVE  \E o \in objects : o.file = job.files[n]
        BY DEF Driver!SuccessIsComplete
    <2>1. Len(procs) = 0 /\ Len(todo) = 0 /\ todo \in Seq(Driver!File) /\ Accounted(job.files[n])
        BY DEF WorkInv
    <2>2. DOMAIN todo = {}
        BY <2>1
    <2> QED
        BY <2>1, <2>2 DEF Accounted, Built
<1> QED
    BY <1>1, <1>5, <1>6, <1>7, <1>8 DEF Driver!BuildInOrder

\* For every command line, every environment and number of files: the compiler is told of one
\* directory of assemblers and of nothing that rules out what the environment asks for, and no
\* file is instrumented twice; unless a signal has killed an assembler, a build that succeeds
\* has an object of every file; and unless a wrapper has ended in FATAL or could not fork, no
\* copy is left that was not to be kept (afl-gcc.c 132-349, afl-as.c 7990-8069).
THEOREM BuildsInOrder == SpecAll => []BuildInOrder
<1>1. InitAll => DriverInv
    BY LineBegins, WorkBegins DEF InitAll, DriverInv
<1>2. DriverInv /\ [Listing \/ Driving \/ Allocating \/ Sizing]_allvars => DriverInv'
    <2>1. [Listing \/ Driving \/ Allocating \/ Sizing]_allvars => [Driver!Next]_drivervars
        BY DEF Listing, Driving, Allocating, Sizing, allvars
    <2> QED
        BY <2>1, DriverNext
<1>3. DriverInv => BuildInOrder
    BY BuildIsInOrder DEF BuildInOrder
<1> QED
    BY <1>1, <1>2, <1>3, PTL DEF SpecAll

-----------------------------------------------------------------------------
(* The rewriters.  A pattern is of one of three kinds: prologue, epilogue and *)
(* page of the global size.                                                  *)

Pat(k, n) ==
    IF k = 1 THEN Sizer!prolog(n) ELSE IF k = 2 THEN Sizer!epilog(n)
    ELSE Sizer!global_stack_size(n)
Size(k) == IF k = 1 THEN 5 ELSE IF k = 2 THEN 6 ELSE 2

\* x has the fields of a pattern of kind k with the sizes b and c from place p on.
Fields(x, p, k, b, c) ==
    /\ k = 1 => /\ x[p] = Wrap /\ x[p + 1] = b /\ x[p + 2] = c
                /\ x[p + 3] = Wrap + 1 /\ x[p + 4] = b
    /\ k = 2 => /\ x[p] = Wrap + 2 /\ x[p + 1] = b /\ x[p + 2] = b /\ x[p + 3] = c
                /\ x[p + 4] = Wrap + 3 /\ x[p + 5] = Wrap + 4
    /\ k = 3 => x[p] = b /\ x[p + 1] = Wrap + 5
Has(x, p, k, n) ==
    /\ p + Size(k) - 1 <= Len(x)
    /\ \A m \in 1 .. Size(k) : x[p + m - 1] = Pat(k, n)[m]
Before(p, k, q) == p + Size(k) <= q

\* The assumptions on the constants, one by one.
LEMMA SizerConstants ==
    /\ Files # {} /\ IsFiniteSet(Files) /\ Elf \subseteq Files
    /\ Old \in Nat \ {0} /\ New \in Nat \ {0} /\ Wrap \in Nat \ {0} /\ MaxRuns \in Nat
    /\ Old # New /\ 2 * Old < Wrap /\ 2 * New < Wrap
    /\ Original \in [Files -> Seq(Nat)] /\ \A f \in Elf : Sizer!Apart(Original[f])
<1>1. Sizer!RewriterAssumption
  BY ToolConstants
<1>2. Sizer!IsFiniteSet(Files) = IsFiniteSet(Files)
  BY DEF IsFiniteSet, Sizer!IsFiniteSet
<1> QED
  BY <1>1, <1>2 DEF Sizer!RewriterAssumption

\* What the patterns are made of: the size is below the bytes that stay.
LEMMA FieldBytes ==
    ASSUME NEW n \in {Old, New}
    PROVE  /\ Sizer!Bytes(n) = Wrap - n /\ Sizer!Bytes(2 * n) = Wrap - 2 * n
           /\ Wrap - n \in 0 .. Wrap - 1 /\ Wrap - 2 * n \in 0 .. Wrap - 1
<1>1. n \in Nat \ {0} /\ 2 * n < Wrap /\ Wrap \in Nat \ {0}
  BY SizerConstants
<1>2. \A d \in 0 .. Wrap - 1 : d % Wrap = d
  BY <1>1
<1> QED
  BY <1>1, <1>2 DEF Sizer!Bytes

\* A pattern by its fields.
LEMMA PatternFields ==
    ASSUME NEW k \in 1 .. 3, NEW n \in {Old, New}
    PROVE  /\ Pat(k, n) \in Seq(Nat) /\ Len(Pat(k, n)) = Size(k)
           /\ Size(k) \in 2 .. 6
           /\ \A x, p : p \in Nat =>
                 ((\A m \in 1 .. Size(k) : x[p + m - 1] = Pat(k, n)[m])
                    <=> Fields(x, p, k, Wrap - n, Wrap - 2 * n))
<1>0. Wrap \in Nat \ {0}
  BY SizerConstants
<1>1. CASE k = 1
  <2> DEFINE s == Sizer!prolog(n)
  <2>1. s = <<Wrap, Wrap - n, Wrap - 2 * n, Wrap + 1, Wrap - n>>
    BY FieldBytes DEF Sizer!prolog, Sizer!in, Sizer!add
  <2>2. s \in Seq(Nat) /\ Len(s) = 5 /\ s[1] = Wrap /\ s[2] = Wrap - n /\ s[3] = Wrap - 2 * n
        /\ s[4] = Wrap + 1 /\ s[5] = Wrap - n
    BY <2>1, <1>0, FieldBytes
  <2>3. Pat(k, n) = s /\ Size(k) = 5
    BY <1>1 DEF Pat, Size
  <2> HIDE DEF s
  <2>4. ASSUME NEW x, NEW p \in Nat
        PROVE  (\A m \in 1 .. 5 : x[p + m - 1] = s[m])
                  <=> Fields(x, p, k, Wrap - n, Wrap - 2 * n)
    <3>1. (\A m \in 1 .. 5 : x[p + m - 1] = s[m])
             <=> /\ x[p + 1 - 1] = s[1] /\ x[p + 2 - 1] = s[2] /\ x[p + 3 - 1] = s[3]
                 /\ x[p + 4 - 1] = s[4] /\ x[p + 5 - 1] = s[5]
      OBVIOUS
    <3>2. /\ p + 1 - 1 = p /\ p + 2 - 1 = p + 1 /\ p + 3 - 1 = p + 2
          /\ p + 4 - 1 = p + 3 /\ p + 5 - 1 = p + 4
      OBVIOUS
    <3> QED
      BY <3>1, <3>2, <2>2, <1>1 DEF Fields
  <2> QED
    BY <2>2, <2>3, <2>4
<1>2. CASE k = 2
  <2> DEFINE s == Sizer!epilog(n)
  <2>1. s = <<Wrap + 2, Wrap - n, Wrap - n, Wrap - 2 * n, Wrap + 3, Wrap + 4>>
    BY FieldBytes DEF Sizer!epilog, Sizer!out, Sizer!rsp, Sizer!jmp
  <2>2. s \in Seq(Nat) /\ Len(s) = 6 /\ s[1] = Wrap + 2 /\ s[2] = Wrap - n /\ s[3] = Wrap - n
        /\ s[4] = Wrap - 2 * n /\ s[5] = Wrap + 3 /\ s[6] = Wrap + 4
    BY <2>1, <1>0, FieldBytes
  <2>3. Pat(k, n) = s /\ Size(k) = 6
    BY <1>2 DEF Pat, Size
  <2> HIDE DEF s
  <2>4. ASSUME NEW x, NEW p \in Nat
        PROVE  (\A m \in 1 .. 6 : x[p + m - 1] = s[m])
                  <=> Fields(x, p, k, Wrap - n, Wrap - 2 * n)
    <3>1. (\A m \in 1 .. 6 : x[p + m - 1] = s[m])
             <=> /\ x[p + 1 - 1] = s[1] /\ x[p + 2 - 1] = s[2] /\ x[p + 3 - 1] = s[3]
                 /\ x[p + 4 - 1] = s[4] /\ x[p + 5 - 1] = s[5] /\ x[p + 6 - 1] = s[6]
      OBVIOUS
    <3>2. /\ p + 1 - 1 = p /\ p + 2 - 1 = p + 1 /\ p + 3 - 1 = p + 2
          /\ p + 4 - 1 = p + 3 /\ p + 5 - 1 = p + 4 /\ p + 6 - 1 = p + 5
      OBVIOUS
    <3> QED
      BY <3>1, <3>2, <2>2, <1>2 DEF Fields
  <2> QED
    BY <2>2, <2>3, <2>4
<1>3. CASE k = 3
  <2> DEFINE s == Sizer!global_stack_size(n)
  <2>1. s = <<Wrap - n, Wrap + 5>>
    BY FieldBytes DEF Sizer!global_stack_size, Sizer!magic
  <2>2. s \in Seq(Nat) /\ Len(s) = 2 /\ s[1] = Wrap - n /\ s[2] = Wrap + 5
    BY <2>1, <1>0, FieldBytes
  <2>3. Pat(k, n) = s /\ Size(k) = 2
    BY <1>3 DEF Pat, Size
  <2> HIDE DEF s
  <2>4. ASSUME NEW x, NEW p \in Nat
        PROVE  (\A m \in 1 .. 2 : x[p + m - 1] = s[m])
                  <=> Fields(x, p, k, Wrap - n, Wrap - 2 * n)
    <3>1. (\A m \in 1 .. 2 : x[p + m - 1] = s[m])
             <=> x[p + 1 - 1] = s[1] /\ x[p + 2 - 1] = s[2]
      OBVIOUS
    <3>2. p + 1 - 1 = p /\ p + 2 - 1 = p + 1
      OBVIOUS
    <3> QED
      BY <3>1, <3>2, <2>2, <1>3 DEF Fields
  <2> QED
    BY <2>2, <2>3, <2>4
<1> QED
  BY <1>1, <1>2, <1>3

\* Two patterns that overlap are one, or a prologue that runs into a page.
LEMMA Overlap ==
    ASSUME NEW x, NEW p \in Nat, NEW q \in Nat, NEW k \in 1 .. 3, NEW l \in 1 .. 3,
           NEW b \in 0 .. Wrap - 1, NEW c \in 0 .. Wrap - 1,
           NEW d \in 0 .. Wrap - 1, NEW e \in 0 .. Wrap - 1,
           Fields(x, p, k, b, c), Fields(x, q, l, d, e)
    PROVE  \/ Before(p, k, q) \/ Before(q, l, p)
           \/ b = d /\ p = q /\ k = l
           \/ b = d /\ k = 1 /\ l = 3 /\ q = p + 4
           \/ b = d /\ k = 3 /\ l = 1 /\ p = q + 4
<1>0. Wrap \in Nat \ {0}
  BY SizerConstants
<1>1. CASE k = 1 /\ l = 1
  BY <1>0, <1>1 DEF Fields, Before, Size
<1>2. CASE k = 1 /\ l = 2
  BY <1>0, <1>2 DEF Fields, Before, Size
<1>3. CASE k = 1 /\ l = 3
  BY <1>0, <1>3 DEF Fields, Before, Size
<1>4. CASE k = 2 /\ l = 1
  BY <1>0, <1>4 DEF Fields, Before, Size
<1>5. CASE k = 2 /\ l = 2
  BY <1>0, <1>5 DEF Fields, Before, Size
<1>6. CASE k = 2 /\ l = 3
  BY <1>0, <1>6 DEF Fields, Before, Size
<1>7. CASE k = 3 /\ l = 1
  BY <1>0, <1>7 DEF Fields, Before, Size
<1>8. CASE k = 3 /\ l = 2
  BY <1>0, <1>8 DEF Fields, Before, Size
<1>9. CASE k = 3 /\ l = 3
  BY <1>0, <1>9 DEF Fields, Before, Size
<1> QED
  BY <1>1, <1>2, <1>3, <1>4, <1>5, <1>6, <1>7, <1>8, <1>9

LEMMA HasFields ==
    ASSUME NEW x, NEW p \in Nat, NEW k \in 1 .. 3, NEW n \in {Old, New}
    PROVE  Has(x, p, k, n) <=> /\ p + Size(k) - 1 <= Len(x)
                               /\ Fields(x, p, k, Wrap - n, Wrap - 2 * n)
<1>1. (\A m \in 1 .. Size(k) : x[p + m - 1] = Pat(k, n)[m])
         <=> Fields(x, p, k, Wrap - n, Wrap - 2 * n)
  BY PatternFields
<1> QED
  BY <1>1 DEF Has

\* No new pattern shares a place with an old one.
LEMMA OldNew ==
    ASSUME NEW x, NEW p \in Nat, NEW q \in Nat, NEW k \in 1 .. 3, NEW l \in 1 .. 3,
           Has(x, p, k, New), Has(x, q, l, Old)
    PROVE  Before(p, k, q) \/ Before(q, l, p)
<1>1. /\ Fields(x, p, k, Wrap - New, Wrap - 2 * New)
      /\ Fields(x, q, l, Wrap - Old, Wrap - 2 * Old)
  BY HasFields
<1>2. /\ Wrap - New \in 0 .. Wrap - 1 /\ Wrap - 2 * New \in 0 .. Wrap - 1
      /\ Wrap - Old \in 0 .. Wrap - 1 /\ Wrap - 2 * Old \in 0 .. Wrap - 1
  BY FieldBytes
<1> DEFINE b == Wrap - New
           c == Wrap - 2 * New
           d == Wrap - Old
           e == Wrap - 2 * Old
<1>3. b # d /\ b \in 0 .. Wrap - 1 /\ c \in 0 .. Wrap - 1 /\ d \in 0 .. Wrap - 1 /\ e \in 0 .. Wrap - 1
  BY <1>2, SizerConstants
<1>4. Fields(x, p, k, b, c) /\ Fields(x, q, l, d, e)
  BY <1>1
<1> HIDE DEF b, c, d, e
<1> QED
  BY <1>3, <1>4, Overlap

\* Nor do two old ones that one tool looks for, or that are in a file of the build.
LEMMA OldOld ==
    ASSUME NEW x \in Seq(Nat), NEW p \in Nat \ {0}, NEW q \in Nat \ {0},
           NEW k \in 1 .. 3, NEW l \in 1 .. 3,
           Has(x, p, k, Old), Has(x, q, l, Old), (k = 3 <=> l = 3) \/ Sizer!Apart(x)
    PROVE  Before(p, k, q) \/ Before(q, l, p) \/ (p = q /\ k = l)
<1>1. /\ Fields(x, p, k, Wrap - Old, Wrap - 2 * Old)
      /\ Fields(x, q, l, Wrap - Old, Wrap - 2 * Old)
      /\ p + Size(k) - 1 <= Len(x) /\ q + Size(l) - 1 <= Len(x)
  BY HasFields
<1>2. Wrap - Old \in 0 .. Wrap - 1 /\ Wrap - 2 * Old \in 0 .. Wrap - 1
  BY FieldBytes
<1>3. ASSUME Sizer!Apart(x), NEW a \in Nat \ {0}, Has(x, a, 1, Old), Has(x, a + 4, 3, Old)
      PROVE  FALSE
  <2>1. Sizer!prolog(Old) = Pat(1, Old) /\ Len(Pat(1, Old)) = 5 /\ Size(1) = 5 /\ Size(3) = 2
    BY PatternFields DEF Pat, Size
  <2>2. Sizer!is_matching(x, a, Sizer!prolog(Old))
    BY <1>3, <2>1 DEF Has, Sizer!is_matching
  <2>3. Fields(x, a + 4, 3, Wrap - Old, Wrap - 2 * Old) /\ a + 4 + Size(3) - 1 <= Len(x)
    BY <1>3, HasFields
  <2>4. x[a + 4 + 1] = Wrap + 5 /\ a + 4 + 1 = a + 5
    BY <2>3 DEF Fields
  <2>5. a \in DOMAIN x /\ a + 5 \in DOMAIN x
    <3>1. a + 4 + 2 - 1 <= Len(x) /\ Len(x) \in Nat /\ DOMAIN x = 1 .. Len(x)
      BY <2>1, <2>3
    <3> QED
      BY <3>1
  <2> QED
    BY <1>3, <2>1, <2>2, <2>4, <2>5 DEF Sizer!Apart, Sizer!magic
<1> DEFINE b == Wrap - Old
           c == Wrap - 2 * Old
<1>4. \/ Before(p, k, q) \/ Before(q, l, p)
      \/ p = q /\ k = l
      \/ k = 1 /\ l = 3 /\ q = p + 4
      \/ k = 3 /\ l = 1 /\ p = q + 4
  <2>1. /\ b \in 0 .. Wrap - 1 /\ c \in 0 .. Wrap - 1
        /\ Fields(x, p, k, b, c) /\ Fields(x, q, l, b, c)
    BY <1>1, <1>2
  <2> HIDE DEF b, c
  <2> QED
    BY <2>1, Overlap
<1> QED
  BY <1>3, <1>4

-----------------------------------------------------------------------------
(* A file in which the old patterns of some kinds are replaced.              *)

Covers(o, S, j) ==
    \E k \in S : \E p \in 1 .. Len(o) : Has(o, p, k, Old) /\ j \in p .. p + Size(k) - 1
Mix(o, S, x) ==
    /\ x \in Seq(Nat) /\ Len(x) = Len(o)
    /\ \A k \in S : \A p \in 1 .. Len(o) : Has(o, p, k, Old) => Has(x, p, k, New)
    /\ \A j \in 1 .. Len(o) : ~Covers(o, S, j) => x[j] = o[j]

LEMMA Sizes3 == \A k \in 1 .. 3 : Size(k) \in 2 .. 6
BY DEF Size

LEMMA Clash ==
    ASSUME NEW p \in Nat, NEW q \in Nat, NEW k \in 1 .. 3, NEW l \in 1 .. 3,
           NEW j \in p .. p + Size(k) - 1, j \in q .. q + Size(l) - 1
    PROVE  ~Before(p, k, q) /\ ~Before(q, l, p)
BY Sizes3 DEF Before

LEMMA HasMoves ==
    ASSUME NEW x, NEW y, Len(x) = Len(y), NEW p \in Nat \ {0}, NEW k \in 1 .. 3, NEW n,
           Has(x, p, k, n), \A j \in p .. p + Size(k) - 1 : y[j] = x[j]
    PROVE  Has(y, p, k, n)
<1> DEFINE z == Size(k)
<1>1. \A m \in 1 .. z : p + m - 1 \in p .. p + z - 1
  <2>1. z \in Nat
    BY Sizes3
  <2> HIDE DEF z
  <2> QED
    BY <2>1
<1> QED
  BY <1>1 DEF Has

LEMMA Interval ==
    ASSUME NEW p \in Nat \ {0}, NEW z \in Nat \ {0}, NEW n \in Nat, p + z - 1 <= n
    PROVE  p \in 1 .. n /\ p .. p + z - 1 \subseteq 1 .. n
OBVIOUS

LEMMA Inside ==
    ASSUME NEW x \in Seq(Nat), NEW p \in Nat \ {0}, NEW k \in 1 .. 3, NEW n, Has(x, p, k, n)
    PROVE  p \in 1 .. Len(x) /\ p .. p + Size(k) - 1 \subseteq 1 .. Len(x)
<1>1. Size(k) \in Nat \ {0} /\ Len(x) \in Nat
  BY Sizes3
<1>2. p + Size(k) - 1 <= Len(x)
  BY DEF Has
<1> QED
  BY <1>1, <1>2, Interval

\* What is still of the old size was so in the original.
LEMMA MixOld ==
    ASSUME NEW o \in Seq(Nat), NEW S \in SUBSET (1 .. 3), NEW x, Mix(o, S, x),
           NEW k \in 1 .. 3, NEW p \in Nat \ {0}, Has(x, p, k, Old)
    PROVE  k \notin S /\ Has(o, p, k, Old)
<1>0. x \in Seq(Nat) /\ Len(x) = Len(o)
  BY DEF Mix
<1>1. ASSUME NEW j \in p .. p + Size(k) - 1, Covers(o, S, j) PROVE FALSE
  <2>1. PICK l \in S, q \in 1 .. Len(o) : Has(o, q, l, Old) /\ j \in q .. q + Size(l) - 1
    BY <1>1 DEF Covers
  <2>2. Has(x, q, l, New) /\ l \in 1 .. 3 /\ q \in Nat
    BY <2>1 DEF Mix
  <2>3. Before(q, l, p) \/ Before(p, k, q)
    BY <2>2, OldNew
  <2> QED
    BY <2>1, <2>2, <2>3, Clash
<1>2. \A j \in p .. p + Size(k) - 1 : o[j] = x[j]
  BY <1>0, <1>1, Inside DEF Mix
<1>3. Has(o, p, k, Old)
  BY <1>0, <1>2, HasMoves
<1>4. ASSUME k \in S PROVE FALSE
  <2>1. p \in 1 .. Len(o)
    BY <1>3, Inside
  <2>2. Has(x, p, k, New)
    BY <1>3, <1>4, <2>1 DEF Mix
  <2> QED
    BY <2>2, OldNew, Sizes3 DEF Before
<1> QED
  BY <1>3, <1>4

\* What no run has looked for is still there.
LEMMA MixKeeps ==
    ASSUME NEW o \in Seq(Nat), NEW S \in SUBSET (1 .. 3), NEW x, Mix(o, S, x),
           NEW k \in (1 .. 3) \ S, NEW p \in Nat \ {0}, Has(o, p, k, Old), Sizer!Apart(o)
    PROVE  Has(x, p, k, Old)
<1>0. x \in Seq(Nat) /\ Len(x) = Len(o)
  BY DEF Mix
<1>1. ASSUME NEW j \in p .. p + Size(k) - 1, Covers(o, S, j) PROVE FALSE
  <2>1. PICK l \in S, q \in 1 .. Len(o) : Has(o, q, l, Old) /\ j \in q .. q + Size(l) - 1
    BY <1>1 DEF Covers
  <2>2. l \in 1 .. 3 /\ q \in Nat \ {0} /\ k # l
    BY <2>1
  <2>3. Before(q, l, p) \/ Before(p, k, q)
    BY <2>1, <2>2, OldOld
  <2> QED
    BY <2>1, <2>2, <2>3, Clash
<1>2. \A j \in p .. p + Size(k) - 1 : x[j] = o[j]
  BY <1>0, <1>1, Inside DEF Mix
<1> QED
  BY <1>0, <1>2, HasMoves

\* Replacing twice is replacing the kinds of both.
LEMMA MixTwice ==
    ASSUME NEW o \in Seq(Nat), NEW S \in SUBSET (1 .. 3), NEW T \in SUBSET (1 .. 3),
           NEW x, NEW y, Mix(o, S, x), Mix(x, T, y), Sizer!Apart(o)
    PROVE  Mix(o, S \cup T, y)
<1>0. /\ x \in Seq(Nat) /\ Len(x) = Len(o) /\ y \in Seq(Nat) /\ Len(y) = Len(x)
  BY DEF Mix
<1>1. ASSUME NEW k \in S, NEW p \in 1 .. Len(o), Has(o, p, k, Old)
      PROVE  Has(y, p, k, New)
  <2>1. Has(x, p, k, New)
    BY <1>1 DEF Mix
  <2>2. ASSUME NEW j \in p .. p + Size(k) - 1, Covers(x, T, j) PROVE FALSE
    <3>1. PICK l \in T, q \in 1 .. Len(x) : Has(x, q, l, Old) /\ j \in q .. q + Size(l) - 1
      BY <2>2 DEF Covers
    <3>2. k \in 1 .. 3 /\ l \in 1 .. 3 /\ p \in Nat /\ q \in Nat
      OBVIOUS
    <3>3. Before(q, l, p) \/ Before(p, k, q)
      BY <2>1, <3>1, <3>2, OldNew
    <3> QED
      BY <3>1, <3>2, <3>3, Clash
  <2>3. \A j \in p .. p + Size(k) - 1 : y[j] = x[j]
    <3>1. p .. p + Size(k) - 1 \subseteq 1 .. Len(x) /\ k \in 1 .. 3 /\ p \in Nat \ {0}
      BY <1>0, <2>1, Inside
    <3> QED
      BY <2>2, <3>1 DEF Mix
  <2> QED
    BY <1>0, <2>1, <2>3, HasMoves
<1>2. ASSUME NEW k \in T \ S, NEW p \in 1 .. Len(o), Has(o, p, k, Old)
      PROVE  Has(y, p, k, New)
  <2>1. Has(x, p, k, Old)
    BY <1>2, MixKeeps
  <2> QED
    BY <1>0, <2>1 DEF Mix
<1>3. ASSUME NEW j \in 1 .. Len(o), ~Covers(o, S \cup T, j) PROVE y[j] = o[j]
  <2>1. ~Covers(o, S, j)
    BY <1>3 DEF Covers
  <2>2. ASSUME Covers(x, T, j) PROVE FALSE
    <3>1. PICK l \in T, q \in 1 .. Len(x) : Has(x, q, l, Old) /\ j \in q .. q + Size(l) - 1
      BY <2>2 DEF Covers
    <3>2. l \in 1 .. 3 /\ q \in Nat \ {0}
      BY <1>0, <3>1
    <3>3. Has(o, q, l, Old)
      BY <3>1, <3>2, MixOld
    <3> QED
      BY <1>0, <1>3, <3>1, <3>3 DEF Covers
  <2> QED
    BY <1>0, <2>1, <2>2 DEF Mix
<1> QED
  BY <1>0, <1>1, <1>2, <1>3 DEF Mix

LEMMA SameSequence ==
    ASSUME NEW x \in Seq(Nat), NEW y \in Seq(Nat), Len(x) = Len(y),
           \A j \in 1 .. Len(y) : x[j] = y[j]
    PROVE  x = y
OBVIOUS

LEMMA MixNone ==
    ASSUME NEW o \in Seq(Nat)
    PROVE  Mix(o, {}, o) /\ \A x : Mix(o, {}, x) => x = o
<1>1. \A j : ~Covers(o, {}, j)
  BY DEF Covers
<1>2. Mix(o, {}, o)
  BY <1>1 DEF Mix
<1>3. ASSUME NEW x, Mix(o, {}, x) PROVE x = o
  <2>1. x \in Seq(Nat) /\ Len(x) = Len(o) /\ \A j \in 1 .. Len(o) : x[j] = o[j]
    BY <1>1, <1>3 DEF Mix
  <2> QED
    BY <2>1, SameSequence
<1> QED
  BY <1>2, <1>3

LEMMA MixOne ==
    ASSUME NEW o \in Seq(Nat), NEW S \in SUBSET (1 .. 3), NEW x, NEW y,
           Mix(o, S, x), Mix(o, S, y)
    PROVE  x = y
<1>1. ASSUME NEW j \in 1 .. Len(o) PROVE x[j] = y[j]
  <2>1. CASE Covers(o, S, j)
    <3>1. PICK k \in S, p \in 1 .. Len(o) : Has(o, p, k, Old) /\ j \in p .. p + Size(k) - 1
      BY <2>1 DEF Covers
    <3>2. Has(x, p, k, New) /\ Has(y, p, k, New)
      BY <3>1 DEF Mix
    <3>3. j - p + 1 \in 1 .. Size(k) /\ p + (j - p + 1) - 1 = j
      <4>0. k \in 1 .. 3 /\ p \in Nat
        OBVIOUS
      <4>1. Size(k) \in Nat /\ p \in Nat
        BY <4>0, Sizes3
      <4>2. j \in p .. p + Size(k) - 1
        BY <3>1
      <4> QED
        BY <4>1, <4>2
    <3> QED
      BY <3>2, <3>3 DEF Has
  <2>2. CASE ~Covers(o, S, j)
    BY <2>2 DEF Mix
  <2> QED
    BY <2>1, <2>2
<1>2. x \in Seq(Nat) /\ y \in Seq(Nat) /\ Len(x) = Len(o) /\ Len(y) = Len(o)
  BY DEF Mix
<1> QED
  BY <1>1, <1>2, SameSequence

-----------------------------------------------------------------------------
(* One pass of a tool.                                                       *)

Hits(t) == IF t = "code" THEN {1, 2} ELSE {3}
Kind(t, m) == IF t = "code" THEN m ELSE 3
Columns(t) == IF t = "code" THEN {1, 2} ELSE {1}

LEMMA ToolPatterns ==
    ASSUME NEW t \in Sizer!Tools, NEW n \in {Old, New}
    PROVE  /\ DOMAIN Sizer!Patterns(t, n) = Columns(t)
           /\ \A m \in Columns(t) : /\ Sizer!Patterns(t, n)[m] = Pat(Kind(t, m), n)
                                    /\ Kind(t, m) \in Hits(t) /\ m \in Nat
           /\ Hits(t) \subseteq 1 .. 3
           /\ \A k \in Hits(t) : \E m \in Columns(t) : Kind(t, m) = k
           /\ \A k \in Hits(t), l \in Hits(t) : k = 3 <=> l = 3
<1>1. CASE t = "code"
  <2> DEFINE a == Sizer!prolog(n)
             b == Sizer!epilog(n)
  <2>1. Pat(1, n) = a /\ Pat(2, n) = b /\ Sizer!Patterns(t, n) = <<a, b>>
    BY <1>1 DEF Pat, Sizer!Patterns
  <2> HIDE DEF a, b
  <2>2. DOMAIN <<a, b>> = {1, 2} /\ <<a, b>>[1] = a /\ <<a, b>>[2] = b
    OBVIOUS
  <2> QED
    BY <1>1, <2>1, <2>2 DEF Columns, Kind, Hits
<1>2. CASE t # "code"
  <2> DEFINE a == Sizer!global_stack_size(n)
  <2>1. Pat(3, n) = a /\ Sizer!Patterns(t, n) = <<a>>
    BY <1>2 DEF Pat, Sizer!Patterns
  <2> HIDE DEF a
  <2>2. DOMAIN <<a>> = {1} /\ <<a>>[1] = a
    OBVIOUS
  <2> QED
    BY <1>2, <2>1, <2>2 DEF Columns, Kind, Hits
<1> QED
  BY <1>1, <1>2

LEMMA Matching ==
    ASSUME NEW x, NEW p \in Nat \ {0}, NEW t \in Sizer!Tools, NEW m \in Columns(t)
    PROVE  Sizer!is_matching(x, p, Sizer!Patterns(t, Old)[m]) <=> Has(x, p, Kind(t, m), Old)
<1>1. Sizer!Patterns(t, Old)[m] = Pat(Kind(t, m), Old) /\ Kind(t, m) \in 1 .. 3
  BY ToolPatterns
<1>2. Len(Pat(Kind(t, m), Old)) = Size(Kind(t, m))
  BY <1>1, PatternFields
<1> QED
  BY <1>1, <1>2 DEF Sizer!is_matching, Has

\* The definition that does not scan, as a replacement.
LEMMA WantedMixes ==
    ASSUME NEW o \in Seq(Nat), NEW t \in Sizer!Tools
    PROVE  Mix(o, Hits(t), Sizer!Wanted(o, t))
<1> DEFINE P == Sizer!Places(o, t, Old)
           In(p, j) == j \in p[2] .. p[2] + Len(Sizer!Patterns(t, Old)[p[1]]) - 1
           At(j) == CHOOSE p \in P : In(p, j)
           w == Sizer!Wanted(o, t)
<1>1. w = [j \in DOMAIN o |->
              IF \E p \in P : In(p, j)
              THEN Sizer!Patterns(t, New)[At(j)[1]][j - At(j)[2] + 1]
              ELSE o[j]]
  BY DEF Sizer!Wanted, Sizer!Covers
<1>2. ASSUME NEW p \in P
      PROVE  /\ p[1] \in Columns(t) /\ p[2] \in 1 .. Len(o) /\ Has(o, p[2], Kind(t, p[1]), Old)
             /\ Kind(t, p[1]) \in Hits(t) /\ Kind(t, p[1]) \in 1 .. 3
             /\ \A j : In(p, j) <=> j \in p[2] .. p[2] + Size(Kind(t, p[1])) - 1
  <2>1. /\ p \in Columns(t) \X DOMAIN o
        /\ Sizer!is_matching(o, p[2], Sizer!Patterns(t, Old)[p[1]])
    BY ToolPatterns DEF Sizer!Places
  <2>2. p[1] \in Columns(t) /\ p[2] \in 1 .. Len(o) /\ p[2] \in Nat \ {0}
    BY <2>1
  <2>3. /\ Sizer!Patterns(t, Old)[p[1]] = Pat(Kind(t, p[1]), Old)
        /\ Kind(t, p[1]) \in Hits(t) /\ Kind(t, p[1]) \in 1 .. 3
    BY <2>2, ToolPatterns
  <2>4. Len(Pat(Kind(t, p[1]), Old)) = Size(Kind(t, p[1]))
    BY <2>3, PatternFields
  <2> QED
    BY <2>1, <2>2, <2>3, <2>4, Matching
<1>3. ASSUME NEW k \in Hits(t), NEW q \in 1 .. Len(o), Has(o, q, k, Old)
      PROVE  \E m \in Columns(t) : <<m, q>> \in P /\ Kind(t, m) = k
  <2>1. PICK m \in Columns(t) : Kind(t, m) = k
    BY ToolPatterns
  <2>2. Sizer!is_matching(o, q, Sizer!Patterns(t, Old)[m])
    BY <1>3, <2>1, Matching
  <2>3. m \in DOMAIN Sizer!Patterns(t, Old) /\ q \in DOMAIN o
    BY ToolPatterns
  <2>4. <<m, q>> \in P
    BY <2>2, <2>3 DEF Sizer!Places
  <2> QED
    BY <2>1, <2>4
<1> HIDE DEF P, In, w
<1>4. ASSUME NEW k \in Hits(t), NEW q \in 1 .. Len(o), Has(o, q, k, Old),
             NEW j \in q .. q + Size(k) - 1
      PROVE  w[j] = Pat(k, New)[j - q + 1]
  <2>1. PICK m \in Columns(t) : <<m, q>> \in P /\ Kind(t, m) = k
    BY <1>3, <1>4
  <2>2. In(<<m, q>>, j)
    BY <1>2, <1>4, <2>1
  <2>3. At(j) \in P /\ In(At(j), j)
    BY <2>1, <2>2
  <2> DEFINE a == At(j)
  <2> HIDE DEF a
  <2>4. /\ a[1] \in Columns(t) /\ a[2] \in 1 .. Len(o) /\ Has(o, a[2], Kind(t, a[1]), Old)
        /\ Kind(t, a[1]) \in Hits(t) /\ Kind(t, a[1]) \in 1 .. 3 /\ k \in 1 .. 3
        /\ j \in a[2] .. a[2] + Size(Kind(t, a[1])) - 1
    BY <1>2, <2>3, ToolPatterns DEF a
  <2>5. k = 3 <=> Kind(t, a[1]) = 3
    BY <2>4, ToolPatterns
  <2>6. a[2] = q /\ Kind(t, a[1]) = k
    BY <1>4, <2>4, <2>5, OldOld, Clash
  <2>7. j \in DOMAIN o
    BY <1>4, Inside, <2>4
  <2>8. w[j] = Sizer!Patterns(t, New)[a[1]][j - a[2] + 1]
    BY <1>1, <2>1, <2>2, <2>7 DEF a
  <2> QED
    BY <2>4, <2>6, <2>8, ToolPatterns
<1>5. ASSUME NEW j \in 1 .. Len(o), ~Covers(o, Hits(t), j) PROVE w[j] = o[j]
  <2>1. ~\E p \in P : In(p, j)
    BY <1>2, <1>5 DEF Covers
  <2> QED
    BY <1>1, <2>1
<1>6. ASSUME NEW j \in 1 .. Len(o) PROVE w[j] \in Nat
  <2>1. CASE Covers(o, Hits(t), j)
    <3>1. PICK k \in Hits(t), q \in 1 .. Len(o) :
              Has(o, q, k, Old) /\ j \in q .. q + Size(k) - 1
      BY <2>1 DEF Covers
    <3>2. k \in 1 .. 3 /\ w[j] = Pat(k, New)[j - q + 1]
      BY <1>4, <3>1, ToolPatterns
    <3>3. Pat(k, New) \in Seq(Nat) /\ Len(Pat(k, New)) = Size(k) /\ Size(k) \in 2 .. 6
      BY <3>2, PatternFields
    <3>4. j - q + 1 \in 1 .. Size(k)
      BY <3>1, <3>3
    <3> QED
      BY <3>2, <3>3, <3>4
  <2> QED
    BY <1>5, <2>1
<1>7. w \in Seq(Nat) /\ Len(w) = Len(o)
  <2>1. w = [j \in 1 .. Len(o) |-> w[j]]
    BY <1>1
  <2> QED
    BY <1>6, <2>1
<1>8. ASSUME NEW k \in Hits(t), NEW q \in 1 .. Len(o), Has(o, q, k, Old)
      PROVE  Has(w, q, k, New)
  <2>1. k \in 1 .. 3 /\ Size(k) \in 2 .. 6
    BY ToolPatterns, Sizes3
  <2>2. ASSUME NEW m \in 1 .. Size(k) PROVE w[q + m - 1] = Pat(k, New)[m]
    <3>1. q + m - 1 \in q .. q + Size(k) - 1 /\ (q + m - 1) - q + 1 = m
      BY <2>1
    <3> QED
      BY <1>4, <1>8, <3>1
  <2> QED
    BY <1>7, <1>8, <2>2 DEF Has
<1> QED
  BY <1>5, <1>7, <1>8 DEF Mix, w

LEMMA OneOfTwo ==
    ASSUME NEW o, NEW c \in Seq(Nat), NEW d \in Seq(Nat), Len(c) = Len(o), Len(d) = Len(o)
    PROVE  LET w == [j \in DOMAIN c |-> IF c[j] # o[j] THEN c[j] ELSE d[j]]
           IN  w \in Seq(Nat) /\ Len(w) = Len(o)
<1> DEFINE v == [j \in 1 .. Len(c) |-> IF c[j] # o[j] THEN c[j] ELSE d[j]]
<1>1. \A j \in 1 .. Len(c) : c[j] \in Nat /\ d[j] \in Nat
  OBVIOUS
<1>2. \A j \in 1 .. Len(c) : v[j] \in Nat
  BY <1>1
<1>3. v \in Seq(Nat) /\ Len(v) = Len(o)
  BY <1>2
<1>4. DOMAIN c = 1 .. Len(c)
  OBVIOUS
<1> QED
  BY <1>3, <1>4

\* Both tools, in the form Stages has.
LEMMA BothMixes ==
    ASSUME NEW o \in Seq(Nat), Sizer!Apart(o), NEW c, NEW d, Mix(o, {1, 2}, c), Mix(o, {3}, d)
    PROVE  Mix(o, 1 .. 3, [j \in DOMAIN c |-> IF c[j] # o[j] THEN c[j] ELSE d[j]])
<1> DEFINE w == [j \in DOMAIN c |-> IF c[j] # o[j] THEN c[j] ELSE d[j]]
<1>1. c \in Seq(Nat) /\ d \in Seq(Nat) /\ Len(c) = Len(o) /\ Len(d) = Len(o)
  BY DEF Mix
<1>2. w \in Seq(Nat) /\ Len(w) = Len(o)
  BY <1>1, OneOfTwo
<1>3. \A j \in 1 .. Len(o) : w[j] = IF c[j] # o[j] THEN c[j] ELSE d[j]
  BY <1>1
<1> HIDE DEF w
<1>4. ASSUME NEW T \in SUBSET (1 .. 3), NEW k \in (1 .. 3) \ T, NEW p \in 1 .. Len(o), Has(o, p, k, Old),
             NEW j \in p .. p + Size(k) - 1
      PROVE  ~Covers(o, T, j)
  <2>1. ASSUME NEW l \in T, NEW q \in 1 .. Len(o), Has(o, q, l, Old),
               j \in q .. q + Size(l) - 1
        PROVE  FALSE
    <3>1. k \in 1 .. 3 /\ l \in 1 .. 3 /\ k # l /\ p \in Nat \ {0} /\ q \in Nat \ {0}
      BY <1>4
    <3> QED
      BY <1>4, <2>1, <3>1, OldOld, Clash
  <2> QED
    BY <2>1 DEF Covers
<1>5. ASSUME NEW k \in {1, 2}, NEW p \in 1 .. Len(o), Has(o, p, k, Old)
      PROVE  Has(w, p, k, New)
  <2>1. Has(c, p, k, New) /\ p \in Nat \ {0} /\ k \in 1 .. 3
    BY <1>5 DEF Mix
  <2>2. p .. p + Size(k) - 1 \subseteq 1 .. Len(o)
    BY <1>1, <2>1, Inside
  <2>3. ASSUME NEW j \in p .. p + Size(k) - 1 PROVE w[j] = c[j]
    <3> DEFINE T == {3}
    <3>0. T \in SUBSET (1 .. 3) /\ k \in (1 .. 3) \ T
      OBVIOUS
    <3> HIDE DEF T
    <3>1. ~Covers(o, T, j)
      BY <1>4, <1>5, <3>0
    <3>2. d[j] = o[j]
      BY <2>2, <3>1 DEF Mix, T
    <3> QED
      BY <1>3, <2>2, <3>2
  <2> QED
    BY <1>1, <1>2, <2>1, <2>3, HasMoves
<1>6. ASSUME NEW p \in 1 .. Len(o), Has(o, p, 3, Old)
      PROVE  Has(w, p, 3, New)
  <2>1. Has(d, p, 3, New) /\ p \in Nat \ {0}
    BY <1>6 DEF Mix
  <2>2. p .. p + Size(3) - 1 \subseteq 1 .. Len(o)
    BY <1>1, <2>1, Inside
  <2>3. ASSUME NEW j \in p .. p + Size(3) - 1 PROVE w[j] = d[j]
    <3> DEFINE T == {1, 2}
    <3>0. T \in SUBSET (1 .. 3) /\ 3 \in (1 .. 3) \ T
      OBVIOUS
    <3> HIDE DEF T
    <3>1. ~Covers(o, T, j)
      BY <1>4, <1>6, <3>0
    <3>2. c[j] = o[j]
      BY <2>2, <3>1 DEF Mix, T
    <3> QED
      BY <1>3, <2>2, <3>2
  <2> QED
    BY <1>1, <1>2, <2>1, <2>3, HasMoves
<1>7. ASSUME NEW j \in 1 .. Len(o), ~Covers(o, 1 .. 3, j) PROVE w[j] = o[j]
  <2>1. ~Covers(o, {1, 2}, j) /\ ~Covers(o, {3}, j)
    BY <1>7 DEF Covers
  <2>2. c[j] = o[j] /\ d[j] = o[j]
    BY <2>1 DEF Mix
  <2> QED
    BY <1>3, <2>2
<1>8. \A k \in 1 .. 3 : k \in {1, 2} \/ k = 3
  OBVIOUS
<1>9. Mix(o, 1 .. 3, w)
  BY <1>2, <1>5, <1>6, <1>7, <1>8 DEF Mix
<1> QED
  BY <1>9 DEF w

LEMMA StagesReached ==
    ASSUME NEW f \in Elf, NEW x, NEW S \in {{1, 2}, {3}, 1 .. 3}, Mix(Original[f], S, x)
    PROVE  x \in Sizer!Stages(f)
<1> DEFINE o == Original[f]
           c == Sizer!Wanted(o, "code")
           d == Sizer!Wanted(o, "data")
           b == [j \in DOMAIN c |-> IF c[j] # o[j] THEN c[j] ELSE d[j]]
<1>1. Sizer!Stages(f) = {c, d, b}
  BY DEF Sizer!Stages
<1>2. o \in Seq(Nat) /\ Sizer!Apart(o)
  BY SizerConstants
<1> HIDE DEF o
<1>3. Mix(o, {1, 2}, c) /\ Mix(o, {3}, d)
  BY <1>2, WantedMixes DEF Hits, Sizer!Tools
<1> HIDE DEF c, d
<1>4. Mix(o, 1 .. 3, b)
  BY <1>2, <1>3, BothMixes
<1>5. Mix(o, S, x)
  BY DEF o
<1>6. CASE S = {1, 2}
  BY <1>1, <1>2, <1>3, <1>5, <1>6, MixOne
<1>7. CASE S = {3}
  BY <1>1, <1>2, <1>3, <1>5, <1>7, MixOne
<1>8. CASE S = 1 .. 3
  <2> HIDE DEF b
  <2> QED
    BY <1>1, <1>2, <1>4, <1>5, <1>8, MixOne
<1> QED
  BY <1>6, <1>7, <1>8

LEMMA NothingLeft ==
    ASSUME NEW o \in Seq(Nat), NEW t \in Sizer!Tools, NEW x, Mix(o, Hits(t), x)
    PROVE  Sizer!Places(x, t, Old) = {}
<1>1. x \in Seq(Nat)
  BY DEF Mix
<1>2. ASSUME NEW p \in Sizer!Places(x, t, Old) PROVE FALSE
  <2>1. /\ p \in Columns(t) \X DOMAIN x
        /\ Sizer!is_matching(x, p[2], Sizer!Patterns(t, Old)[p[1]])
    BY ToolPatterns DEF Sizer!Places
  <2>2. p[1] \in Columns(t) /\ p[2] \in Nat \ {0}
    BY <1>1, <2>1
  <2>3. Has(x, p[2], Kind(t, p[1]), Old) /\ Kind(t, p[1]) \in Hits(t) /\ Hits(t) \subseteq 1 .. 3
    BY <2>1, <2>2, Matching, ToolPatterns
  <2> QED
    BY <2>2, <2>3, MixOld
<1> QED
  BY <1>2

-----------------------------------------------------------------------------
(* A file whose write was stopped: the beginning of z, in which each pattern  *)
(* of the original o is replaced or not.                                      *)

Blend(o, z) ==
    /\ z \in Seq(Nat) /\ Len(z) = Len(o)
    /\ \A k \in 1 .. 3 : \A p \in 1 .. Len(o) :
          Has(o, p, k, Old) => Has(z, p, k, Old) \/ Has(z, p, k, New)
    /\ \A j \in 1 .. Len(o) : ~Covers(o, 1 .. 3, j) => z[j] = o[j]
Starts(x, z) ==
    /\ x \in Seq(Nat) /\ Len(x) <= Len(z)
    /\ \A j \in 1 .. Len(x) : x[j] = z[j]
Begun(o, x) == \E z : Blend(o, z) /\ Starts(x, z)

LEMMA MixBlends ==
    ASSUME NEW o \in Seq(Nat), NEW S \in SUBSET (1 .. 3), NEW x, Mix(o, S, x), Sizer!Apart(o)
    PROVE  Blend(o, x)
<1>1. ASSUME NEW k \in 1 .. 3, NEW p \in 1 .. Len(o), Has(o, p, k, Old)
      PROVE  Has(x, p, k, Old) \/ Has(x, p, k, New)
  <2>1. CASE k \in S
    BY <1>1, <2>1 DEF Mix
  <2>2. CASE k \notin S
    BY <1>1, <2>2, MixKeeps
  <2> QED
    BY <2>1, <2>2
<1>2. ASSUME NEW j \in 1 .. Len(o), ~Covers(o, 1 .. 3, j) PROVE x[j] = o[j]
  BY <1>2 DEF Mix, Covers
<1> QED
  BY <1>1, <1>2 DEF Blend, Mix

\* What is of the old size in a blend was so in the original.
LEMMA BlendOld ==
    ASSUME NEW o \in Seq(Nat), NEW z, Blend(o, z),
           NEW k \in 1 .. 3, NEW p \in Nat \ {0}, Has(z, p, k, Old)
    PROVE  Has(o, p, k, Old)
<1>0. z \in Seq(Nat) /\ Len(z) = Len(o)
  BY DEF Blend
<1>1. ASSUME NEW j \in p .. p + Size(k) - 1 PROVE o[j] = z[j]
  <2>1. j \in 1 .. Len(o)
    BY <1>0, Inside
  <2>2. CASE ~Covers(o, 1 .. 3, j)
    BY <2>1, <2>2 DEF Blend
  <2>3. CASE Covers(o, 1 .. 3, j)
    <3>1. PICK l \in 1 .. 3, q \in 1 .. Len(o) :
              Has(o, q, l, Old) /\ j \in q .. q + Size(l) - 1
      BY <2>3 DEF Covers
    <3>2. q \in Nat \ {0}
      OBVIOUS
    <3>3. ~Has(z, q, l, New)
      BY <3>1, <3>2, OldNew, Clash
    <3>4. Has(z, q, l, Old)
      BY <3>1, <3>3 DEF Blend
    <3>5. j - q + 1 \in 1 .. Size(l) /\ q + (j - q + 1) - 1 = j
      <4>1. Size(l) \in Nat /\ j \in q .. q + Size(l) - 1
        BY <3>1, Sizes3
      <4> QED
        BY <3>2, <4>1
    <3> QED
      BY <3>1, <3>4, <3>5 DEF Has
  <2> QED
    BY <2>2, <2>3
<1> QED
  BY <1>0, <1>1, HasMoves

\* So is what is of the old size in the beginning of one.
LEMMA BegunOld ==
    ASSUME NEW o \in Seq(Nat), NEW z, Blend(o, z), NEW x, Starts(x, z),
           NEW k \in 1 .. 3, NEW p \in Nat \ {0}, Has(x, p, k, Old)
    PROVE  Has(z, p, k, Old) /\ Has(o, p, k, Old)
<1>1. x \in Seq(Nat) /\ Len(x) <= Len(z) /\ z \in Seq(Nat)
  BY DEF Starts, Blend
<1>2. p .. p + Size(k) - 1 \subseteq 1 .. Len(x)
  BY <1>1, Inside
<1>3. \A m \in 1 .. Size(k) : z[p + m - 1] = Pat(k, Old)[m]
  <2>1. ASSUME NEW m \in 1 .. Size(k) PROVE p + m - 1 \in 1 .. Len(x)
    <3>1. Size(k) \in Nat
      BY Sizes3
    <3>2. p + m - 1 \in p .. p + Size(k) - 1
      BY <3>1
    <3> QED
      BY <1>2, <3>2
  <2> QED
    BY <2>1 DEF Has, Starts
<1>4. p + Size(k) - 1 <= Len(z)
  <2>1. Len(x) \in Nat /\ Len(z) \in Nat /\ Size(k) \in Nat
    BY <1>1, Sizes3
  <2>2. p + Size(k) - 1 <= Len(x)
    BY DEF Has
  <2>3. Len(x) <= Len(z)
    BY <1>1
  <2> QED
    BY <2>1, <2>2, <2>3
<1>5. Has(z, p, k, Old)
  BY <1>3, <1>4 DEF Has
<1> QED
  BY <1>5, BlendOld

LEMMA FieldOf == ASSUME NEW s \in Seq(Nat), NEW j \in 1 .. Len(s) PROVE s[j] \in Nat
OBVIOUS

\* A run over the beginning of a blend leaves the beginning of another.
LEMMA BegunMixes ==
    ASSUME NEW o \in Seq(Nat), Sizer!Apart(o), NEW S \in SUBSET (1 .. 3), NEW x, NEW y,
           Begun(o, x), Mix(x, S, y)
    PROVE  Begun(o, y)
<1>1. PICK z : Blend(o, z) /\ Starts(x, z)
  BY DEF Begun
<1> DEFINE w == [j \in 1 .. Len(o) |-> IF j \in 1 .. Len(x) THEN y[j] ELSE z[j]]
<1>2. /\ z \in Seq(Nat) /\ Len(z) = Len(o) /\ x \in Seq(Nat) /\ y \in Seq(Nat)
      /\ Len(x) \in Nat /\ Len(o) \in Nat /\ Len(y) = Len(x) /\ Len(x) <= Len(o)
  BY <1>1 DEF Blend, Starts, Mix
<1>3. w \in Seq(Nat) /\ Len(w) = Len(o)
  <2>1. ASSUME NEW j \in 1 .. Len(o) PROVE w[j] \in Nat
    <3>1. CASE j \in 1 .. Len(x)
      <4>1. w[j] = y[j] /\ j \in 1 .. Len(y)
        BY <1>2, <3>1 DEF w
      <4>2. y[j] \in Nat
        BY <1>2, <4>1, FieldOf
      <4> QED
        BY <4>1, <4>2
    <3>2. CASE j \notin 1 .. Len(x)
      <4>1. w[j] = z[j] /\ j \in 1 .. Len(z)
        BY <1>2, <3>2
      <4>2. z[j] \in Nat
        BY <1>2, <4>1, FieldOf
      <4> QED
        BY <4>1, <4>2
    <3> QED
      BY <3>1, <3>2
  <2>2. w = [j \in 1 .. Len(o) |-> w[j]]
    OBVIOUS
  <2> QED
    BY <1>2, <2>1, <2>2
<1>4. \A j \in 1 .. Len(x) : w[j] = y[j]
  BY <1>2
\* What the run has changed in the blend.
<1>5. ASSUME NEW j \in 1 .. Len(o), w[j] # z[j]
      PROVE  j \in 1 .. Len(x) /\ Covers(x, S, j)
  <2>1. j \in 1 .. Len(x)
    BY <1>5
  <2>2. x[j] = z[j] /\ w[j] = y[j]
    BY <1>1, <1>4, <2>1 DEF Starts
  <2> QED
    BY <1>5, <2>1, <2>2 DEF Mix
<1>6. ASSUME NEW j, Covers(x, S, j)
      PROVE  \E k \in S, p \in Nat \ {0} :
                 /\ Has(x, p, k, Old) /\ Has(z, p, k, Old) /\ Has(o, p, k, Old)
                 /\ j \in p .. p + Size(k) - 1 /\ p + Size(k) - 1 <= Len(x) /\ k \in 1 .. 3
  <2>1. PICK k \in S, p \in 1 .. Len(x) : Has(x, p, k, Old) /\ j \in p .. p + Size(k) - 1
    BY <1>6 DEF Covers
  <2>2. k \in 1 .. 3 /\ p \in Nat \ {0} /\ p + Size(k) - 1 <= Len(x)
    BY <2>1 DEF Has
  <2>3. Has(z, p, k, Old) /\ Has(o, p, k, Old)
    BY <1>1, <2>1, <2>2, BegunOld
  <2> QED
    BY <2>1, <2>2, <2>3
<1> HIDE DEF w
<1>7. ASSUME NEW l \in 1 .. 3, NEW q \in 1 .. Len(o), Has(o, q, l, Old)
      PROVE  Has(w, q, l, Old) \/ Has(w, q, l, New)
  <2>0. q \in Nat \ {0} /\ q .. q + Size(l) - 1 \subseteq 1 .. Len(o)
    <3>1. q \in Nat \ {0}
      OBVIOUS
    <3> QED
      BY <1>7, <3>1, Inside
  <2>1. CASE Has(z, q, l, New)
    <3>1. ASSUME NEW j \in q .. q + Size(l) - 1 PROVE w[j] = z[j]
      <4>1. ASSUME Covers(x, S, j) PROVE FALSE
        <5>1. PICK k \in S, p \in Nat \ {0} :
                  Has(z, p, k, Old) /\ j \in p .. p + Size(k) - 1 /\ k \in 1 .. 3
          BY <1>6, <4>1
        <5> QED
          BY <2>0, <2>1, <5>1, OldNew, Clash
      <4> QED
        BY <1>5, <2>0, <4>1
    <3> QED
      BY <1>2, <1>3, <2>0, <2>1, <3>1, HasMoves
  <2>2. CASE Has(z, q, l, Old) /\ l \in S /\ q + Size(l) - 1 <= Len(x)
    <3>1. q \in 1 .. Len(x) /\ q .. q + Size(l) - 1 \subseteq 1 .. Len(x)
      <4>1. Size(l) \in Nat \ {0}
        BY Sizes3
      <4> QED
        BY <1>2, <2>0, <2>2, <4>1, Interval
    <3>2. \A m \in 1 .. Size(l) : q + m - 1 \in 1 .. Len(x)
      <4>1. Size(l) \in Nat
        BY Sizes3
      <4>2. \A m \in 1 .. Size(l) : q + m - 1 \in q .. q + Size(l) - 1
        BY <2>0, <4>1
      <4> QED
        BY <3>1, <4>2
    <3>3. Has(x, q, l, Old)
      BY <1>1, <2>2, <3>2 DEF Has, Starts
    <3>4. Has(y, q, l, New)
      BY <2>2, <3>1, <3>3 DEF Mix
    <3>5. q + Size(l) - 1 <= Len(w)
      BY <1>3, <1>7 DEF Has
    <3> QED
      BY <1>4, <3>2, <3>4, <3>5 DEF Has
  <2>3. CASE Has(z, q, l, Old) /\ ~(l \in S /\ q + Size(l) - 1 <= Len(x))
    <3>1. ASSUME NEW j \in q .. q + Size(l) - 1 PROVE w[j] = z[j]
      <4>1. ASSUME Covers(x, S, j) PROVE FALSE
        <5>1. PICK k \in S, p \in Nat \ {0} :
                  /\ Has(o, p, k, Old) /\ j \in p .. p + Size(k) - 1 /\ k \in 1 .. 3
                  /\ p + Size(k) - 1 <= Len(x)
          BY <1>6, <4>1
        <5>2. ~(p = q /\ k = l)
          BY <2>3, <5>1
        <5> QED
          BY <1>7, <2>0, <5>1, <5>2, OldOld, Clash
      <4> QED
        BY <1>5, <2>0, <4>1
    <3> QED
      BY <1>2, <1>3, <2>0, <2>3, <3>1, HasMoves
  <2> QED
    BY <1>1, <1>7, <2>1, <2>2, <2>3 DEF Blend
<1>8. ASSUME NEW j \in 1 .. Len(o), ~Covers(o, 1 .. 3, j) PROVE w[j] = o[j]
  <2>1. ASSUME Covers(x, S, j) PROVE FALSE
    <3>1. PICK k \in S, p \in Nat \ {0} :
              Has(o, p, k, Old) /\ j \in p .. p + Size(k) - 1 /\ k \in 1 .. 3
      BY <1>6, <2>1
    <3>2. p \in 1 .. Len(o)
      BY <3>1, Inside
    <3> QED
      BY <1>8, <3>1, <3>2 DEF Covers
  <2> QED
    BY <1>1, <1>5, <1>8, <2>1 DEF Blend
<1>9. Blend(o, w)
  BY <1>3, <1>7, <1>8 DEF Blend
<1>10. Starts(y, w)
  BY <1>2, <1>3, <1>4 DEF Starts
<1> QED
  BY <1>9, <1>10 DEF Begun

\* The first fields of a sequence.
LEMMA FirstFields ==
    ASSUME NEW s \in Seq(Nat), NEW n \in 0 .. Len(s)
    PROVE  /\ SubSeq(s, 1, n) \in Seq(Nat) /\ Len(SubSeq(s, 1, n)) = n
           /\ \A j \in 1 .. n : SubSeq(s, 1, n)[j] = s[j]
OBVIOUS

LEMMA BegunShorter ==
    ASSUME NEW o, NEW x, Begun(o, x), NEW y \in Seq(Nat), Len(y) <= Len(x),
           \A j \in 1 .. Len(y) : y[j] = x[j]
    PROVE  Begun(o, y)
<1>1. PICK z : Blend(o, z) /\ Starts(x, z)
  BY DEF Begun
<1>2. x \in Seq(Nat) /\ z \in Seq(Nat) /\ Len(x) <= Len(z) /\ \A j \in 1 .. Len(x) : x[j] = z[j]
  BY <1>1 DEF Starts, Blend
<1>3. Len(x) \in Nat /\ Len(y) \in Nat /\ Len(z) \in Nat
  BY <1>2
<1>4. \A j \in 1 .. Len(y) : j \in 1 .. Len(x)
  BY <1>3
<1> QED
  BY <1>1, <1>2, <1>3, <1>4 DEF Begun, Starts

-----------------------------------------------------------------------------
(* The scan: x is the image of o when the scan has come to place n.          *)

Scanned(o, S, n, x) ==
    /\ x \in Seq(Nat) /\ Len(x) = Len(o) /\ n \in Nat \ {0} /\ n <= Len(o) + 1
    /\ \A k \in S : \A p \in 1 .. n - 1 :
          Has(o, p, k, Old) => p + Size(k) <= n /\ Has(x, p, k, New)
    /\ \A j \in 1 .. Len(o) : ~Covers(o, S, j) => x[j] = o[j]
    /\ \A j \in n .. Len(o) : x[j] = o[j]

LEMMA ScanBegins == ASSUME NEW o \in Seq(Nat), NEW S PROVE Scanned(o, S, 1, o)
BY DEF Scanned

LEMMA ScanEnds ==
    ASSUME NEW o \in Seq(Nat), NEW t \in Sizer!Tools, NEW n, NEW x,
           Scanned(o, Hits(t), n, x), ~(n - 1 <= Len(x) - Sizer!Shortest(t))
    PROVE  Mix(o, Hits(t), x)
<1>1. ASSUME NEW k \in Hits(t) PROVE k \in 1 .. 3 /\ Sizer!Shortest(t) <= Size(k)
  <2>1. Len(Sizer!prolog(Old)) = 5 /\ Len(Sizer!global_stack_size(Old)) = 2
    BY DEF Sizer!prolog, Sizer!global_stack_size
  <2> QED
    BY <2>1 DEF Hits, Size, Sizer!Shortest
<1>2. ASSUME NEW k \in Hits(t), NEW p \in 1 .. Len(o), Has(o, p, k, Old)
      PROVE  Has(x, p, k, New)
  <2>1. Size(k) \in 2 .. 6 /\ Sizer!Shortest(t) <= Size(k)
    BY <1>1, Sizes3
  <2>2. p + Size(k) - 1 <= Len(o)
    BY <1>2 DEF Has
  <2>3. Sizer!Shortest(t) \in Nat
    BY DEF Sizer!Shortest
  <2>4. n \in Nat /\ Len(x) = Len(o) /\ Len(o) \in Nat /\ p \in Nat \ {0}
    BY DEF Scanned
  <2>5. ~(n - 1 <= Len(o) - Sizer!Shortest(t))
    BY <2>4
  <2> HIDE DEF Scanned
  <2>6. p \in 1 .. n - 1
    <3> DEFINE sh == Sizer!Shortest(t)
               z == Size(k)
    <3>1. sh \in Nat /\ z \in Nat /\ sh <= z /\ Len(o) \in Nat /\ n \in Nat
      BY <2>1, <2>3, <2>4
    <3>2. p + z - 1 <= Len(o) /\ ~(n - 1 <= Len(o) - sh)
      BY <2>2, <2>5
    <3> HIDE DEF sh, z
    <3>3. p < n
      BY <2>4, <3>1, <3>2
    <3> QED
      BY <2>4, <3>1, <3>3
  <2> QED
    BY <1>2, <2>6 DEF Scanned
<1> QED
  BY <1>2 DEF Scanned, Mix

\* Ahead of the scan the image is the file.
LEMMA HasAhead ==
    ASSUME NEW o \in Seq(Nat), NEW S, NEW n, NEW x, Scanned(o, S, n, x), NEW k \in 1 .. 3
    PROVE  Has(x, n, k, Old) <=> Has(o, n, k, Old)
<1>1. x \in Seq(Nat) /\ Len(x) = Len(o) /\ n \in Nat \ {0} /\ \A j \in n .. Len(o) : x[j] = o[j]
  BY DEF Scanned
<1>2. ASSUME n + Size(k) - 1 <= Len(o)
      PROVE  \A j \in n .. n + Size(k) - 1 : x[j] = o[j]
  <2> DEFINE z == Size(k)
  <2>1. z \in Nat
    BY Sizes3
  <2>2. Len(o) \in Nat /\ n + z - 1 <= Len(o)
    BY <1>2
  <2> HIDE DEF z
  <2>3. \A j \in n .. n + z - 1 : j \in n .. Len(o)
    BY <1>1, <2>1, <2>2
  <2> QED
    BY <1>1, <2>3 DEF z
<1>3. ASSUME Has(x, n, k, Old) PROVE Has(o, n, k, Old)
  <2>1. n + Size(k) - 1 <= Len(o)
    BY <1>1, <1>3 DEF Has
  <2> QED
    BY <1>1, <1>2, <1>3, <2>1, HasMoves
<1>4. ASSUME Has(o, n, k, Old) PROVE Has(x, n, k, Old)
  <2>1. n + Size(k) - 1 <= Len(o)
    BY <1>1, <1>4 DEF Has
  <2> QED
    BY <1>1, <1>2, <1>4, <2>1, HasMoves
<1> QED
  BY <1>3, <1>4

LEMMA ScanMisses ==
    ASSUME NEW o \in Seq(Nat), NEW S \in SUBSET (1 .. 3), NEW n, NEW x, Scanned(o, S, n, x),
           n <= Len(o), \A k \in S : ~Has(x, n, k, Old)
    PROVE  Scanned(o, S, n + 1, x)
<1>1. \A k \in S : ~Has(o, n, k, Old)
  BY HasAhead
<1>2. n \in Nat \ {0}
  BY DEF Scanned
<1>3. ASSUME NEW k \in S, NEW p \in 1 .. n, Has(o, p, k, Old)
      PROVE  p + Size(k) <= n + 1 /\ Has(x, p, k, New)
  <2>1. p \in 1 .. n - 1
    BY <1>1, <1>2, <1>3
  <2>2. Size(k) \in 2 .. 6
    BY Sizes3
  <2>3. p + Size(k) <= n /\ Has(x, p, k, New)
    BY <1>3, <2>1 DEF Scanned
  <2> QED
    BY <1>2, <2>1, <2>2, <2>3
<1>4. n + 1 - 1 = n
  BY <1>2
<1> QED
  BY <1>2, <1>3, <1>4 DEF Scanned

LEMMA ScanHits ==
    ASSUME NEW o \in Seq(Nat), NEW t \in Sizer!Tools, NEW n, NEW x,
           Scanned(o, Hits(t), n, x), NEW k \in Hits(t), Has(x, n, k, Old)
    PROVE  Scanned(o, Hits(t), n + Size(k), Sizer!Modified(x, n, Pat(k, New)))
<1> DEFINE w == Sizer!Modified(x, n, Pat(k, New))
           e == n + Size(k)
<1>1. /\ x \in Seq(Nat) /\ Len(x) = Len(o) /\ n \in Nat \ {0}
      /\ \A j \in n .. Len(o) : x[j] = o[j]
      /\ \A j \in 1 .. Len(o) : ~Covers(o, Hits(t), j) => x[j] = o[j]
  BY DEF Scanned
<1>2. /\ k \in 1 .. 3 /\ Hits(t) \subseteq 1 .. 3 /\ \A l \in Hits(t) : k = 3 <=> l = 3
  BY ToolPatterns
<1>3. Pat(k, New) \in Seq(Nat) /\ Len(Pat(k, New)) = Size(k) /\ Size(k) \in 2 .. 6
  BY <1>2, PatternFields
<1>4. Has(o, n, k, Old)
  BY <1>2, HasAhead
<1>5. n .. n + Size(k) - 1 \subseteq 1 .. Len(o) /\ n \in 1 .. Len(o)
  BY <1>1, <1>2, <1>4, Inside
<1>6. w = [j \in 1 .. Len(o) |->
              IF j \in n .. n + Size(k) - 1 THEN Pat(k, New)[j - n + 1] ELSE x[j]]
  <2>1. DOMAIN x \cup n .. n + Len(Pat(k, New)) - 1 = 1 .. Len(o)
    BY <1>1, <1>3, <1>5
  <2> QED
    BY <2>1, <1>3 DEF Sizer!Modified
<1>7. \A j \in n .. n + Size(k) - 1 : j - n + 1 \in 1 .. Size(k)
  BY <1>1, <1>3
<1>8. ASSUME NEW j \in 1 .. Len(o)
      PROVE  w[j] \in Nat /\ (j \notin n .. n + Size(k) - 1 => w[j] = x[j])
  <2>1. CASE j \in n .. n + Size(k) - 1
    <3>1. w[j] = Pat(k, New)[j - n + 1] /\ j - n + 1 \in 1 .. Len(Pat(k, New))
      BY <1>3, <1>6, <1>7, <2>1
    <3> DEFINE m == j - n + 1
               s == Pat(k, New)
    <3> HIDE DEF m, s
    <3>2. w[j] = s[m] /\ m \in 1 .. Len(s) /\ s \in Seq(Nat)
      BY <1>3, <3>1 DEF m, s
    <3>3. w[j] \in Nat
      BY <3>2
    <3> QED
      BY <2>1, <3>3
  <2>2. CASE j \notin n .. n + Size(k) - 1
    <3>1. w[j] = x[j]
      BY <1>6, <2>2
    <3>2. x[j] \in Nat
      BY <1>1
    <3> QED
      BY <3>1, <3>2
  <2> QED
    BY <2>1, <2>2
<1>9. w \in Seq(Nat) /\ Len(w) = Len(o)
  <2>1. w = [j \in 1 .. Len(o) |-> w[j]]
    BY <1>6
  <2> QED
    BY <1>8, <2>1
<1>10. Has(w, n, k, New)
  <2>1. ASSUME NEW m \in 1 .. Size(k) PROVE w[n + m - 1] = Pat(k, New)[m]
    <3>1. n + m - 1 \in n .. n + Size(k) - 1 /\ (n + m - 1) - n + 1 = m
      BY <1>1, <1>3
    <3> QED
      BY <1>5, <1>6, <3>1
  <2>2. n + Size(k) - 1 <= Len(w)
    BY <1>1, <1>9, <1>4 DEF Has
  <2> QED
    BY <2>1, <2>2 DEF Has
<1> HIDE DEF w
<1>11. ASSUME NEW l \in Hits(t), NEW p \in 1 .. e - 1, Has(o, p, l, Old)
       PROVE  p + Size(l) <= e /\ Has(w, p, l, New)
  <2>1. p \in Nat \ {0} /\ l \in 1 .. 3 /\ Size(l) \in 2 .. 6
    <3>1. p \in Nat \ {0}
      BY <1>1, <1>3
    <3>2. l \in 1 .. 3
      BY <1>2
    <3> QED
      BY <3>1, <3>2, Sizes3
  <2>2. CASE p < n
    <3>1. p \in 1 .. n - 1
      BY <1>1, <2>1, <2>2
    <3>2. p + Size(l) <= n /\ Has(x, p, l, New)
      BY <1>11, <3>1 DEF Scanned
    <3>3. ASSUME NEW j \in p .. p + Size(l) - 1
          PROVE  j \in 1 .. Len(o) /\ j \notin n .. n + Size(k) - 1
      <4>1. n \in Nat /\ n <= Len(o) /\ Len(o) \in Nat
        BY <1>5
      <4>2. p \in Nat \ {0} /\ Size(l) \in Nat /\ p + Size(l) <= n
        BY <2>1, <3>2
      <4>3. j \in Nat /\ p <= j /\ j < n
        BY <4>1, <4>2
      <4> QED
        BY <4>1, <4>2, <4>3
    <3>4. Has(w, p, l, New)
      BY <1>1, <1>8, <1>9, <2>1, <3>2, <3>3, HasMoves
    <3>5. n \in Nat /\ Size(k) \in Nat /\ Size(l) \in Nat /\ p \in Nat
      BY <1>1, <1>3, <2>1
    <3>6. p + Size(l) <= n + Size(k)
      BY <3>2, <3>5
    <3> QED
      BY <3>4, <3>6
  <2>3. CASE p >= n
    <3>1. p \in n .. n + Size(k) - 1 /\ p \in p .. p + Size(l) - 1
      <4>1. n \in Nat \ {0} /\ p \in Nat \ {0}
        BY <1>1, <2>1
      <4>2. Size(k) \in 2 .. 6
        BY <1>3
      <4>3. Size(l) \in 2 .. 6
        BY <2>1
      <4>4. p >= n /\ p <= n + Size(k) - 1
        BY <2>3, <4>1, <4>2
      <4> QED
        BY <4>1, <4>2, <4>3, <4>4
    <3>2. ~Before(n, k, p) /\ ~Before(p, l, n)
      BY <1>1, <1>2, <2>1, <3>1, Clash
    <3>3. p = n /\ l = k
      BY <1>1, <1>2, <1>4, <1>11, <2>1, <3>2, OldOld
    <3> QED
      BY <1>1, <1>3, <1>10, <3>3
  <2> QED
    BY <1>1, <2>1, <2>2, <2>3
<1>12. ASSUME NEW j \in 1 .. Len(o), ~Covers(o, Hits(t), j) PROVE w[j] = o[j]
  <2>1. j \notin n .. n + Size(k) - 1
    BY <1>4, <1>5, <1>12 DEF Covers
  <2> QED
    BY <1>1, <1>8, <1>12, <2>1
<1>13. ASSUME NEW j \in e .. Len(o) PROVE w[j] = o[j]
  <2>1. j \in 1 .. Len(o) /\ j \in n .. Len(o) /\ j \notin n .. n + Size(k) - 1
    BY <1>1, <1>3
  <2> QED
    BY <1>1, <1>8, <2>1
<1>14. e \in Nat \ {0} /\ e <= Len(o) + 1
  <2>1. n + Size(k) - 1 <= Len(o)
    BY <1>4 DEF Has
  <2>2. n \in Nat \ {0} /\ Size(k) \in Nat \ {0} /\ Len(o) \in Nat
    BY <1>1, <1>3
  <2> QED
    BY <2>1, <2>2
<1> HIDE DEF e
<1>15. Scanned(o, Hits(t), e, w)
  BY <1>9, <1>11, <1>12, <1>13, <1>14 DEF Scanned
<1> QED
  BY <1>15 DEF e, w

-----------------------------------------------------------------------------
(* The runs.                                                                 *)

Running == {"walking", "scanning", "writing", "written"}
KindSets == {{}, {1, 2}, {3}, 1 .. 3}

\* x is f with what some of the tools look for replaced.
Kept(f, x) == \E S \in KindSets : (S = {} \/ f \in Elf) /\ Mix(Original[f], S, x)
\* x is the beginning of f with some patterns replaced.
Torn(f, x) == f \in Elf /\ Begun(Original[f], x) /\ Len(x) < Len(Original[f])

\* The run has no more to do in f.
Passed(f) ==
    f \notin files /\ ~(at \in {"scanning", "writing"} /\ f = fpath)
        => Sizer!Places(disk[f], tool, Old) = {}

DiskInv ==
    /\ disk \in [Files -> Seq(Nat)]
    /\ \A f \in Files : Kept(f, disk[f]) \/ (Torn(f, disk[f]) /\ (f \in cut \/ Sizer!Open(f)))
    /\ at \in Running \cup {"ended"} => \A f \in Elf : Passed(f)

ImageInv ==
    /\ at \in {"scanning", "writing", "written"} => fpath \in Elf /\ fpath \notin files
    /\ at = "scanning" => /\ disk[fpath] # <<>>
                          /\ Scanned(disk[fpath], Hits(tool), i, bin_img)
    /\ at = "writing" => /\ bin_img \in Seq(Nat)
                         /\ Len(disk[fpath]) < Len(bin_img) /\ Starts(disk[fpath], bin_img)
                         /\ Kept(fpath, bin_img) \/ (Torn(fpath, bin_img) /\ fpath \in cut)
                         /\ Sizer!Places(bin_img, tool, Old) = {}
    /\ at = "ended" => files = {}

\* Every stopped write needs a run.
LossInv ==
    /\ cut \subseteq Elf
    /\ Cardinality(cut) + (IF at \in Running THEN 1 ELSE 0) <= runs

SizerInv == Sizer!TypeOK /\ DiskInv /\ ImageInv /\ LossInv

LEMMA SizerTypes ==
    ASSUME SizerInv
    PROVE  /\ tool \in Sizer!Tools /\ files \subseteq Files /\ fpath \in Files
           /\ runs \in 0 .. MaxRuns /\ runs \in Nat /\ i \in 1 .. Len(bin_img) + 1
           /\ disk \in [Files -> Seq(Nat)]
           /\ IsFiniteSet(cut) /\ Cardinality(cut) \in Nat
<1>1. IsFiniteSet(Elf) /\ IsFiniteSet(cut)
  BY SizerConstants, FS_Subset DEF SizerInv, LossInv
<1> QED
  BY <1>1, SizerConstants, FS_CardinalityType DEF SizerInv, Sizer!TypeOK, DiskInv

LEMMA KeptLength ==
    ASSUME NEW f \in Files, NEW x, Kept(f, x)
    PROVE  x \in Seq(Nat) /\ Len(x) = Len(Original[f])
BY DEF Kept, Mix

LEMMA KeptBegins ==
    ASSUME NEW f \in Elf, NEW x, Kept(f, x)
    PROVE  Begun(Original[f], x)
<1>1. Original[f] \in Seq(Nat) /\ Sizer!Apart(Original[f])
  BY SizerConstants
<1>2. PICK S \in KindSets : Mix(Original[f], S, x)
  BY DEF Kept
<1>3. S \in SUBSET (1 .. 3)
  BY DEF KindSets
<1>4. Blend(Original[f], x)
  BY <1>1, <1>2, <1>3, MixBlends
<1>5. Starts(x, x)
  BY <1>2 DEF Starts, Mix
<1> QED
  BY <1>4, <1>5 DEF Begun

LEMMA SizerBegins == Sizer!Init => SizerInv
<1> SUFFICES ASSUME Sizer!Init PROVE SizerInv
  OBVIOUS
<1>1. /\ disk = Original /\ cut = {} /\ tool = "code" /\ files = {} /\ runs = 0 /\ at = "idle"
      /\ fpath \in Files /\ bin_img = <<>> /\ i = 1
  BY SizerConstants DEF Sizer!Init
<1>2. Sizer!TypeOK
  BY <1>1, SizerConstants DEF Sizer!TypeOK, Sizer!Tools
<1>3. DiskInv
  <2>1. ASSUME NEW f \in Files PROVE Kept(f, disk[f])
    <3>1. Original[f] \in Seq(Nat)
      BY SizerConstants
    <3>2. Mix(Original[f], {}, disk[f])
      BY <1>1, <3>1, MixNone
    <3> QED
      BY <3>2 DEF Kept, KindSets
  <2> QED
    BY <1>1, <2>1, SizerConstants DEF DiskInv, Running
<1>4. ImageInv
  BY <1>1 DEF ImageInv
<1>5. LossInv
  BY <1>1, FS_EmptySet DEF LossInv, Running
<1> QED
  BY <1>2, <1>3, <1>4, <1>5 DEF SizerInv

LEMMA SizerStays == SizerInv /\ UNCHANGED sizervars => SizerInv'
<1> SUFFICES ASSUME SizerInv, UNCHANGED sizervars PROVE SizerInv'
  OBVIOUS
<1>1. /\ disk' = disk /\ cut' = cut /\ tool' = tool /\ files' = files /\ fpath' = fpath
      /\ bin_img' = bin_img /\ i' = i /\ at' = at /\ runs' = runs
  BY DEF sizervars
<1>2. Sizer!TypeOK'
  BY <1>1 DEF SizerInv, Sizer!TypeOK
<1>3. DiskInv'
  BY <1>1 DEF SizerInv, DiskInv, Passed, Sizer!Open
<1>4. ImageInv'
  BY <1>1 DEF SizerInv, ImageInv
<1>5. LossInv'
  BY <1>1 DEF SizerInv, LossInv
<1> QED
  BY <1>2, <1>3, <1>4, <1>5 DEF SizerInv

LEMMA StartKeeps == ASSUME SizerInv, NEW t \in Sizer!Tools, Sizer!Start(t) PROVE SizerInv'
<1>1. /\ at = "idle" /\ runs < MaxRuns /\ tool' = t /\ files' = Files /\ runs' = runs + 1
      /\ at' = "walking" /\ disk' = disk /\ cut' = cut /\ fpath' = fpath
      /\ bin_img' = bin_img /\ i' = i
  BY DEF Sizer!Start, Sizer!fileVars
<1>2. Sizer!TypeOK'
  BY <1>1, SizerTypes, SizerConstants DEF SizerInv, Sizer!TypeOK
<1>3. DiskInv'
  BY <1>1, SizerConstants DEF SizerInv, DiskInv, Passed, Sizer!Open
<1>4. ImageInv'
  BY <1>1 DEF ImageInv
<1>5. LossInv'
  BY <1>1, SizerTypes DEF SizerInv, LossInv, Running
<1> QED
  BY <1>2, <1>3, <1>4, <1>5 DEF SizerInv

LEMMA NothingInNothing == ASSUME NEW t PROVE Sizer!Places(<<>>, t, Old) = {}
BY DEF Sizer!Places

LEMMA SkipKeeps == ASSUME SizerInv, NEW f \in Files, Sizer!Skip(f) PROVE SizerInv'
<1>1. /\ at = "walking" /\ f \in files /\ (f \notin Elf \/ disk[f] = <<>>)
      /\ files' = files \ {f} /\ disk' = disk /\ cut' = cut /\ tool' = tool /\ runs' = runs
      /\ fpath' = fpath /\ bin_img' = bin_img /\ i' = i /\ at' = at
  BY DEF Sizer!Skip, Sizer!fileVars
<1>2. Sizer!TypeOK'
  BY <1>1 DEF SizerInv, Sizer!TypeOK
<1>3. DiskInv'
  <2>1. \A g \in Elf : Passed(g)
    BY <1>1 DEF SizerInv, DiskInv, Running
  <2>2. ASSUME NEW g \in Elf PROVE Passed(g)'
    BY <1>1, <2>1, NothingInNothing DEF Passed
  <2> QED
    BY <1>1, <2>2 DEF SizerInv, DiskInv, Sizer!Open
<1>4. ImageInv'
  BY <1>1 DEF ImageInv
<1>5. LossInv'
  BY <1>1 DEF SizerInv, LossInv
<1> QED
  BY <1>2, <1>3, <1>4, <1>5 DEF SizerInv

LEMMA ReadKeeps == ASSUME SizerInv, NEW f \in Files, Sizer!Read(f) PROVE SizerInv'
<1>1. /\ at = "walking" /\ f \in files /\ f \in Elf /\ disk[f] # <<>>
      /\ files' = files \ {f} /\ fpath' = f /\ bin_img' = disk[f] /\ i' = 1
      /\ at' = "scanning" /\ disk' = disk /\ cut' = cut /\ tool' = tool /\ runs' = runs
  BY DEF Sizer!Read
<1>2. Sizer!TypeOK'
  <2>1. Len(disk[f]) \in Nat
    BY SizerTypes
  <2> QED
    BY <1>1, <2>1, SizerTypes DEF SizerInv, Sizer!TypeOK
<1>3. DiskInv'
  <2>1. \A g \in Elf : Passed(g)
    BY <1>1 DEF SizerInv, DiskInv, Running
  <2>2. ASSUME NEW g \in Elf PROVE Passed(g)'
    BY <1>1, <2>1 DEF Passed
  <2> QED
    BY <1>1, <2>2 DEF SizerInv, DiskInv, Sizer!Open
<1>4. ImageInv'
  <2>1. Scanned(disk[f], Hits(tool), 1, disk[f])
    BY SizerTypes, ScanBegins
  <2> QED
    BY <1>1, <2>1 DEF ImageInv
<1>5. LossInv'
  BY <1>1 DEF SizerInv, LossInv, Running
<1> QED
  BY <1>2, <1>3, <1>4, <1>5 DEF SizerInv

\* One turn of the scan.
LEMMA TurnKeeps ==
    ASSUME NEW o \in Seq(Nat), SizerInv, Scanned(o, Hits(tool), i, bin_img), Sizer!Scan
    PROVE  Scanned(o, Hits(tool), i', bin_img')
<1> DEFINE old == Sizer!Patterns(tool, Old)
           new == Sizer!Patterns(tool, New)
           hits == {k \in DOMAIN old : Sizer!is_matching(bin_img, i, old[k])}
           first == CHOOSE k \in hits : \A l \in hits : k <= l
<1>1. IF hits = {}
      THEN i' = i + 1 /\ bin_img' = bin_img
      ELSE bin_img' = Sizer!Modified(bin_img, i, new[first]) /\ i' = i + Len(old[first])
  BY DEF Sizer!Scan
<1>2. tool \in Sizer!Tools /\ Hits(tool) \in SUBSET (1 .. 3)
  BY SizerTypes, ToolPatterns
<1>3. i \in Nat \ {0} /\ bin_img \in Seq(Nat) /\ Len(bin_img) = Len(o)
  BY DEF Scanned
<1>4. i <= Len(o)
  <2>1. i - 1 <= Len(bin_img) - Sizer!Shortest(tool)
    BY DEF Sizer!Scan, Sizer!InImage
  <2>2. Sizer!Shortest(tool) \in Nat \ {0}
    BY DEF Sizer!Shortest, Sizer!prolog, Sizer!global_stack_size
  <2> QED
    BY <1>3, <2>1, <2>2
<1>5. hits = {k \in Columns(tool) : Has(bin_img, i, Kind(tool, k), Old)}
  <2>1. DOMAIN old = Columns(tool)
    BY <1>2, ToolPatterns
  <2>2. \A k \in Columns(tool) :
            Sizer!is_matching(bin_img, i, old[k]) <=> Has(bin_img, i, Kind(tool, k), Old)
    BY <1>2, <1>3, Matching
  <2> QED
    BY <2>1, <2>2
<1> HIDE DEF old, new, hits
<1>6. CASE hits = {}
  <2>1. \A k \in Hits(tool) : ~Has(bin_img, i, k, Old)
    BY <1>2, <1>5, <1>6, ToolPatterns
  <2> QED
    BY <1>1, <1>2, <1>4, <1>6, <2>1, ScanMisses
<1>7. CASE hits # {}
  <2>1. \E k \in hits : \A l \in hits : k <= l
    <3>1. hits \subseteq {1, 2}
      BY <1>5 DEF Columns
    <3>2. CASE 1 \in hits
      BY <3>1, <3>2
    <3>3. CASE 1 \notin hits
      <4>1. hits = {2}
        BY <1>7, <3>1, <3>3
      <4> QED
        BY <4>1
    <3> QED
      BY <3>2, <3>3
  <2>2. first \in hits
    BY <2>1
  <2> HIDE DEF first
  <2>3. /\ first \in Columns(tool) /\ Kind(tool, first) \in Hits(tool)
        /\ Has(bin_img, i, Kind(tool, first), Old) /\ Kind(tool, first) \in 1 .. 3
        /\ new[first] = Pat(Kind(tool, first), New)
        /\ old[first] = Pat(Kind(tool, first), Old)
    BY <1>2, <1>5, <2>2, ToolPatterns DEF new, old
  <2>4. Len(old[first]) = Size(Kind(tool, first))
    BY <2>3, PatternFields
  <2>5. Scanned(o, Hits(tool), i + Size(Kind(tool, first)),
                Sizer!Modified(bin_img, i, Pat(Kind(tool, first), New)))
    BY <1>2, <2>3, ScanHits
  <2> QED
    BY <1>1, <1>7, <2>3, <2>4, <2>5 DEF first
<1> QED
  BY <1>6, <1>7

LEMMA ScanKeeps == ASSUME SizerInv, Sizer!Scan PROVE SizerInv'
<1>1. /\ at = "scanning" /\ disk' = disk /\ tool' = tool /\ files' = files /\ runs' = runs
      /\ fpath' = fpath /\ at' = at /\ cut' = cut
  BY DEF Sizer!Scan, Sizer!runVars
<1>2. Scanned(disk[fpath], Hits(tool), i', bin_img')
  <2>1. disk[fpath] \in Seq(Nat) /\ Scanned(disk[fpath], Hits(tool), i, bin_img)
    BY <1>1, SizerTypes DEF SizerInv, ImageInv
  <2> QED
    BY <2>1, TurnKeeps
<1>3. Sizer!TypeOK'
  <2>1. /\ i' \in Nat \ {0} /\ i' <= Len(disk[fpath]) + 1 /\ Len(bin_img') = Len(disk[fpath])
        /\ bin_img' \in Seq(Nat)
    BY <1>2 DEF Scanned
  <2>2. i' \in 1 .. Len(bin_img') + 1
    BY <2>1
  <2> QED
    BY <1>1, <2>2 DEF SizerInv, Sizer!TypeOK
<1>4. DiskInv'
  BY <1>1 DEF SizerInv, DiskInv, Passed, Sizer!Open
<1>5. ImageInv'
  BY <1>1, <1>2 DEF SizerInv, ImageInv
<1>6. LossInv'
  BY <1>1 DEF SizerInv, LossInv
<1> QED
  BY <1>3, <1>4, <1>5, <1>6 DEF SizerInv

\* A run adds what its tool looks for to what is replaced.
LEMMA KeptTwice ==
    ASSUME NEW f \in Elf, NEW t \in Sizer!Tools, NEW x, NEW y,
           Kept(f, x), Mix(x, Hits(t), y)
    PROVE  Kept(f, y)
<1>1. PICK S \in KindSets : Mix(Original[f], S, x)
  BY DEF Kept
<1>2. Original[f] \in Seq(Nat) /\ Sizer!Apart(Original[f])
  BY SizerConstants
<1>3. Hits(t) \in SUBSET (1 .. 3) /\ S \in SUBSET (1 .. 3)
  BY ToolPatterns DEF KindSets
<1>4. Mix(Original[f], S \cup Hits(t), y)
  BY <1>1, <1>2, <1>3, MixTwice
<1>5. S \cup Hits(t) \in KindSets
  <2>1. 1 .. 3 = {1, 2, 3}
    OBVIOUS
  <2>2. \A T \in {{1, 2}, {3}} : S \cup T \in KindSets
    BY <2>1 DEF KindSets
  <2> QED
    BY <2>2 DEF Hits
<1> QED
  BY <1>4, <1>5 DEF Kept

\* A run over a torn file leaves a torn file.
LEMMA TornTwice ==
    ASSUME NEW f \in Elf, NEW t \in Sizer!Tools, NEW x, NEW y,
           Torn(f, x), Mix(x, Hits(t), y)
    PROVE  Torn(f, y)
<1>1. Original[f] \in Seq(Nat) /\ Sizer!Apart(Original[f])
  BY SizerConstants
<1>2. Hits(t) \in SUBSET (1 .. 3)
  BY ToolPatterns
<1>3. Begun(Original[f], y)
  BY <1>1, <1>2, BegunMixes DEF Torn
<1> QED
  BY <1>3 DEF Torn, Mix

LEMMA TruncateKeeps == ASSUME SizerInv, Sizer!Truncate PROVE SizerInv'
<1>1. /\ at = "scanning" /\ ~(i - 1 <= Len(bin_img) - Sizer!Shortest(tool))
      /\ disk' = [disk EXCEPT ![fpath] = <<>>] /\ at' = "writing"
      /\ tool' = tool /\ files' = files /\ runs' = runs /\ cut' = cut
      /\ fpath' = fpath /\ bin_img' = bin_img /\ i' = i
  BY DEF Sizer!Truncate, Sizer!InImage, Sizer!runVars, Sizer!fileVars
<1>2. /\ fpath \in Elf /\ fpath \notin files /\ disk[fpath] # <<>> /\ fpath \in Files
      /\ Scanned(disk[fpath], Hits(tool), i, bin_img)
      /\ disk[fpath] \in Seq(Nat) /\ tool \in Sizer!Tools
  BY <1>1, SizerTypes DEF SizerInv, ImageInv
<1>3. Mix(disk[fpath], Hits(tool), bin_img)
  BY <1>1, <1>2, ScanEnds
<1>4. Kept(fpath, disk[fpath]) \/ (Torn(fpath, disk[fpath]) /\ fpath \in cut)
  BY <1>1, <1>2 DEF SizerInv, DiskInv, Sizer!Open
<1>5. Kept(fpath, bin_img) \/ (Torn(fpath, bin_img) /\ fpath \in cut)
  BY <1>2, <1>3, <1>4, KeptTwice, TornTwice
<1>6. bin_img \in Seq(Nat) /\ Len(bin_img) = Len(disk[fpath]) /\ 0 < Len(disk[fpath])
  BY <1>2 DEF Scanned
<1>7. disk' \in [Files -> Seq(Nat)] /\ disk'[fpath] = <<>>
      /\ \A f \in Files : f # fpath => disk'[f] = disk[f]
  BY <1>1, <1>2, SizerTypes
<1>8. Torn(fpath, <<>>)
  <2>1. Begun(Original[fpath], bin_img)
    BY <1>2, <1>5, KeptBegins DEF Torn
  <2>2. Begun(Original[fpath], <<>>)
    <3>1. <<>> \in Seq(Nat) /\ Len(<<>>) = 0
      OBVIOUS
    <3>2. Len(<<>>) <= Len(bin_img) /\ \A j \in 1 .. Len(<<>>) : <<>>[j] = bin_img[j]
      BY <1>6, <3>1
    <3> QED
      BY <2>1, <3>1, <3>2, BegunShorter
  <2>3. Len(bin_img) <= Len(Original[fpath])
    <3>1. Original[fpath] \in Seq(Nat)
      BY <1>2, SizerConstants
    <3> QED
      BY <1>2, <1>5, <1>6, <3>1, KeptLength DEF Torn
  <2>4. Len(Original[fpath]) \in Nat
    BY <1>2, SizerConstants
  <2> QED
    BY <1>2, <1>6, <2>2, <2>3, <2>4 DEF Torn
<1>9. Sizer!TypeOK'
  BY <1>1 DEF SizerInv, Sizer!TypeOK
<1>10. DiskInv'
  <2>1. ASSUME NEW f \in Files
        PROVE  Kept(f, disk'[f]) \/ (Torn(f, disk'[f]) /\ (f \in cut' \/ Sizer!Open(f)'))
    BY <1>1, <1>7, <1>8 DEF SizerInv, DiskInv, Sizer!Open
  <2>2. \A f \in Elf : Passed(f)
    BY <1>1 DEF SizerInv, DiskInv, Running
  <2>3. ASSUME NEW f \in Elf PROVE Passed(f)'
    <3>1. f \in Files
      BY SizerConstants
    <3> QED
      BY <1>1, <1>7, <2>2, <3>1 DEF Passed
  <2> QED
    BY <1>7, <2>1, <2>3 DEF DiskInv
<1>11. ImageInv'
  <2>1. Sizer!Places(bin_img, tool, Old) = {}
    BY <1>2, <1>3, NothingLeft
  <2>2. Starts(disk'[fpath], bin_img) /\ Len(disk'[fpath]) < Len(bin_img)
    BY <1>6, <1>7 DEF Starts
  <2> QED
    BY <1>1, <1>2, <1>5, <1>6, <2>1, <2>2 DEF ImageInv
<1>12. LossInv'
  BY <1>1 DEF SizerInv, LossInv, Running
<1> QED
  BY <1>9, <1>10, <1>11, <1>12 DEF SizerInv

LEMMA PartIsWritten == ASSUME SizerInv, Sizer!Write PROVE SizerInv'
<1> DEFINE n == Len(disk[fpath]) + 1
           part1 == SubSeq(bin_img, 1, n)
<1>1. /\ at = "writing" /\ disk' = [disk EXCEPT ![fpath] = part1]
      /\ at' = IF part1 = bin_img THEN "written" ELSE "writing"
      /\ tool' = tool /\ files' = files /\ runs' = runs /\ cut' = cut
      /\ fpath' = fpath /\ bin_img' = bin_img /\ i' = i
  BY DEF Sizer!Write, Sizer!runVars, Sizer!fileVars
<1>2. /\ fpath \in Elf /\ fpath \notin files /\ fpath \in Files /\ bin_img \in Seq(Nat)
      /\ Len(disk[fpath]) < Len(bin_img) /\ Starts(disk[fpath], bin_img)
      /\ Kept(fpath, bin_img) \/ (Torn(fpath, bin_img) /\ fpath \in cut)
      /\ Sizer!Places(bin_img, tool, Old) = {} /\ disk[fpath] \in Seq(Nat)
  BY <1>1, SizerTypes DEF SizerInv, ImageInv
<1>3. n \in 0 .. Len(bin_img)
  BY <1>2
<1> HIDE DEF n
<1>4. part1 \in Seq(Nat) /\ Len(part1) = n /\ \A j \in 1 .. n : part1[j] = bin_img[j]
  BY <1>2, <1>3, FirstFields
<1> HIDE DEF part1
<1>5. Starts(part1, bin_img)
  BY <1>3, <1>4 DEF Starts
<1>6. part1 = bin_img <=> n = Len(bin_img)
  BY <1>2, <1>4, SameSequence
<1>7. disk' \in [Files -> Seq(Nat)] /\ disk'[fpath] = part1
      /\ \A f \in Files : f # fpath => disk'[f] = disk[f]
  BY <1>1, <1>2, <1>4, SizerTypes
<1>8. ASSUME part1 # bin_img PROVE Torn(fpath, part1)
  <2>1. Begun(Original[fpath], bin_img)
    BY <1>2, KeptBegins DEF Torn
  <2>2. Begun(Original[fpath], part1)
    BY <1>3, <1>4, <2>1, BegunShorter
  <2>3. Original[fpath] \in Seq(Nat)
    BY <1>2, SizerConstants
  <2>4. Len(bin_img) <= Len(Original[fpath])
    BY <1>2, <2>3, KeptLength DEF Torn
  <2>5. n < Len(Original[fpath])
    BY <1>2, <1>3, <1>6, <1>8, <2>3, <2>4
  <2> QED
    BY <1>2, <1>4, <2>2, <2>5 DEF Torn
<1>9. Sizer!TypeOK'
  BY <1>1 DEF SizerInv, Sizer!TypeOK
<1>10. DiskInv'
  <2>1. Kept(fpath, part1) \/ (Torn(fpath, part1) /\ (fpath \in cut' \/ Sizer!Open(fpath)'))
    BY <1>1, <1>2, <1>8 DEF Sizer!Open
  <2>2. ASSUME NEW f \in Files
        PROVE  Kept(f, disk'[f]) \/ (Torn(f, disk'[f]) /\ (f \in cut' \/ Sizer!Open(f)'))
    BY <1>1, <1>7, <2>1 DEF SizerInv, DiskInv, Sizer!Open
  <2>3. \A f \in Elf : Passed(f)
    BY <1>1 DEF SizerInv, DiskInv, Running
  <2>4. ASSUME NEW f \in Elf PROVE Passed(f)'
    <3>1. f \in Files
      BY SizerConstants
    <3> QED
      BY <1>1, <1>2, <1>7, <2>3, <3>1 DEF Passed
  <2> QED
    BY <1>7, <2>2, <2>4 DEF DiskInv
<1>11. ImageInv'
  <2>1. at' = "writing" => Len(disk'[fpath]) < Len(bin_img)
    BY <1>1, <1>2, <1>3, <1>4, <1>6, <1>7
  <2> QED
    BY <1>1, <1>2, <1>5, <1>7, <2>1 DEF ImageInv
<1>12. LossInv'
  BY <1>1 DEF SizerInv, LossInv, Running
<1> QED
  BY <1>9, <1>10, <1>11, <1>12 DEF SizerInv

LEMMA LimitKeeps == ASSUME SizerInv, Sizer!CheckLimit PROVE SizerInv'
<1>1. /\ at = "written" /\ at' \in {"exception", "walking"} /\ disk' = disk /\ cut' = cut
      /\ tool' = tool /\ files' = files /\ runs' = runs
      /\ fpath' = fpath /\ bin_img' = bin_img /\ i' = i
  BY DEF Sizer!CheckLimit, Sizer!runVars, Sizer!fileVars
<1>2. Sizer!TypeOK'
  BY <1>1 DEF SizerInv, Sizer!TypeOK
<1>3. DiskInv'
  BY <1>1 DEF SizerInv, DiskInv, Passed, Running, Sizer!Open
<1>4. ImageInv'
  BY <1>1 DEF ImageInv
<1>5. LossInv'
  BY <1>1, SizerTypes DEF SizerInv, LossInv, Running
<1> QED
  BY <1>2, <1>3, <1>4, <1>5 DEF SizerInv

LEMMA EndKeeps == ASSUME SizerInv, Sizer!End PROVE SizerInv'
<1>1. /\ at = "walking" /\ files = {} /\ at' = "ended" /\ disk' = disk /\ cut' = cut
      /\ tool' = tool /\ files' = files /\ runs' = runs
      /\ fpath' = fpath /\ bin_img' = bin_img /\ i' = i
  BY DEF Sizer!End, Sizer!runVars, Sizer!fileVars
<1>2. Sizer!TypeOK'
  BY <1>1 DEF SizerInv, Sizer!TypeOK
<1>3. DiskInv'
  BY <1>1 DEF SizerInv, DiskInv, Passed, Running, Sizer!Open
<1>4. ImageInv'
  BY <1>1 DEF ImageInv
<1>5. LossInv'
  BY <1>1, SizerTypes DEF SizerInv, LossInv, Running
<1> QED
  BY <1>2, <1>3, <1>4, <1>5 DEF SizerInv

\* What is stopped in the middle of a write is counted.
LEMMA StopKeeps ==
    ASSUME SizerInv, Sizer!Killed \/ Sizer!Again \/ Sizer!DiskFull PROVE SizerInv'
<1>1. /\ at' \in {"idle", "exception"} /\ disk' = disk
      /\ tool' = tool /\ files' = files /\ runs' = runs /\ fpath' = fpath
  BY DEF Sizer!Killed, Sizer!Again, Sizer!DiskFull, Sizer!runVars, Sizer!fileVars
<1>2. cut' = IF at = "writing" THEN cut \cup {fpath} ELSE cut
  BY DEF Sizer!Killed, Sizer!Again, Sizer!DiskFull
<1>3. fpath \in Files /\ cut \subseteq Elf /\ Elf \subseteq Files
      /\ (at = "writing" => fpath \in Elf)
  BY SizerTypes, SizerConstants DEF SizerInv, LossInv, ImageInv
<1>4. Sizer!TypeOK'
  <2>1. i' \in 1 .. Len(bin_img') + 1
    BY DEF Sizer!Killed, Sizer!Again, Sizer!DiskFull, Sizer!fileVars, SizerInv, Sizer!TypeOK
  <2>2. cut' \subseteq Files
    BY <1>2, <1>3
  <2> QED
    BY <1>1, <2>1, <2>2 DEF SizerInv, Sizer!TypeOK
<1>5. DiskInv'
  BY <1>1, <1>2 DEF SizerInv, DiskInv, Running, Sizer!Open
<1>6. ImageInv'
  BY <1>1 DEF ImageInv
<1>7. LossInv'
  <2>1. IsFiniteSet(cut) /\ Cardinality(cut) \in Nat /\ runs \in Nat
    BY SizerTypes
  <2>2. Cardinality(cut \cup {fpath}) <= Cardinality(cut) + 1
        /\ Cardinality(cut \cup {fpath}) \in Nat
    <3>1. Cardinality(cut \cup {fpath})
              = IF fpath \in cut THEN Cardinality(cut) ELSE Cardinality(cut) + 1
      BY <2>1, FS_AddElement
    <3> QED
      BY <2>1, <3>1
  <2>3. Cardinality(cut') <= runs
    BY <1>2, <2>1, <2>2 DEF SizerInv, LossInv, Running
  <2>4. cut' \subseteq Elf
    BY <1>2, <1>3
  <2>5. at' \notin Running
    BY <1>1 DEF Running
  <2>6. Cardinality(cut') + 0 <= runs
    BY <1>2, <2>1, <2>2, <2>3
  <2> QED
    BY <1>1, <2>4, <2>5, <2>6 DEF LossInv
<1> QED
  BY <1>4, <1>5, <1>6, <1>7 DEF SizerInv

LEMMA SizerNext == SizerInv /\ [Sizer!Next]_sizervars => SizerInv'
BY SizerStays, StartKeeps, SkipKeeps, ReadKeeps, ScanKeeps, TruncateKeeps, PartIsWritten,
   LimitKeeps, EndKeeps, StopKeeps DEF Sizer!Next

\* A torn file shows each pattern as it was or as it should be.
LEMMA TornShows ==
    ASSUME SizerInv, NEW f \in Files, Torn(f, disk[f]) PROVE Sizer!Beginning(f)
<1> DEFINE o == Original[f]
           x == disk[f]
           found == {w \in Sizer!Tools \X ((1 .. 2) \X DOMAIN Original[f]) :
                        w[2] \in Sizer!Places(Original[f], w[1], Old)}
<1>1. /\ o \in Seq(Nat) /\ x \in Seq(Nat) /\ Len(x) < Len(o)
      /\ DOMAIN o = 1 .. Len(o) /\ DOMAIN x = 1 .. Len(x)
  BY SizerConstants, SizerTypes DEF Torn
<1>2. PICK z : Blend(o, z) /\ Starts(x, z)
  BY DEF Torn, Begun
<1>3. ASSUME NEW t \in Sizer!Tools, NEW m \in Columns(t)
      PROVE  /\ Kind(t, m) \in 1 .. 3 /\ m \in 1 .. 2 /\ m \in DOMAIN Sizer!Patterns(t, Old)
             /\ \A c \in {Old, New} :
                   /\ Sizer!Patterns(t, c)[m] = Pat(Kind(t, m), c)
                   /\ Len(Sizer!Patterns(t, c)[m]) = Size(Kind(t, m))
                   /\ DOMAIN Sizer!Patterns(t, c)[m] = 1 .. Size(Kind(t, m))
  <2>1. Kind(t, m) \in 1 .. 3 /\ m \in 1 .. 2
    BY ToolPatterns DEF Columns
  <2>2. m \in DOMAIN Sizer!Patterns(t, Old)
    BY ToolPatterns
  <2>3. ASSUME NEW c \in {Old, New}
        PROVE  /\ Sizer!Patterns(t, c)[m] = Pat(Kind(t, m), c)
               /\ Pat(Kind(t, m), c) \in Seq(Nat) /\ Len(Pat(Kind(t, m), c)) = Size(Kind(t, m))
    <3>1. Sizer!Patterns(t, c)[m] = Pat(Kind(t, m), c)
      BY ToolPatterns
    <3>2. Pat(Kind(t, m), c) \in Seq(Nat) /\ Len(Pat(Kind(t, m), c)) = Size(Kind(t, m))
      BY <2>1, PatternFields
    <3> QED
      BY <3>1, <3>2
  <2> QED
    BY <2>1, <2>2, <2>3
<1>4. ASSUME NEW w \in found
      PROVE  Sizer!Shows(f, w[1], w[2], Old) \/ Sizer!Shows(f, w[1], w[2], New)
  <2> DEFINE t == w[1]
             m == w[2][1]
             p == w[2][2]
             k == Kind(t, m)
  <2>1. t \in Sizer!Tools /\ m \in Columns(t) /\ p \in DOMAIN o
        /\ Sizer!is_matching(o, p, Sizer!Patterns(t, Old)[m])
    BY <1>4, ToolPatterns DEF Sizer!Places
  <2>2. p \in 1 .. Len(o) /\ p \in Nat \ {0} /\ k \in 1 .. 3
    BY <1>1, <1>3, <2>1
  <2>3. Has(o, p, k, Old)
    BY <2>1, <2>2, Matching
  <2>4. PICK c \in {Old, New} : Has(z, p, k, c)
    BY <1>2, <2>2, <2>3 DEF Blend
  <2> HIDE DEF found
  <2>5. ASSUME NEW r \in 1 .. Size(k), p + r - 1 \in DOMAIN x
        PROVE  x[p + r - 1] = Pat(k, c)[r]
    <3>1. x[p + r - 1] = z[p + r - 1]
      BY <1>1, <1>2, <2>5 DEF Starts
    <3> QED
      BY <2>4, <3>1 DEF Has
  <2>6. Sizer!Patterns(t, c)[m] = Pat(k, c) /\ DOMAIN Sizer!Patterns(t, c)[m] = 1 .. Size(k)
    BY <1>3, <2>1
  <2>7. Sizer!Shows(f, t, w[2], c)
    BY <2>5, <2>6 DEF Sizer!Shows
  <2> QED
    BY <2>7
<1>5. ASSUME NEW j \in DOMAIN x, x[j] # o[j]
      PROVE  \E w \in found : Sizer!Covers(w[1], w[2], j)
  <2>1. j \in 1 .. Len(o) /\ z[j] # o[j]
    BY <1>1, <1>2, <1>5 DEF Starts
  <2>2. PICK k \in 1 .. 3, p \in 1 .. Len(o) :
            Has(o, p, k, Old) /\ j \in p .. p + Size(k) - 1
    BY <1>2, <2>1 DEF Blend, Covers
  <2>3. PICK t \in Sizer!Tools : \E m \in Columns(t) : Kind(t, m) = k
    <3>1. "code" \in Sizer!Tools /\ "data" \in Sizer!Tools
      BY DEF Sizer!Tools
    <3>2. k \in {1, 2, 3}
      OBVIOUS
    <3> QED
      BY <3>1, <3>2 DEF Columns, Kind
  <2>9. PICK m \in Columns(t) : Kind(t, m) = k
    BY <2>3
  <2>4. p \in Nat \ {0}
    OBVIOUS
  <2>5. Sizer!is_matching(o, p, Sizer!Patterns(t, Old)[m])
    BY <2>2, <2>4, <2>9, Matching
  <2>6. <<m, p>> \in Sizer!Places(o, t, Old)
    BY <1>1, <1>3, <2>5 DEF Sizer!Places
  <2>7. <<t, <<m, p>>>> \in found
    BY <1>1, <1>3, <2>6
  <2>8. Sizer!Covers(t, <<m, p>>, j)
    BY <1>3, <2>2, <2>9 DEF Sizer!Covers
  <2> QED
    BY <2>7, <2>8
<1> QED
  BY <1>1, <1>4, <1>5 DEF Sizer!Beginning

LEMMA RunsAreInOrder == SizerInv => Sizer!FilesInOrder
<1> SUFFICES ASSUME SizerInv PROVE Sizer!FilesInOrder
  OBVIOUS
<1>1. Sizer!TypeOK
  BY DEF SizerInv
<1>2. Sizer!AllOrNothing
  <2>1. ASSUME NEW f \in Files, Kept(f, disk[f]), disk[f] # Original[f]
        PROVE  f \in Elf /\ disk[f] \in Sizer!Stages(f)
    <3>1. PICK S \in KindSets : (S = {} \/ f \in Elf) /\ Mix(Original[f], S, disk[f])
      BY <2>1 DEF Kept
    <3>2. ASSUME S = {} PROVE FALSE
      <4>1. Original[f] \in Seq(Nat) /\ Mix(Original[f], {}, disk[f])
        BY <3>1, <3>2, SizerConstants
      <4> QED
        BY <2>1, <4>1, MixNone
    <3>3. f \in Elf /\ S \in {{1, 2}, {3}, 1 .. 3}
      BY <3>1, <3>2 DEF KindSets
    <3> QED
      BY <3>1, <3>3, StagesReached
  <2>2. ASSUME NEW f \in Files, Torn(f, disk[f]), f \in cut \/ Sizer!Open(f)
        PROVE  f \in Elf /\ Sizer!Beginning(f)
    BY <2>2, TornShows DEF Torn
  <2> QED
    BY <2>1, <2>2 DEF SizerInv, DiskInv, Sizer!AllOrNothing
<1>3. Sizer!EndedIsComplete
  BY DEF SizerInv, DiskInv, ImageInv, Passed, Sizer!EndedIsComplete
<1>4. Sizer!OneLossPerRun
  <2> DEFINE lost == {f \in Files : Len(disk[f]) < Len(Original[f]) /\ ~Sizer!Open(f)}
  <2>1. ASSUME NEW f \in lost PROVE f \in cut
    <3>1. Len(Original[f]) \in Nat
      BY SizerConstants
    <3>2. ~Kept(f, disk[f])
      BY <3>1, KeptLength
    <3> QED
      BY <3>2 DEF SizerInv, DiskInv
  <2> HIDE DEF lost
  <2>2. Cardinality(lost) <= Cardinality(cut) /\ Cardinality(lost) \in Nat
    BY <2>1, SizerTypes, FS_Subset, FS_CardinalityType
  <2>3. Cardinality(cut) <= runs
    BY SizerTypes DEF SizerInv, LossInv
  <2>4. Cardinality(lost) <= runs
    BY <2>2, <2>3, SizerTypes
  <2>5. Sizer!Cardinality(lost) = Cardinality(lost)
    BY DEF Cardinality, Sizer!Cardinality
  <2> QED
    BY <2>4, <2>5 DEF Sizer!OneLossPerRun, lost
<1> QED
  BY <1>1, <1>2, <1>3, <1>4 DEF Sizer!FilesInOrder

\* For any number of files of any content in which no prologue runs into the page of the
\* global size, any two sizes and any number of runs, each of which a kill or a full disk may
\* stop at any point, also in the middle of a write: a file has all or nothing of a pass,
\* unless its own write was stopped; of such a file a beginning is left, with every pattern
\* in it whole or as it was; a run that ends leaves no old size, also not in what is left of
\* a torn file; and each run tears at most one (code_rewriter.py 138-240, data_rewriter.py).
THEOREM FilesStayWhole == SpecAll => []FilesInOrder
<1>1. InitAll => SizerInv
  BY SizerBegins DEF InitAll
<1>2. SizerInv /\ [Listing \/ Driving \/ Allocating \/ Sizing]_allvars => SizerInv'
  <2>1. [Listing \/ Driving \/ Allocating \/ Sizing]_allvars => [Sizer!Next]_sizervars
    BY DEF Listing, Driving, Allocating, Sizing, allvars
  <2> QED
    BY <2>1, SizerNext
<1>3. SizerInv => FilesInOrder
  BY RunsAreInOrder DEF FilesInOrder
<1> QED
  BY <1>1, <1>2, <1>3, PTL DEF SpecAll
=============================================================================
