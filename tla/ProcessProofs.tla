----------------------------- MODULE ProcessProofs -----------------------------
(* Theorems about what surrounds the run time in a process, for every value of *)
(* the constants: the placement of a shadow stack (ShadowLayout), a parent and *)
(* its children (ForkRuntime), the filter of system calls (SandboxFilter), the *)
(* handlers of faults (WasmSignals, WasmMach, WasmUnaligned), as MCProcess puts *)
(* them together.                                                              *)
EXTENDS MCProcess, Integers, Sequences, FiniteSets, FiniteSetTheorems, TLAPS

\* What get_memory_at_random has returned.
Placed(b) == b \in Nat /\ b % Region = 0 /\ b <= start + Above - 2 * RealSize

Types ==
    /\ start \in Starts /\ rsp \in Int
    /\ start - Depth <= rsp /\ rsp <= start + Above
    /\ gs \in Int
    /\ pc \in {"init", "set", "run", "move", "go"}

\* gs is a function of the place of the shadow stack and of `start' alone, however
\* often the stack has moved.
GsInv == Running => Placed(ss) /\ gs = ss + Region + UserSpace - start

FreshInv == pc \in {"set", "go"} => Placed(fresh) /\ fresh # ss

MappedInv ==
    /\ pc = "init" => rsp = start /\ mapped = {} /\ ss = NoBase
    /\ pc = "set"  => rsp = start /\ mapped = {fresh} /\ ss = NoBase
    /\ pc \in {"run", "move"} => mapped = {ss}
    /\ pc = "go"   => mapped = {ss, fresh}

IInv == Types /\ GsInv /\ FreshInv /\ MappedInv

-----------------------------------------------------------------------------
(* Arithmetic.                                                               *)

LEMMA Sizes ==
    /\ Region \in Nat \ {0} /\ Extra \in Nat
    /\ MetaIn \in Nat \ {0} /\ MetaIn < Extra /\ Extra <= Region
    /\ Depth \in Nat /\ Above \in Nat /\ Depth < Region /\ Above < MetaIn
    /\ UserSpace \in Nat /\ MaxGs \in Nat /\ UserSpace - Region <= MaxGs
    /\ RealSize \in Nat /\ RealSize = Region + Extra
    BY SizesAssumption, StacksAssumption DEF RealSize

LEMMA Division == \A x \in Int : x = (x \div Region) * Region + (x % Region)
                                 /\ x \div Region \in Int /\ x % Region \in 0 .. Region - 1
<1>1. \A x \in Int : x \div Region \in Int /\ x % Region \in 0 .. Region - 1
    BY Sizes
<1>2. \A x \in Int : x = (x \div Region) * Region + (x % Region)
    BY Sizes, Z3
<1> QED
    BY <1>1, <1>2

\* Two multiples of Region that are less than Region apart are the same.
LEMMA Multiples ==
    ASSUME NEW a \in Int, NEW b \in Int,
           a * Region - b * Region > -Region, a * Region - b * Region < Region
    PROVE  a * Region = b * Region
<1>1. CASE a <= b - 1
    <2>1. a * Region <= (b - 1) * Region
        BY Sizes, <1>1, Z3
    <2>2. (b - 1) * Region = b * Region - Region
        BY Sizes, Z3
    <2> QED
        BY <2>1, <2>2, Sizes
<1>2. CASE a >= b + 1
    <2>1. a * Region >= (b + 1) * Region
        BY Sizes, <1>2, Z3
    <2>2. (b + 1) * Region = b * Region + Region
        BY Sizes, Z3
    <2> QED
        BY <2>1, <2>2, Sizes
<1> QED
    BY <1>1, <1>2

\* An address less than Region above an aligned base is rounded down to that base.
LEMMA Rounding ==
    ASSUME NEW b \in Int, b % Region = 0, NEW x \in Int, b <= x, x < b + Region
    PROVE  RoundDown(x) = b
<1>1. /\ b = (b \div Region) * Region /\ b \div Region \in Int
    BY Division, Sizes
<1>2. /\ x = (x \div Region) * Region + (x % Region)
      /\ x \div Region \in Int /\ x % Region \in 0 .. Region - 1
    BY Division
<1> DEFINE p == (x \div Region) * Region
           q == (b \div Region) * Region
<1>3. p \in Int /\ q \in Int
    BY <1>1, <1>2, Sizes, Z3
<1>4. p - q > -Region /\ p - q < Region
    BY <1>1, <1>2, <1>3, Sizes
<1>5. p = q
    BY <1>4, <1>1, <1>2, Multiples
<1> QED
    BY <1>5, <1>1, <1>2, <1>3 DEF RoundDown

\* The rounding never goes up, and less than Region down.
LEMMA RoundingBounds ==
    ASSUME NEW x \in Int
    PROVE  RoundDown(x) \in Int /\ RoundDown(x) <= x /\ x - Region < RoundDown(x)
    BY Division, Sizes DEF RoundDown

LEMMA StartBounds ==
    ASSUME start \in Starts
    PROVE  start \in Nat /\ start - Depth > 2 * RealSize /\ start + Above < UserSpace
    BY StacksAssumption

\* gs of a thread whose stack is at a legal place passes the test of a move.
LEMMA LegalGs ==
    ASSUME start \in Starts, NEW b, Placed(b)
    PROVE  InRange(b + Region + UserSpace - start)
    BY Sizes, StartBounds DEF Placed, InRange

-----------------------------------------------------------------------------
(* What get_memory_at_random does to the invariant.                          *)

LEMMA HintIsNumber ==
    ASSUME Types, NEW r \in Randoms
    PROVE  Hint(r) \in Int
<1>1. r \in Nat /\ MaxAddr \in Nat \ {0}
    BY SizesAssumption
<1>2. r % MaxAddr \in Nat
    BY <1>1
<1>3. Adjusted \in Nat \ {0}
    BY Sizes, StartBounds DEF Types, Adjusted
<1>4. (r % MaxAddr) % Adjusted \in Nat
    BY <1>2, <1>3
<1> QED
    BY <1>4, RoundingBounds DEF Hint

\* Memory that mmap returns is not the shadow stack that the thread has.
LEMMA ResultIsNew ==
    ASSUME Types, NEW r \in Randoms, NEW b \in Results(Hint(r))
    PROVE  b \in Nat /\ b \notin mapped
<1>1. Hint(r) \in Int
    BY HintIsNumber
<1>2. b \in Int /\ Fits(b)
    BY <1>1, Sizes DEF Results
<1>3. b \in Cells(b, RealSize)
    BY <1>2, Sizes DEF Cells
<1>4. b \notin mapped
    BY <1>2, <1>3 DEF Fits, InUse
<1> QED
    BY <1>2, <1>4 DEF Fits

LEMMA AcceptedIsPlaced ==
    ASSUME Types, NEW b \in Nat, Accepted(b)
    PROVE  Placed(b)
    BY Sizes, StartBounds DEF Types, Accepted, Adjusted, Placed

-----------------------------------------------------------------------------
(* The invariant.                                                            *)

LEMMA InitHolds == Init => IInv
    BY Sizes, StartBounds, StacksAssumption
       DEF Init, IInv, Types, GsInv, FreshInv, MappedInv, Running

LEMMA AttemptKeeps ==
    ASSUME IInv, NEW after, Attempt(after),
           (pc = "init" /\ after = "set") \/ (pc = "move" /\ after = "go")
    PROVE  IInv'
<1> USE DEF Attempt
<1>1. start' = start /\ rsp' = rsp /\ ss' = ss /\ gs' = gs
    OBVIOUS
<1>2. ASSUME UNCHANGED <<mapped, fresh, pc>>
      PROVE  IInv'
    BY <1>1, <1>2 DEF IInv, Types, GsInv, FreshInv, MappedInv, Running, Placed
<1>3. ASSUME NEW r \in Randoms, NEW b \in Results(Hint(r)), ~Accepted(b),
             mapped' = Refused(b), UNCHANGED <<fresh, pc>>
      PROVE  IInv'
    BY <1>1, <1>2, <1>3 DEF Refused
<1>4. ASSUME NEW r \in Randoms, NEW b \in Results(Hint(r)), Accepted(b),
             mapped' = mapped \cup {b}, fresh' = b, pc' = after
      PROVE  IInv'
    <2>1. b \in Nat /\ b \notin mapped /\ Placed(b)
        BY ResultIsNew, AcceptedIsPlaced, <1>4 DEF IInv
    <2>2. b # ss
        BY <2>1 DEF IInv, MappedInv, NoBase
    <2>3. Types' /\ GsInv' /\ FreshInv'
        BY <1>1, <1>4, <2>1, <2>2 DEF IInv, Types, GsInv, FreshInv, Running, Placed
    <2>4. MappedInv'
        BY <1>1, <1>4, <2>1 DEF IInv, MappedInv
    <2> QED
        BY <2>3, <2>4 DEF IInv
<1> QED
    BY <1>2, <1>3, <1>4

LEMMA InitSetKeeps == IInv /\ InitSet => IInv'
    BY Sizes, StartBounds
       DEF IInv, InitSet, InitOffset, Types, GsInv, FreshInv, MappedInv, Running, Placed

LEMMA MoveFinishKeeps ==
    ASSUME IInv, MoveFinish
    PROVE  IInv'
<1>1. Placed(ss) /\ Placed(fresh) /\ fresh # ss /\ mapped = {ss, fresh}
      /\ gs = ss + Region + UserSpace - start /\ Types
    BY DEF IInv, MoveFinish, GsInv, FreshInv, MappedInv, Running
<1>2. NewDiff = fresh + Region + UserSpace - start
    BY <1>1, Sizes, StartBounds DEF NewDiff, Placed, Types
<1>3. InRange(NewDiff)
    BY <1>1, <1>2, LegalGs DEF Types
<1>4. ss' = fresh /\ gs' = NewDiff /\ mapped' = {fresh} /\ pc' = "run"
      /\ start' = start /\ rsp' = rsp
    BY <1>1, <1>3 DEF MoveFinish
<1> QED
    BY <1>1, <1>2, <1>4, Sizes, StartBounds
       DEF IInv, Types, GsInv, FreshInv, MappedInv, Running, Placed

LEMMA NextKeeps == IInv /\ [Next]_vars => IInv'
<1> SUFFICES ASSUME IInv, [Next]_vars PROVE IInv'
    OBVIOUS
<1>1. CASE InitAttempt
    <2>1. pc = "init" /\ Attempt("set")
        BY <1>1 DEF InitAttempt
    <2> QED
        BY <2>1, AttemptKeeps
<1>2. CASE MoveAttempt
    <2>1. pc = "move" /\ Attempt("go")
        BY <1>2 DEF MoveAttempt
    <2> QED
        BY <2>1, AttemptKeeps
<1> USE DEF IInv, Types, GsInv, FreshInv, MappedInv, Running, Placed
<1>3. CASE InitAgain
    BY <1>3 DEF InitAgain
<1>4. CASE InitSet
    BY <1>4, InitSetKeeps
<1>5. CASE Call
    BY <1>5, Sizes, StartBounds DEF Call
<1>6. CASE Return
    BY <1>6, Sizes, StartBounds DEF Return
<1>7. CASE MoveBegin
    BY <1>7 DEF MoveBegin
<1>8. CASE MoveGivesUp
    BY <1>8 DEF MoveGivesUp, AfterGivingUp
<1>9. CASE MoveFinish
    BY <1>9, MoveFinishKeeps
<1>10. CASE UNCHANGED vars
    BY <1>10 DEF vars
<1> QED
    BY <1>1, <1>2, <1>3, <1>4, <1>5, <1>6, <1>7, <1>8, <1>9, <1>10 DEF Next

\* Every reachable state of the placement satisfies IInv (gs.rsp.c 251-345, 515-618).
THEOREM Inductive == Spec => []IInv
    BY InitHolds, NextKeeps, PTL DEF Spec

-----------------------------------------------------------------------------
(* The types of what the invariant above leaves open.                        *)

Bases ==
    /\ tries \in 0 .. MaxAttempts + 1
    /\ ss \in 0 .. UserSpace \cup {NoBase} /\ fresh \in 0 .. UserSpace \cup {NoBase}
    /\ ~Running => gs = 0

LEMMA AttemptKeepsBases ==
    ASSUME IInv, Bases, NEW after, Attempt(after), pc \in {"init", "move"},
           pc = "init" \/ after = "go"
    PROVE  Bases'
<1>1. tries' \in 0 .. MaxAttempts + 1 /\ ss' = ss
    BY SizesAssumption DEF Attempt, OutOfAttempts, Bases
<1>2. ASSUME NEW r \in Randoms, NEW b \in Results(Hint(r))
      PROVE  b \in 0 .. UserSpace
    <2>1. Hint(r) \in Int
        BY <1>2, HintIsNumber DEF IInv
    <2>2. b \in Int /\ Fits(b)
        BY <1>2, <2>1, Sizes DEF Results
    <2> QED
        BY <2>2, Sizes DEF Fits
<1>3. fresh' = fresh \/ \E r \in Randoms : \E b \in Results(Hint(r)) : fresh' = b
    BY DEF Attempt
<1>4. (~Running)' => gs' = 0
    BY DEF Attempt, Bases, Running
<1> QED
    BY <1>1, <1>2, <1>3, <1>4 DEF Bases

LEMMA NextKeepsBases == IInv /\ Bases /\ [Next]_vars => Bases'
<1> SUFFICES ASSUME IInv, Bases, [Next]_vars PROVE Bases'
    OBVIOUS
<1>1. CASE InitAttempt
    <2>1. pc = "init" /\ Attempt("set")
        BY <1>1 DEF InitAttempt
    <2> QED
        BY <2>1, AttemptKeepsBases
<1>2. CASE MoveAttempt
    <2>1. pc = "move" /\ Attempt("go")
        BY <1>2 DEF MoveAttempt
    <2> QED
        BY <2>1, AttemptKeepsBases
<1>3. CASE InitAgain \/ InitSet \/ Call \/ Return \/ MoveBegin \/ MoveGivesUp \/ MoveFinish
    BY <1>3, SizesAssumption
       DEF InitAgain, InitSet, Call, Return, MoveBegin, MoveGivesUp, MoveFinish, Bases,
           Running, AfterGivingUp
<1>4. CASE UNCHANGED vars
    BY <1>4 DEF vars, Bases, Running
<1> QED
    BY <1>1, <1>2, <1>3, <1>4 DEF Next

LEMMA BasesHold == Spec => [](IInv /\ Bases)
<1>1. Init => Bases
    BY SizesAssumption DEF Init, Bases, Running
<1>2. Init => IInv
    BY InitHolds
<1>3. IInv /\ [Next]_vars => IInv'
    BY NextKeeps
<1>4. IInv /\ Bases /\ [Next]_vars => Bases'
    BY NextKeepsBases
<1> QED
    BY <1>1, <1>2, <1>3, <1>4, PTL DEF Spec

-----------------------------------------------------------------------------
(* The properties.                                                           *)

\* From every frame below the one that set the stack up, and from no other, the
\* rounding of get_gs_rsp_metadata_by_rsp (line 170) finds the thread's metadata.
THEOREM MetadataIsFound == Spec => []MetadataFound
<1>1. ASSUME IInv, Running PROVE Found = MetaOf(ss) <=> rsp < start
    <2>1. /\ ss \in Nat /\ ss % Region = 0 /\ start \in Nat /\ rsp \in Int
          /\ start - Depth <= rsp /\ rsp <= start + Above
          /\ Shadow(rsp) = ss + Region + (rsp - start)
        BY <1>1, Sizes, StartBounds DEF IInv, Types, GsInv, Placed, Shadow
    <2>2. Shadow(rsp) \in Int
        BY <2>1, Sizes
    <2>3. CASE rsp < start
        <3>1. RoundDown(Shadow(rsp)) = ss
            BY <2>1, <2>2, <2>3, Sizes, Rounding
        <3> QED
            BY <3>1, <2>3 DEF Found
    <2>4. CASE rsp >= start
        <3>1. RoundDown(Shadow(rsp)) \in Int /\ Shadow(rsp) - Region < RoundDown(Shadow(rsp))
            BY <2>2, RoundingBounds
        <3>2. RoundDown(Shadow(rsp)) > ss
            BY <3>1, <2>1, <2>4, Sizes
        <3> QED
            BY <3>1, <3>2, <2>1, <2>4, Sizes DEF Found, MetaOf
    <2> QED
        BY <2>1, <2>3, <2>4
<1>2. IInv => MetadataFound
    BY <1>1 DEF MetadataFound
<1> QED
    BY <1>2, Inductive, PTL

\* The shadow of every word of the call stack is in the thread's own mapping and clear
\* of its metadata (the layout of lines 73-79).
THEOREM ShadowStaysOwn == Spec => []ShadowIsOwn
<1>1. IInv => ShadowIsOwn
    BY Sizes, StartBounds
       DEF IInv, Types, GsInv, Placed, ShadowIsOwn, CallStack, Shadow, MetaOf, Running
<1> QED
    BY <1>1, Inductive, PTL

\* gs is always a value that ARCH_SET_GS takes, also at the start of a thread, where
\* nobody tests it, and the test of a move (line 555) never fails.
THEOREM GsStaysLegal == Spec => []GsInRange
<1>1. ASSUME IInv PROVE GsInRange
    <2>1. Running => InRange(gs)
        BY <1>1, LegalGs DEF IInv, Types, GsInv
    <2>2. ASSUME pc = "go" PROVE InRange(NewDiff)
        <3>1. /\ Placed(ss) /\ Placed(fresh)
              /\ gs = ss + Region + UserSpace - start /\ start \in Starts
            BY <1>1, <2>2 DEF IInv, Types, GsInv, FreshInv, Running
        <3>2. NewDiff = fresh + Region + UserSpace - start
            BY <3>1, Sizes, StartBounds DEF NewDiff, Placed
        <3> QED
            BY <3>1, <3>2, LegalGs
    <2> QED
        BY <2>1, <2>2 DEF GsInRange
<1> QED
    BY <1>1, Inductive, PTL

\* A thread that runs has one mapping from get_memory_at_random, its shadow stack.
THEOREM NothingIsLeft == Spec => []NothingLeaks
<1>1. IInv => NothingLeaks
    BY DEF IInv, MappedInv, NothingLeaks
<1> QED
    BY <1>1, Inductive, PTL

\* Every variable keeps its type.
THEOREM TypeCorrect == Spec => []TypeOK
<1>1. ASSUME IInv, Bases PROVE TypeOK
    <2>1. start \in Starts /\ rsp \in CallStack /\ pc \in {"init", "set", "run", "move", "go"}
        BY <1>1, Sizes, StartBounds DEF IInv, Types, CallStack
    <2>2. Running => gs \in Nat
        BY <1>1, LegalGs DEF IInv, Types, GsInv, InRange
    <2>3. gs \in Nat
        BY <1>1, <2>2 DEF Bases
    <2>4. mapped \subseteq 0 .. UserSpace
        BY <1>1, <2>1 DEF IInv, MappedInv, GsInv, FreshInv, Placed, Bases, NoBase, Running
    <2> QED
        BY <1>1, <2>1, <2>3, <2>4 DEF TypeOK, Bases
<1> QED
    BY <1>1, BasesHold, PTL

\* A thread's shadow words, its register and its mappings are in order before, in and after
\* every move, whether it succeeds or not (gs.rsp.c 253-345, 515-645).
THEOREM ShadowIsSafe == Spec => []ShadowSafe
    BY TypeCorrect, ShadowStaysOwn, GsStaysLegal, NothingIsLeft, PTL DEF ShadowSafe

-----------------------------------------------------------------------------
(* ForkRuntime: what a parent and its children keep, for any number of        *)
(* threads and entries, any grace period and any width of the time stamps.    *)

USE ForkAssumption

(* The inductive invariant.                                                  *)

\* Whoever is between pthread_mutex_lock and pthread_mutex_unlock has the mutex.
Holds ==
    /\ \A t \in Processes : where[t] \in {"find", "mark", "unlock"} => lock = t
    /\ where[Fork!Cleaner] \in {"scan", "clear"} => lock = Fork!Cleaner

\* The cleaner is between munmap and valid = 0, or it was when this process was forked.
Stale(i) == lock = Fork!Cleaner /\ slot = i /\ where[Fork!Cleaner] # "scan"

EntriesTrue ==
    \A i \in Fork!Slots : table[i].valid =>
        /\ table[i].stack \in Processes /\ table[i].by = table[i].stack
        /\ where[table[i].stack] \in {"unlock", "gone"}
        /\ table[i].stack \in stacks \/ Stale(i)

StacksDiffer ==
    \A i, j \in Fork!Slots :
        table[i].valid /\ table[j].valid /\ table[i].stack = table[j].stack => i = j

\* Between the two stores of add_memory_region.
HalfEntry ==
    \A t \in Processes : where[t] = "mark" => slot \in Fork!Slots /\ table[slot] = 
            Fork!Entry(FALSE, t, t)

SlotInRange == where[Fork!Cleaner] = "clear" => slot \in Fork!Slots

ForkInv ==
    /\ Fork!TypeOK /\ Fork!LiveStacksMapped
    /\ Holds /\ EntriesTrue /\ StacksDiffer /\ HalfEntry /\ SlotInRange

-----------------------------------------------------------------------------

\* A new process starts with an empty table and a free mutex.
LEMMA InitForkInv == Fork!Init => ForkInv
<1> SUFFICES ASSUME Fork!Init PROVE ForkInv
  OBVIOUS
<1> USE DEF Fork!ThreadsAssumption, Fork!TimeAssumption, Fork!Init, Fork!Entry, Fork!NoEntry,
        Fork!Slots,
            Fork!Cleaner, Fork!Nobody
<1>1. table \in [Fork!Slots -> [valid : BOOLEAN, stack : Processes \cup {Fork!Nobody},
        by : Processes]]
  OBVIOUS
<1>2. slot \in 1 .. Capacity + 1
  OBVIOUS
<1>3. where \in [Processes \cup {Fork!Cleaner} -> {"none", "run", "lock", "find", "mark", "unlock",
                                         "gone", "sleep", "scan", "clear"}]
  OBVIOUS
<1>4. Fork!TypeOK
  <2>1. 0 \in 0 .. Grace + Skew + 1
    OBVIOUS
  <2>2. lock \in Processes \cup {Fork!Cleaner,
          Fork!Nobody} /\ stacks \subseteq Processes /\ hook \in BOOLEAN
    OBVIOUS
  <2> QED
    BY <1>1, <1>2, <1>3, <2>1, <2>2 DEF Fork!TypeOK
<1>5. Fork!LiveStacksMapped /\ Holds /\ HalfEntry /\ SlotInRange
  BY DEF Fork!LiveStacksMapped, Holds, HalfEntry, SlotInRange
<1>6. EntriesTrue /\ StacksDiffer
  BY DEF EntriesTrue, StacksDiffer
<1> QED
  BY <1>4, <1>5, <1>6 DEF ForkInv

\* ForkSafe follows: while the mutex is free no thread is in the middle of its exit.
LEMMA ForkInvSafe == ForkInv => Fork!ForkSafe
<1> SUFFICES ASSUME ForkInv PROVE Fork!TableIsTrue
  BY DEF ForkInv, Fork!ForkSafe
<1> SUFFICES ASSUME lock = Fork!Nobody, NEW i \in Fork!Slots, NEW j \in Fork!Slots, table[i].valid
             PROVE  /\ table[i].stack \in stacks /\ where[table[i].stack] = "gone"
                    /\ table[j].valid /\ table[j].stack = table[i].stack => i = j
  BY DEF Fork!TableIsTrue
<1>1. table[i].stack \in Processes /\ where[table[i].stack] \in {"unlock", "gone"}
  BY DEF ForkInv, EntriesTrue
<1>2. table[i].stack \in stacks
  BY DEF ForkInv, EntriesTrue, Stale, Fork!Nobody, Fork!Cleaner
<1>3. where[table[i].stack] # "unlock"
  BY <1>1 DEF ForkInv, Holds, Fork!ThreadsAssumption
<1>4. table[j].valid /\ table[j].stack = table[i].stack => i = j
  BY DEF ForkInv, StacksDiffer
<1> QED
  BY <1>1, <1>2, <1>3, <1>4

-----------------------------------------------------------------------------
(* The threads.                                                              *)

LEMMA CreateStep ==
  ASSUME ForkInv, NEW t \in Processes, NEW u \in Processes, Fork!Create(t, u)
  PROVE  ForkInv'
<1> USE DEF Fork!ThreadsAssumption, Fork!Create, Fork!MakesCleaner, Fork!Cleaner, Fork!Nobody
<1>1. Fork!TypeOK'
  BY DEF ForkInv, Fork!TypeOK
<1>2. Fork!LiveStacksMapped' /\ Holds' /\ HalfEntry' /\ SlotInRange'
  BY DEF ForkInv, Fork!TypeOK, Fork!LiveStacksMapped, Holds, HalfEntry, SlotInRange
<1>3. EntriesTrue'
  <2> SUFFICES ASSUME NEW i \in Fork!Slots, table'[i].valid
               PROVE  /\ table'[i].stack \in Processes /\ table'[i].by = table'[i].stack
                      /\ where'[table'[i].stack] \in {"unlock", "gone"}
                      /\ table'[i].stack \in stacks' \/ Stale(i)'
    BY DEF EntriesTrue
  <2>1. table[i].stack # u /\ table[i].stack # Fork!Cleaner
    BY DEF ForkInv, EntriesTrue
  <2>2. Stale(i) => Stale(i)'
    BY DEF ForkInv, Fork!TypeOK, Stale
  <2> QED
    BY <2>1, <2>2 DEF ForkInv, Fork!TypeOK, EntriesTrue
<1>4. StacksDiffer'
  BY DEF ForkInv, StacksDiffer
<1> QED
  BY <1>1, <1>2, <1>3, <1>4 DEF ForkInv

LEMMA ExitStep ==
  ASSUME ForkInv, NEW t \in Processes, Fork!Exit(t)
  PROVE  ForkInv'
<1> USE DEF Fork!ThreadsAssumption, Fork!Exit, Fork!Goto, Fork!Cleaner, Fork!Nobody
<1>1. Fork!TypeOK' /\ Fork!LiveStacksMapped' /\ Holds' /\ HalfEntry' /\ SlotInRange'
  BY DEF ForkInv, Fork!TypeOK, Fork!LiveStacksMapped, Holds, HalfEntry, SlotInRange
<1>2. EntriesTrue' /\ StacksDiffer'
  BY DEF ForkInv, Fork!TypeOK, EntriesTrue, StacksDiffer, Stale
<1> QED
  BY <1>1, <1>2 DEF ForkInv

LEMMA AddLockStep ==
  ASSUME ForkInv, NEW t \in Processes, Fork!AddLock(t)
  PROVE  ForkInv'
<1> USE DEF Fork!ThreadsAssumption, Fork!TimeAssumption, Fork!AddLock, Fork!Lock, Fork!MutexIsFree,
            Fork!Goto, Fork!Cleaner, Fork!Nobody, Fork!Slots
<1>1. Fork!TypeOK'
  BY DEF ForkInv, Fork!TypeOK
<1>2. Fork!LiveStacksMapped' /\ Holds'
  BY DEF ForkInv, Fork!TypeOK, Fork!LiveStacksMapped, Holds
<1>3. HalfEntry' /\ SlotInRange'
  BY DEF ForkInv, Fork!TypeOK, Holds, HalfEntry, SlotInRange
<1>4. EntriesTrue' /\ StacksDiffer'
  BY DEF ForkInv, Fork!TypeOK, EntriesTrue, StacksDiffer, Stale
<1> QED
  BY <1>1, <1>2, <1>3, <1>4 DEF ForkInv

LEMMA AddCopyStep ==
  ASSUME ForkInv, NEW t \in Processes, Fork!AddCopy(t)
  PROVE  ForkInv'
<1> USE DEF Fork!ThreadsAssumption, Fork!TimeAssumption, Fork!AddCopy, Fork!StackOf, Fork!Entry,
        Fork!Goto,
            Fork!Cleaner, Fork!Nobody, Fork!Slots
<1>1. lock = t /\ t # Fork!Cleaner
  BY DEF ForkInv, Holds
<1>2. CASE slot > Capacity
  <2>1. Fork!TypeOK'
    BY <1>2 DEF ForkInv, Fork!TypeOK
  <2>2. Fork!LiveStacksMapped' /\ Holds' /\ HalfEntry' /\ SlotInRange'
    BY <1>1, <1>2 DEF ForkInv, Fork!TypeOK, Fork!LiveStacksMapped, Holds, HalfEntry, SlotInRange
  <2>3. EntriesTrue' /\ StacksDiffer'
    BY <1>1, <1>2 DEF ForkInv, Fork!TypeOK, EntriesTrue, StacksDiffer, Stale
  <2> QED
    BY <2>1, <2>2, <2>3 DEF ForkInv
<1>3. CASE slot \in Fork!Slots /\ table[slot].valid
  <2>1. Fork!TypeOK'
    BY <1>3 DEF ForkInv, Fork!TypeOK
  <2>2. Fork!LiveStacksMapped' /\ Holds' /\ HalfEntry' /\ SlotInRange'
    BY <1>1, <1>3 DEF ForkInv, Fork!TypeOK, Fork!LiveStacksMapped, Holds, HalfEntry, SlotInRange
  <2>3. EntriesTrue' /\ StacksDiffer'
    BY <1>1, <1>3 DEF ForkInv, Fork!TypeOK, EntriesTrue, StacksDiffer, Stale
  <2> QED
    BY <2>1, <2>2, <2>3 DEF ForkInv
<1>4. CASE slot \in Fork!Slots /\ ~table[slot].valid
  <2>1. table' = [table EXCEPT ![slot] = Fork!Entry(FALSE, t, t)] /\ UNCHANGED slot
    BY <1>4
  <2>2. where' = [where EXCEPT ![t] = "mark"]
    BY <1>4
  <2>3. Fork!TypeOK'
    <3>1. Fork!Entry(FALSE, t, t) \in [valid : BOOLEAN, stack : Processes \cup {Fork!Nobody},
            by : Processes]
      OBVIOUS
    <3>2. table' \in [Fork!Slots -> [valid : BOOLEAN, stack : Processes \cup {Fork!Nobody},
            by : Processes]]
      BY <2>1, <3>1 DEF ForkInv, Fork!TypeOK
    <3> QED
      BY <2>1, <2>2, <3>2 DEF ForkInv, Fork!TypeOK
  <2>4. Fork!LiveStacksMapped' /\ Holds'
    BY <1>1, <2>2 DEF ForkInv, Fork!TypeOK, Fork!LiveStacksMapped, Holds
  <2>5. HalfEntry' /\ SlotInRange'
    BY <1>1, <1>4, <2>1, <2>2 DEF ForkInv, Fork!TypeOK, Holds, HalfEntry, SlotInRange
  <2>6. EntriesTrue'
    BY <1>1, <1>4, <2>1, <2>2 DEF ForkInv, Fork!TypeOK, EntriesTrue, Stale
  <2>7. StacksDiffer'
    BY <2>1 DEF ForkInv, Fork!TypeOK, StacksDiffer
  <2> QED
    BY <2>3, <2>4, <2>5, <2>6, <2>7 DEF ForkInv
<1> QED
  BY <1>2, <1>3, <1>4 DEF ForkInv, Fork!TypeOK

LEMMA AddMarkStep ==
  ASSUME ForkInv, NEW t \in Processes, Fork!AddMark(t)
  PROVE  ForkInv'
<1> USE DEF Fork!ThreadsAssumption, Fork!TimeAssumption, Fork!AddMark, Fork!Entry, Fork!Goto,
            Fork!Cleaner, Fork!Nobody, Fork!Slots
<1>1. lock = t /\ slot \in Fork!Slots /\ table[slot] = Fork!Entry(FALSE, t, t) /\ t \in stacks
  BY DEF ForkInv, Holds, HalfEntry, Fork!LiveStacksMapped
<1>2. Fork!TypeOK'
  BY <1>1 DEF ForkInv, Fork!TypeOK
<1>3. Fork!LiveStacksMapped' /\ Holds' /\ HalfEntry' /\ SlotInRange'
  BY <1>1 DEF ForkInv, Fork!TypeOK, Fork!LiveStacksMapped, Holds, HalfEntry, SlotInRange
<1>4. EntriesTrue'
  BY <1>1 DEF ForkInv, Fork!TypeOK, EntriesTrue, Stale
<1>5. \A i \in Fork!Slots : table[i].valid => table[i].stack # t
  BY DEF ForkInv, EntriesTrue
<1>6. StacksDiffer'
  BY <1>1, <1>5 DEF ForkInv, Fork!TypeOK, StacksDiffer
<1> QED
  BY <1>2, <1>3, <1>4, <1>6 DEF ForkInv

LEMMA AddUnlockStep ==
  ASSUME ForkInv, NEW t \in Processes, Fork!AddUnlock(t)
  PROVE  ForkInv'
<1> USE DEF Fork!ThreadsAssumption, Fork!AddUnlock, Fork!Unlock, Fork!Unlocked, Fork!Goto,
        Fork!Cleaner,
            Fork!Nobody
<1>1. lock = t
  BY DEF ForkInv, Holds
<1>2. Fork!TypeOK' /\ Fork!LiveStacksMapped' /\ Holds' /\ HalfEntry' /\ SlotInRange'
  BY <1>1 DEF ForkInv, Fork!TypeOK, Fork!LiveStacksMapped, Holds, HalfEntry, SlotInRange
<1>3. EntriesTrue' /\ StacksDiffer'
  BY <1>1 DEF ForkInv, Fork!TypeOK, EntriesTrue, StacksDiffer, Stale
<1> QED
  BY <1>2, <1>3 DEF ForkInv

-----------------------------------------------------------------------------
(* The cleaner.                                                              *)

LEMMA CleanerLockStep ==
  ASSUME ForkInv, Fork!CleanerLock
  PROVE  ForkInv'
<1> USE DEF Fork!ThreadsAssumption, Fork!TimeAssumption, Fork!CleanerLock, Fork!Lock,
        Fork!MutexIsFree,
            Fork!Goto, Fork!Cleaner, Fork!Nobody, Fork!Slots
<1>1. Fork!TypeOK'
  BY DEF ForkInv, Fork!TypeOK
<1>2. Fork!LiveStacksMapped' /\ Holds'
  BY DEF ForkInv, Fork!TypeOK, Fork!LiveStacksMapped, Holds
<1>3. HalfEntry' /\ SlotInRange'
  BY DEF ForkInv, Fork!TypeOK, Holds, HalfEntry, SlotInRange
<1>4. EntriesTrue' /\ StacksDiffer'
  BY DEF ForkInv, Fork!TypeOK, EntriesTrue, StacksDiffer, Stale
<1> QED
  BY <1>1, <1>2, <1>3, <1>4 DEF ForkInv

LEMMA CleanerScanStep ==
  ASSUME ForkInv, Fork!CleanerScan
  PROVE  ForkInv'
<1> USE DEF Fork!ThreadsAssumption, Fork!TimeAssumption, Fork!CleanerScan, Fork!Goto, Fork!Cleaner,
            Fork!Nobody, Fork!Slots
<1>1. lock = Fork!Cleaner /\ slot \in Fork!Slots
  BY DEF ForkInv, Holds
<1>2. CASE Fork!Due(table[slot])
  <2>1. /\ table[slot].valid /\ stacks' = stacks \ {table[slot].stack}
        /\ where' = [where EXCEPT ![Fork!Cleaner] = "clear"] /\ UNCHANGED <<lock, table, hook,
                slot, age>>
    BY <1>2 DEF Fork!Due
  <2> HIDE DEF Fork!CleanerScan
  <2>2. Fork!TypeOK'
    BY <2>1 DEF ForkInv, Fork!TypeOK
  <2>3. Fork!LiveStacksMapped' /\ Holds' /\ HalfEntry' /\ SlotInRange'
    BY <1>1, <2>1 DEF ForkInv, Fork!TypeOK, Fork!LiveStacksMapped, EntriesTrue, Holds, HalfEntry,
            SlotInRange
  <2>4. EntriesTrue'
    BY <1>1, <2>1 DEF ForkInv, Fork!TypeOK, EntriesTrue, StacksDiffer, Stale
  <2>5. StacksDiffer'
    BY <2>1 DEF ForkInv, StacksDiffer
  <2> QED
    BY <2>2, <2>3, <2>4, <2>5 DEF ForkInv
<1>3. CASE ~Fork!Due(table[slot])
  <2>1. slot' = slot + 1 /\ UNCHANGED <<stacks, where, lock, table, hook, age>>
    BY <1>3
  <2>2. Fork!TypeOK'
    BY <1>1, <2>1 DEF ForkInv, Fork!TypeOK
  <2>3. Fork!LiveStacksMapped' /\ Holds' /\ HalfEntry' /\ SlotInRange'
    BY <1>1, <2>1 DEF ForkInv, Fork!TypeOK, Fork!LiveStacksMapped, Holds, HalfEntry, SlotInRange
  <2>4. EntriesTrue' /\ StacksDiffer'
    BY <1>1, <2>1 DEF ForkInv, Fork!TypeOK, EntriesTrue, StacksDiffer, Stale
  <2> QED
    BY <2>2, <2>3, <2>4 DEF ForkInv
<1> QED
  BY <1>2, <1>3

LEMMA CleanerClearStep ==
  ASSUME ForkInv, Fork!CleanerClear
  PROVE  ForkInv'
<1> USE DEF Fork!ThreadsAssumption, Fork!TimeAssumption, Fork!CleanerClear, Fork!ClearEntry,
            Fork!NextSlot, Fork!Goto, Fork!Cleaner, Fork!Nobody, Fork!Slots
<1>1. lock = Fork!Cleaner /\ slot \in Fork!Slots
  BY DEF ForkInv, Holds, SlotInRange
<1>2. /\ ~table'[slot].valid
      /\ \A i \in Fork!Slots : i # slot => table'[i] = table[i]
  BY <1>1 DEF ForkInv, Fork!TypeOK
<1>3. Fork!TypeOK'
  <2>1. table' \in [Fork!Slots -> [valid : BOOLEAN, stack : Processes \cup {Fork!Nobody},
          by : Processes]]
    <3>1. table \in [Fork!Slots -> [valid : BOOLEAN, stack : Processes \cup {Fork!Nobody},
                                    by : Processes]]
      BY DEF ForkInv, Fork!TypeOK
    <3>2. table' = [table EXCEPT ![slot] = [table[slot] EXCEPT !.valid = FALSE]]
      OBVIOUS
    <3>3. [table[slot] EXCEPT !.valid = FALSE]
            \in [valid : BOOLEAN, stack : Processes \cup {Fork!Nobody}, by : Processes]
      BY <1>1, <3>1
    <3> HIDE DEF Fork!CleanerClear, Fork!Slots
    <3> QED
      BY <1>1, <3>1, <3>2, <3>3
  <2>2. slot' \in 1 .. Capacity + 1
    BY <1>1
  <2>3. where' \in [Processes \cup {Fork!Cleaner} -> {"none", "run", "lock", "find", "mark",
          "unlock",
                                            "gone", "sleep", "scan", "clear"}]
    BY DEF ForkInv, Fork!TypeOK
  <2> QED
    BY <2>1, <2>2, <2>3 DEF ForkInv, Fork!TypeOK
<1>4. Fork!LiveStacksMapped' /\ Holds' /\ HalfEntry' /\ SlotInRange'
  BY <1>1 DEF ForkInv, Fork!TypeOK, Fork!LiveStacksMapped, Holds, HalfEntry, SlotInRange
<1>5. EntriesTrue'
  BY <1>1, <1>2 DEF ForkInv, Fork!TypeOK, EntriesTrue, Stale
<1>6. StacksDiffer'
  BY <1>2 DEF ForkInv, StacksDiffer
<1> QED
  BY <1>3, <1>4, <1>5, <1>6 DEF ForkInv

LEMMA CleanerUnlockStep ==
  ASSUME ForkInv, Fork!CleanerUnlock
  PROVE  ForkInv'
<1> USE DEF Fork!ThreadsAssumption, Fork!CleanerUnlock, Fork!Unlock, Fork!Unlocked, Fork!Goto,
        Fork!Cleaner,
            Fork!Nobody
<1>1. lock = Fork!Cleaner
  BY DEF ForkInv, Holds
<1>2. Fork!TypeOK' /\ Fork!LiveStacksMapped' /\ Holds' /\ HalfEntry' /\ SlotInRange'
  BY <1>1 DEF ForkInv, Fork!TypeOK, Fork!LiveStacksMapped, Holds, HalfEntry, SlotInRange
<1>3. EntriesTrue' /\ StacksDiffer'
  BY <1>1 DEF ForkInv, Fork!TypeOK, EntriesTrue, StacksDiffer, Stale
<1> QED
  BY <1>2, <1>3 DEF ForkInv

-----------------------------------------------------------------------------
(* fork() and time.                                                          *)

\* The child runs one thread, which holds nothing; the copy of a held mutex stays held.
LEMMA ForkStep ==
  ASSUME ForkInv, NEW t \in Processes, Fork!Fork(t)
  PROVE  ForkInv'
<1> USE DEF Fork!ThreadsAssumption, Fork!Fork, Fork!MutexOfChild, Fork!Cleaner, Fork!Nobody
<1>1. /\ where'[Fork!Cleaner] = "none" /\ where'[t] = "run"
      /\ \A u \in Processes : u # t => where'[u] = IF where[u] = "none" THEN "none" ELSE "gone"
  OBVIOUS
<1>2. Fork!TypeOK'
  <2>1. where' \in [Processes \cup {Fork!Cleaner} -> {"none", "run", "lock", "find", "mark",
          "unlock",
                                            "gone", "sleep", "scan", "clear"}]
    OBVIOUS
  <2> QED
    BY <2>1 DEF ForkInv, Fork!TypeOK
<1>3. Fork!LiveStacksMapped' /\ Holds' /\ HalfEntry' /\ SlotInRange'
  BY <1>1 DEF ForkInv, Fork!LiveStacksMapped, Holds, HalfEntry, SlotInRange
<1>4. EntriesTrue'
  <2> SUFFICES ASSUME NEW i \in Fork!Slots, table'[i].valid
               PROVE  /\ table'[i].stack \in Processes /\ table'[i].by = table'[i].stack
                      /\ where'[table'[i].stack] \in {"unlock", "gone"}
                      /\ table'[i].stack \in stacks' \/ Stale(i)'
    BY DEF EntriesTrue
  <2>1. /\ table[i].stack \in Processes /\ table[i].by = table[i].stack
        /\ where[table[i].stack] \in {"unlock", "gone"}
        /\ table[i].stack \in stacks \/ Stale(i)
    BY DEF ForkInv, EntriesTrue
  <2>2. Stale(i) => Stale(i)'
    BY <1>1 DEF Stale
  <2> QED
    BY <1>1, <2>1, <2>2
<1>5. StacksDiffer'
  BY DEF ForkInv, StacksDiffer
<1> QED
  BY <1>2, <1>3, <1>4, <1>5 DEF ForkInv

LEMMA ForkTickStep ==
  ASSUME ForkInv, Fork!Tick
  PROVE  ForkInv'
<1> USE DEF Fork!TimeAssumption, Fork!Tick
<1>1. age' \in [Processes -> 0 .. Grace + Skew + 1]
  BY DEF ForkInv, Fork!TypeOK
<1>2. Fork!TypeOK' /\ Fork!LiveStacksMapped'
  BY <1>1 DEF ForkInv, Fork!TypeOK, Fork!LiveStacksMapped
<1>3. Holds' /\ EntriesTrue' /\ StacksDiffer' /\ HalfEntry' /\ SlotInRange'
  BY DEF ForkInv, Holds, EntriesTrue, StacksDiffer, HalfEntry, SlotInRange, Stale
<1> QED
  BY <1>2, <1>3 DEF ForkInv

LEMMA NextForkInv ==
  ASSUME ForkInv, [Fork!Next]_(Fork!vars)
  PROVE  ForkInv'
<1>1. CASE UNCHANGED Fork!vars
  BY <1>1 DEF Fork!vars, ForkInv, Fork!TypeOK, Fork!LiveStacksMapped, Holds, EntriesTrue,
          StacksDiffer,
              HalfEntry, SlotInRange, Stale
<1>2. CASE \E t, u \in Processes : Fork!Create(t, u)
  BY <1>2, CreateStep
<1>3. CASE \E t \in Processes : Fork!Exit(t) \/ Fork!AddLock(t) \/ Fork!ThreadStep(t) \/ 
        Fork!Fork(t)
  BY <1>3, ExitStep, AddLockStep, AddCopyStep, AddMarkStep, AddUnlockStep, ForkStep
     DEF Fork!ThreadStep
<1>4. CASE Fork!CleanerLock \/ Fork!CleanerStep \/ Fork!Tick
  BY <1>4, CleanerLockStep, CleanerScanStep, CleanerClearStep, CleanerUnlockStep, ForkTickStep
     DEF Fork!CleanerStep
<1> QED
  BY <1>1, <1>2, <1>3, <1>4 DEF Fork!Next

-----------------------------------------------------------------------------

\* Every state of a parent and of its children satisfies the invariant (gs.rsp.c 197-239
\* and 361-437).
THEOREM ForkInductive == Fork!Spec => []ForkInv
<1>1. Fork!Init => ForkInv
  BY InitForkInv
<1>2. ForkInv /\ [Fork!Next]_(Fork!vars) => ForkInv'
  BY NextForkInv
<1> QED
  BY <1>1, <1>2, PTL DEF Fork!Spec

\* Wherever a fork comes, whoever gets the mutex finds a table that is true, and threads
\* that run have their stacks (gs.rsp.c 197-239 and 361-437).
THEOREM ForkIsSafe == Fork!Spec => []Fork!ForkSafe
<1>1. ForkInv => Fork!ForkSafe
  BY ForkInvSafe
<1> QED
  BY <1>1, ForkInductive, PTL

-----------------------------------------------------------------------------
\* A step of MCProcess is one of the fork part, or leaves its variables alone.
LEMMA ForksOnly == [NextAll]_allvars => [Fork!Next]_(Fork!vars)
BY DEF NextAll, Layout, Forks, Handlers, Exceptions, Filtered, Unaligned, allvars, forkvars,
       Fork!vars

\* Wherever forks come, in the process that the run looks at (gs.rsp.c 197-239, 361-437).
THEOREM ForksAreSafe == SpecAll => []ForkSafe
<1>1. InitAll => ForkInv
  BY InitForkInv DEF InitAll
<1>2. ForkInv /\ [NextAll]_allvars => ForkInv'
  BY ForksOnly, NextForkInv
<1>3. ForkInv => ForkSafe
  BY ForkInvSafe DEF ForkSafe
<1> QED
  BY <1>1, <1>2, <1>3, PTL DEF SpecAll

HIDE ForkAssumption

-----------------------------------------------------------------------------
(* SandboxFilter: no policy stops a move, for any numbers of socket and IPC   *)
(* calls, any systems and any answers of the policy.                          *)

Moving == {"mmap", "mremap", "munmap", "arch_prctl"}

FilterInv ==
    /\ system \in Systems
    /\ sockets \in [Filter!SocketCalls -> Filter!Verdicts]
    /\ ipcs \in [Filter!IpcCalls -> Filter!Verdicts]
    /\ move \in Moving \cup {"none"}
    /\ Filter!MovesAreAllowed

\* The system calls of a move need no policy (lines 40-47).
LEMMA MovingIsAllowed ==
  ASSUME NEW nr \in Moving PROVE Filter!EvaluateSyscall(Filter!Plain(nr)) = "Allow"
<1>1. Filter!Plain(nr) \in Filter!AllowedForRunTime
  BY DEF Moving, Filter!AllowedForRunTime
<1> QED
  BY <1>1 DEF Filter!EvaluateSyscall

\* The fields of the system calls that there are.
LEMMA Fields ==
  /\ \A nr \in STRING : Filter!Plain(nr).nr = nr
  /\ \A n \in Int : /\ Filter!SocketSyscall(n).nr = "socket" /\ Filter!SocketSyscall(n).arg = n
                    /\ Filter!SysVSyscall(n).nr = "sysv" /\ Filter!SysVSyscall(n).arg = n
                    /\ Filter!ViaSocketcall(n).nr = "socketcall"
                    /\ Filter!ViaSocketcall(n).arg = n
                    /\ \A v \in Int : /\ Filter!ViaIpc(n, v).nr = "ipc"
                                      /\ Filter!ViaIpc(n, v).arg = n
BY DEF Filter!Plain, Filter!SocketSyscall, Filter!SysVSyscall, Filter!ViaSocketcall, Filter!ViaIpc

\* What is let through for the run time: four calls about memory and two about sockets.
LEMMA LetThrough ==
  \A s \in Filter!AllowedForRunTime :
      \/ s.nr \in Moving
      \/ s.nr = "socket" /\ s.arg \in {SYS_RECVFROM, SYS_RECVMSG}
<1>1. {SYS_RECVFROM, SYS_RECVMSG} \subseteq Int
  BY FilterAssumption DEF Filter!FilterAssumption
<1> QED
  BY <1>1 DEF Filter!AllowedForRunTime, Filter!Plain, Filter!SocketSyscall, Moving

\* What the filter says of every other kind of call is what the policy says of its number.
LEMMA Answers ==
  ASSUME FilterInv, NEW s \in Filter!Syscalls, s \notin Filter!AllowedForRunTime
  PROVE  /\ s.nr = "socket" =>
               /\ system.socket /\ s.arg \in Filter!SocketCalls
               /\ Filter!EvaluateSyscall(s) = Filter!ValueOr(sockets[s.arg])
         /\ s.nr = "socketcall" =>
               /\ system.socketcall
               /\ Filter!EvaluateSyscall(s) =
                     IF s.arg \in Filter!SocketCalls THEN Filter!ValueOr(sockets[s.arg])
                     ELSE "InvalidSyscall"
         /\ s.nr = "sysv" =>
               /\ ~system.socketcall /\ s.arg \in Filter!IpcCalls
               /\ Filter!EvaluateSyscall(s) = Filter!ValueOr(ipcs[s.arg])
         /\ s.nr = "ipc" =>
               /\ system.socketcall
               /\ Filter!EvaluateSyscall(s) =
                     IF s.arg \in Filter!IpcCalls THEN Filter!ValueOr(ipcs[s.arg])
                     ELSE "InvalidSyscall"
         /\ s.nr \notin {"socket", "socketcall", "sysv", "ipc"} =>
               Filter!EvaluateSyscall(s) = "InvalidSyscall"
<1>1. /\ s.nr = "socket" => system.socket /\ s.arg \in Filter!SocketCalls
      /\ s.nr = "socketcall" => system.socketcall
      /\ s.nr = "sysv" => ~system.socketcall /\ s.arg \in Filter!IpcCalls
      /\ s.nr = "ipc" => system.socketcall
  BY DEF Filter!Syscalls, Filter!Plain, Filter!SocketSyscall, Filter!SysVSyscall,
         Filter!ViaSocketcall, Filter!ViaIpc
<1>2. Filter!SocketCases = Filter!SocketCalls
  BY DEF Filter!SocketCases, Filter!SocketCalls
<1>3. CASE s.nr = "socket"
  BY <1>1, <1>3 DEF Filter!EvaluateSyscall
<1>4. CASE s.nr = "socketcall"
  BY <1>1, <1>2, <1>4 DEF Filter!EvaluateSyscall
<1>5. CASE s.nr = "sysv"
  BY <1>1, <1>5 DEF Filter!EvaluateSyscall
<1>6. CASE s.nr = "ipc"
  BY <1>1, <1>6 DEF Filter!EvaluateSyscall, Filter!CallOf
<1>7. CASE s.nr \notin {"socket", "socketcall", "sysv", "ipc"}
  BY <1>7 DEF Filter!EvaluateSyscall
<1> QED
  BY <1>3, <1>4, <1>5, <1>6, <1>7

\* What a policy says is no answer that the filter would mistake for another.
LEMMA OnlyAllowIsAllow ==
  ASSUME NEW maybe \in Filter!Verdicts
  PROVE  Filter!ValueOr(maybe) = "Allow" => maybe = "Allow"
BY DEF Filter!ValueOr, Filter!Verdicts

LEMMA InitFilterInv == InitAll => FilterInv
<1>1. \E s \in Systems : TRUE
  BY DEF Systems
<1>2. \E s : s \in Systems
  BY <1>1
<1> QED
  BY <1>2 DEF InitAll, Filter!Init, FilterInv, Filter!Verdicts, Filter!MovesAreAllowed,
         Filter!NoCall, Filter!Plain

LEMMA FilterKeeps == FilterInv /\ [NextAll]_allvars => FilterInv'
<1> SUFFICES ASSUME FilterInv, [NextAll]_allvars PROVE FilterInv'
  OBVIOUS
<1>1. CASE UNCHANGED filtervars
  BY <1>1 DEF filtervars, FilterInv, Filter!MovesAreAllowed
<1>2. CASE Filter!BeginMove
  BY <1>2 DEF Filter!BeginMove, Filter!policyVars, FilterInv, Filter!MovesAreAllowed, Moving
<1>3. CASE Filter!StepOfMove
  <2>1. UNCHANGED <<system, sockets, ipcs>>
    BY <1>3 DEF Filter!StepOfMove, Filter!policyVars
  <2>2. move \in Moving
    BY <1>3 DEF Filter!StepOfMove, FilterInv
  <2>3. died' = Filter!NoCall
    BY <1>3, <2>2, MovingIsAllowed DEF Filter!StepOfMove, Filter!Make
  <2>4. move' \in Moving \cup {"none"}
    BY <1>3 DEF Filter!StepOfMove, Filter!Then, Moving
  <2> QED
    BY <2>1, <2>3, <2>4 DEF FilterInv, Filter!MovesAreAllowed, Filter!NoCall, Filter!Plain
<1>4. CASE Filter!OtherCall
  <2>1. UNCHANGED <<system, sockets, ipcs, move>>
    BY <1>4 DEF Filter!OtherCall, Filter!policyVars
  <2>2. PICK s \in Filter!Syscalls : Filter!Make(s)
    BY <1>4 DEF Filter!OtherCall
  <2>3. Filter!MovesAreAllowed'
    <3> SUFFICES ASSUME NEW nr \in Moving, died' = Filter!Plain(nr) PROVE FALSE
      BY DEF Filter!MovesAreAllowed, Moving
    <3>1. Filter!Plain(nr) # Filter!NoCall
      BY DEF Filter!Plain, Filter!NoCall, Moving
    <3> QED
      BY <2>2, <3>1, MovingIsAllowed DEF Filter!Make
  <2> QED
    BY <2>1, <2>3 DEF FilterInv
<1> QED
  BY <1>1, <1>2, <1>3, <1>4 DEF NextAll, Layout, Forks, Handlers, Exceptions, Filtered, Unaligned,
     allvars, Filter!Next

\* Both ways to a socket call, and both to an IPC call (lines 50-129).
LEMMA AnswersAreTheSame == FilterInv => Filter!SameAnswer
<1> SUFFICES ASSUME FilterInv PROVE Filter!SameAnswer
  OBVIOUS
<1>0. /\ {SYS_RECVFROM, SYS_RECVMSG} \subseteq Filter!SocketCalls
      /\ SYS_SENDMMSG \in Nat /\ DIPC \in Nat /\ Versions \subseteq Nat
  BY FilterAssumption DEF Filter!FilterAssumption, Filter!SocketCalls
<1>1. ASSUME system.socket, system.socketcall,
             NEW n \in Filter!SocketCalls \ {SYS_RECVFROM, SYS_RECVMSG}
      PROVE  Filter!EvaluateSyscall(Filter!ViaSocketcall(n))
             = Filter!EvaluateSyscall(Filter!SocketSyscall(n))
  <2>1. /\ Filter!ViaSocketcall(n) \in Filter!Syscalls
        /\ Filter!SocketSyscall(n) \in Filter!Syscalls
    BY <1>0, <1>1 DEF Filter!Syscalls, Filter!SocketCalls
  <2>2. n \in Int
    BY <1>0 DEF Filter!SocketCalls
  <2>3. /\ Filter!ViaSocketcall(n) \notin Filter!AllowedForRunTime
        /\ Filter!SocketSyscall(n) \notin Filter!AllowedForRunTime
    BY <1>1, <2>2, LetThrough, Fields DEF Moving
  <2> QED
    BY <2>1, <2>2, <2>3, Answers, Fields
<1>2. ASSUME NEW s \in Filter!Syscalls, s.nr \in {"ipc", "sysv"}, s.arg \in Filter!IpcCalls
      PROVE  Filter!EvaluateSyscall(s) = Filter!ValueOr(ipcs[s.arg])
  <2>1. s \notin Filter!AllowedForRunTime
    BY <1>2, LetThrough DEF Moving
  <2> QED
    BY <1>2, <2>1, Answers
<1> QED
  BY <1>1, <1>2 DEF Filter!SameAnswer

LEMMA NothingElse == FilterInv => Filter!NothingElseIsOpened
<1> SUFFICES ASSUME FilterInv, NEW s \in Filter!Syscalls \ Filter!AllowedForRunTime,
                    Filter!EvaluateSyscall(s) = "Allow"
             PROVE  \/ /\ s.nr \in {"socket", "socketcall"} /\ s.arg \in Filter!SocketCalls
                       /\ sockets[s.arg] = "Allow"
                    \/ /\ s.nr \in {"sysv", "ipc"} /\ s.arg \in Filter!IpcCalls
                       /\ ipcs[s.arg] = "Allow"
  BY DEF Filter!NothingElseIsOpened
<1>1. /\ \A n \in Filter!SocketCalls : sockets[n] \in Filter!Verdicts
      /\ \A n \in Filter!IpcCalls : ipcs[n] \in Filter!Verdicts
  BY DEF FilterInv
<1> QED
  BY <1>1, Answers, OnlyAllowIsAllow

\* No policy stops a move, and the change for the run time opens nothing else, in the
\* process that the run looks at (SandboxFilterUtil.cpp 31-153).
THEOREM FilterIsSafe == SpecAll => []FilterSafe
<1>1. FilterInv => FilterSafe
  <2>1. FilterInv => Filter!SeparateCallsExist
    BY FilterAssumption DEF FilterInv, Filter!SeparateCallsExist, Filter!HasSeparateSocketCalls,
       Filter!FilterAssumption
  <2> QED
    BY <2>1, AnswersAreTheSame, NothingElse DEF FilterSafe, Filter!FilterSafe, FilterInv
<1> QED
  BY <1>1, InitFilterInv, FilterKeeps, PTL DEF SpecAll

-----------------------------------------------------------------------------
(* WasmMach: each suspended thread gets one reply, and is resumed as a whole.  *)

\* A message for every suspended thread, and only one.
Messages ==
    /\ \A n, m \in DOMAIN queue : queue[n] = queue[m] => n = m
    /\ at # "receive" => \A n \in DOMAIN queue : queue[n] # request
    /\ \A t \in Threads : Mach!Suspended(t) <=>
          (\E n \in DOMAIN queue : queue[n] = t) \/ (at # "receive" /\ request = t)

\* What the handler thread has done when it is somewhere.
Written ==
    /\ at \in {"set float", "set thread", "success"} => request \in started
    /\ at \in {"set thread", "success"} => "float" \in written[request]
    /\ at = "success" => "thread" \in written[request]

Installed ==
    /\ lazy = "success" => port /\ server
    /\ threadPort # {} => lazy = "success"

\* The types but those of bugs and end.
MachTypes ==
    /\ port \in BOOLEAN /\ server \in BOOLEAN /\ lazy \in {"untried", "failed", "success"}
    /\ mtried \in [Threads -> BOOLEAN] /\ mhave \in [Threads -> BOOLEAN]
    /\ threadPort \subseteq Threads /\ started \subseteq Threads
    /\ mcode \in [Threads -> {"native", "wasm", "trap code"}]
    /\ fault \in [Threads -> {"none", "trap", "bug"}]
    /\ written \in [Threads -> SUBSET {"float", "thread"}]
    /\ queue \in Seq(Threads) /\ request \in Threads
    /\ at \in {"receive", "get state", "handle", "set float", "set thread", "success", "failure"}
MachInv ==
    /\ MachTypes /\ Installed /\ Mach!ResumedAsAWhole /\ Mach!PortIsServed
    /\ Mach!BugsAreReported
    /\ Mach!Running => Messages /\ Written

LEMMA OneReply == MachInv => Mach!OneReplyEach
<1> SUFFICES ASSUME MachInv, Mach!Running, NEW t \in Threads
             PROVE  Cardinality({n \in DOMAIN queue : queue[n] = t})
                        + (IF at # "receive" /\ request = t THEN 1 ELSE 0)
                    = (IF Mach!Suspended(t) THEN 1 ELSE 0)
  BY DEF Mach!OneReplyEach, Mach!Running, Cardinality, Mach!Cardinality
<1> DEFINE Of == {n \in DOMAIN queue : queue[n] = t}
<1>1. CASE \E n \in DOMAIN queue : queue[n] = t
  <2>1. PICK n \in DOMAIN queue : queue[n] = t
    BY <1>1
  <2>2. Of = {n}
    BY <2>1 DEF MachInv, Messages
  <2>3. Cardinality(Of) = 1
    BY <2>2, FS_Singleton
  <2>4. ~(at # "receive" /\ request = t) /\ Mach!Suspended(t)
    BY <2>1 DEF MachInv, Messages
  <2> QED
    BY <2>3, <2>4
<1>2. CASE ~\E n \in DOMAIN queue : queue[n] = t
  <2>1. Of = {}
    BY <1>2
  <2>2. Cardinality(Of) = 0
    BY <2>1, FS_EmptySet
  <2>3. Mach!Suspended(t) <=> at # "receive" /\ request = t
    BY <1>2 DEF MachInv, Messages
  <2> QED
    BY <2>2, <2>3
<1> QED
  BY <1>1, <1>2

LEMMA InitMachInv == InitAll => MachInv
<1> SUFFICES ASSUME InitAll PROVE MachInv
  OBVIOUS
<1>1. Mach!Init
  BY DEF InitAll
<1>2. queue = <<>> /\ at = "receive"
  BY <1>1 DEF Mach!Init
<1>3. queue \in Seq(Threads) /\ DOMAIN queue = {}
  BY <1>2
<1>4. Messages /\ Written
  BY <1>1, <1>2, <1>3 DEF Mach!Init, Messages, Written, Mach!Suspended
<1> QED
  BY <1>1, <1>3, <1>4 DEF Mach!Init, MachInv, MachTypes, Installed, Mach!ResumedAsAWhole,
     Mach!PortIsServed, Mach!BugsAreReported, Mach!Suspended

-----------------------------------------------------------------------------
(* Its threads.                                                              *)

LEMMA LazyStep == ASSUME MachInv, Mach!EnsureLazyProcessSignalHandlers PROVE MachInv'
<1> USE DEF Mach!EnsureLazyProcessSignalHandlers, Mach!CheckThread, Mach!threadVars,
       Mach!serverVars
<1>1. MachTypes'
  BY DEF MachInv, MachTypes
<1>2. Installed' /\ Mach!PortIsServed'
  <2>1. threadPort = {} /\ threadPort' = {}
    BY DEF MachInv, Installed
  <2>2. lazy' = "success" => port' /\ server'
    OBVIOUS
  <2>3. mhave' = mhave
    OBVIOUS
  <2> QED
    BY <2>1, <2>2, <2>3 DEF MachInv, Installed, Mach!PortIsServed
<1>3. Mach!ResumedAsAWhole' /\ Mach!BugsAreReported'
  BY DEF MachInv, Mach!ResumedAsAWhole, Mach!BugsAreReported, Mach!Suspended
<1>4. Messages' /\ Written'
  BY DEF MachInv, Messages, Written, Mach!Suspended
<1> QED
  BY <1>1, <1>2, <1>3, <1>4 DEF MachInv

LEMMA FullStep ==
  ASSUME MachInv, NEW t \in Threads, Mach!EnsureFullSignalHandlers(t) PROVE MachInv'
<1> USE DEF Mach!EnsureFullSignalHandlers, Mach!threadVars, Mach!serverVars
<1>1. MachTypes' /\ Installed' /\ Mach!PortIsServed'
  BY DEF MachInv, MachTypes, Installed, Mach!PortIsServed
<1>2. Mach!ResumedAsAWhole' /\ Mach!BugsAreReported' /\ (Mach!Running' => Messages' /\ Written')
  BY DEF MachInv, Mach!ResumedAsAWhole, Mach!BugsAreReported, Messages, Written, Mach!Suspended
<1> QED
  BY <1>1, <1>2 DEF MachInv

LEMMA RunStep == ASSUME MachInv, NEW t \in Threads, Mach!RunWasm(t) PROVE MachInv'
<1> USE DEF Mach!RunWasm, Mach!installVars, Mach!serverVars, Mach!Suspended
<1>1. MachTypes' /\ Installed' /\ Mach!PortIsServed'
  BY DEF MachInv, MachTypes, Installed, Mach!PortIsServed
<1>2. Mach!ResumedAsAWhole' /\ Mach!BugsAreReported'
  BY DEF MachInv, MachTypes, Mach!ResumedAsAWhole, Mach!BugsAreReported
<1>3. Mach!Running' => Messages' /\ Written'
  BY DEF MachInv, Messages, Written
<1> QED
  BY <1>1, <1>2, <1>3 DEF MachInv

LEMMA FinishStep == ASSUME MachInv, NEW t \in Threads, Mach!finishWasmTrap(t) PROVE MachInv'
<1> USE DEF Mach!finishWasmTrap, Mach!installVars, Mach!serverVars, Mach!Suspended
<1>1. MachTypes' /\ Installed' /\ Mach!PortIsServed'
  BY DEF MachInv, MachTypes, Installed, Mach!PortIsServed
<1>2. Mach!ResumedAsAWhole' /\ Mach!BugsAreReported'
  BY DEF MachInv, MachTypes, Mach!ResumedAsAWhole, Mach!BugsAreReported
<1>3. Mach!Running' => Messages' /\ Written'
  BY DEF MachInv, MachTypes, Messages, Written
<1> QED
  BY <1>1, <1>2, <1>3 DEF MachInv

\* What becomes of the queue when a thread is suspended.
LEMMA AppendedMessage ==
  ASSUME NEW q \in Seq(Threads), NEW t \in Threads
  PROVE  /\ Append(q, t) \in Seq(Threads) /\ DOMAIN Append(q, t) = DOMAIN q \cup {Len(q) + 1}
         /\ Append(q, t)[Len(q) + 1] = t /\ \A n \in DOMAIN q : Append(q, t)[n] = q[n]
         /\ Len(q) + 1 \notin DOMAIN q
OBVIOUS

LEMMA RaiseStep ==
  ASSUME MachInv, NEW t \in Threads, NEW kind \in {"trap", "bug"}, Mach!Raise(t, kind),
         Mach!Running, ~Mach!Suspended(t), kind = "trap" => mcode[t] = "wasm",
         UNCHANGED <<Mach!installVars, mcode, started, Mach!serverVars>>
  PROVE  MachInv'
<1> USE DEF Mach!installVars, Mach!serverVars, Mach!Suspended
<1>1. CASE t \notin threadPort
  <2>1. ~Mach!Running' /\ UNCHANGED <<fault, written, queue>>
    BY <1>1 DEF Mach!Raise, Mach!Running
  <2> QED
    BY <2>1 DEF MachInv, MachTypes, Installed, Mach!ResumedAsAWhole, Mach!PortIsServed,
       Mach!BugsAreReported
<1>2. CASE t \in threadPort
  <2>1. /\ fault' = [fault EXCEPT ![t] = kind] /\ written' = [written EXCEPT ![t] = {}]
        /\ queue' = Append(queue, t) /\ UNCHANGED mend
    BY <1>2 DEF Mach!Raise
  <2>2. queue \in Seq(Threads)
    BY DEF MachInv, MachTypes
  <2>3. MachTypes'
    BY <2>1, <2>2, AppendedMessage DEF MachInv, MachTypes
  <2>4. Installed' /\ Mach!PortIsServed'
    BY DEF MachInv, Installed, Mach!PortIsServed
  <2>5. Mach!ResumedAsAWhole' /\ Mach!BugsAreReported'
    BY <2>1 DEF MachInv, MachTypes, Mach!ResumedAsAWhole, Mach!BugsAreReported
  <2>6. /\ \A n \in DOMAIN queue : queue[n] # t
        /\ at # "receive" => request # t
    BY DEF MachInv, Messages
  <2>7. Messages'
    <3>1. /\ DOMAIN queue' = DOMAIN queue \cup {Len(queue) + 1}
          /\ queue'[Len(queue) + 1] = t /\ \A n \in DOMAIN queue : queue'[n] = queue[n]
      BY <2>1, <2>2, AppendedMessage
    <3>2. \A n, m \in DOMAIN queue' : queue'[n] = queue'[m] => n = m
      BY <3>1, <2>6 DEF MachInv, Messages
    <3>3. at' # "receive" => \A n \in DOMAIN queue' : queue'[n] # request'
      BY <3>1, <2>6 DEF MachInv, Messages
    <3>4. fault'[t] # "none" /\ \A u \in Threads \ {t} : fault'[u] = fault[u]
      BY <2>1 DEF MachInv, MachTypes
    <3>5. \A u \in Threads : Mach!Suspended(u)' <=>
             (\E n \in DOMAIN queue' : queue'[n] = u) \/ (at' # "receive" /\ request' = u)
      BY <3>1, <3>4, <2>6 DEF MachInv, Messages
    <3> QED
      BY <3>2, <3>3, <3>5 DEF Messages
  <2>8. Written'
    BY <2>1, <2>6 DEF MachInv, MachTypes, Written
  <2> QED
    BY <2>3, <2>4, <2>5, <2>7, <2>8 DEF MachInv
<1> QED
  BY <1>1, <1>2

-----------------------------------------------------------------------------
(* Its handler thread.                                                       *)

LEMMA TailShape ==
  ASSUME NEW q \in Seq(Threads), q # <<>>
  PROVE  /\ Head(q) \in Threads /\ Tail(q) \in Seq(Threads)
         /\ Head(q) = q[1] /\ 1 \in DOMAIN q
         /\ \A n \in DOMAIN Tail(q) : n \in Nat \ {0} /\ n + 1 \in DOMAIN q /\ Tail(q)[n] = q[n + 1]
         /\ \A n \in DOMAIN q \ {1} : n - 1 \in DOMAIN Tail(q) /\ Tail(q)[n - 1] = q[n]
<1>1. Head(q) \in Threads /\ Tail(q) \in Seq(Threads) /\ Head(q) = q[1] /\ 1 \in DOMAIN q
  OBVIOUS
<1>2. DOMAIN q = 1 .. Len(q) /\ DOMAIN Tail(q) = 1 .. (Len(q) - 1) /\ Len(q) \in Nat
  OBVIOUS
<1>3. ASSUME NEW n \in DOMAIN Tail(q)
      PROVE  n \in Nat \ {0} /\ n + 1 \in DOMAIN q /\ Tail(q)[n] = q[n + 1]
  OBVIOUS
<1>4. ASSUME NEW n \in DOMAIN q \ {1}
      PROVE  n - 1 \in DOMAIN Tail(q) /\ Tail(q)[n - 1] = q[n]
  <2>1. n \in 2 .. Len(q)
    BY <1>2
  <2>2. n - 1 \in DOMAIN Tail(q)
    BY <2>1, <1>2
  <2> QED
    BY <2>1, <2>2, <1>3
<1> QED
  BY <1>1, <1>3, <1>4

\* What is in the queue is what the handler thread has taken out and what is left.
LEMMA TakenMessage ==
  ASSUME NEW q \in Seq(Threads), q # <<>>, \A n, m \in DOMAIN q : q[n] = q[m] => n = m
  PROVE  /\ \A n, m \in DOMAIN Tail(q) : Tail(q)[n] = Tail(q)[m] => n = m
         /\ \A n \in DOMAIN Tail(q) : Tail(q)[n] # Head(q)
         /\ \A t : (\E n \in DOMAIN Tail(q) : Tail(q)[n] = t) \/ Head(q) = t
                     <=> \E n \in DOMAIN q : q[n] = t
<1>1. ASSUME NEW n \in DOMAIN Tail(q), NEW m \in DOMAIN Tail(q), Tail(q)[n] = Tail(q)[m]
      PROVE  n = m
  <2>1. n + 1 = m + 1
    BY <1>1, TailShape
  <2>2. n \in Nat /\ m \in Nat
    BY TailShape
  <2> QED
    BY <2>1, <2>2
<1>2. ASSUME NEW n \in DOMAIN Tail(q) PROVE Tail(q)[n] # Head(q)
  <2>1. n + 1 # 1
    BY TailShape
  <2> QED
    BY <2>1, TailShape
<1>3. ASSUME NEW t
      PROVE  (\E n \in DOMAIN Tail(q) : Tail(q)[n] = t) \/ Head(q) = t
             <=> \E n \in DOMAIN q : q[n] = t
  BY TailShape
<1> QED
  BY <1>1, <1>2, <1>3

LEMMA ReceiveStep == MachInv /\ Mach!Receive => MachInv'
<1> SUFFICES ASSUME MachInv, Mach!Receive PROVE MachInv'
  OBVIOUS
<1> USE DEF Mach!Receive, Mach!installVars, Mach!threadVars, Mach!Suspended
<1>1. /\ queue \in Seq(Threads) /\ queue # <<>> /\ Messages
      /\ queue' = Tail(queue) /\ request' = Head(queue)
  BY DEF MachInv, MachTypes
<1>2. queue' \in Seq(Threads) /\ request' \in Threads
  BY <1>1, TailShape
<1>3. MachTypes'
  BY <1>2 DEF MachInv, MachTypes
<1>4. Installed' /\ Mach!PortIsServed' /\ Mach!ResumedAsAWhole' /\ Mach!BugsAreReported'
  BY DEF MachInv, Installed, Mach!PortIsServed, Mach!ResumedAsAWhole, Mach!BugsAreReported
<1>5. Messages'
  <2>1. /\ \A n, m \in DOMAIN queue' : queue'[n] = queue'[m] => n = m
        /\ \A n \in DOMAIN queue' : queue'[n] # request'
        /\ \A t : (\E n \in DOMAIN queue' : queue'[n] = t) \/ request' = t
                    <=> \E n \in DOMAIN queue : queue[n] = t
    <3>1. \A n, m \in DOMAIN queue : queue[n] = queue[m] => n = m
      BY <1>1 DEF Messages
    <3>2. queue \in Seq(Threads) /\ queue # <<>>
      BY <1>1
    <3>3. /\ \A n, m \in DOMAIN Tail(queue) : Tail(queue)[n] = Tail(queue)[m] => n = m
          /\ \A n \in DOMAIN Tail(queue) : Tail(queue)[n] # Head(queue)
          /\ \A t : (\E n \in DOMAIN Tail(queue) : Tail(queue)[n] = t) \/ Head(queue) = t
                      <=> \E n \in DOMAIN queue : queue[n] = t
      BY <3>1, <3>2, TakenMessage
    <3> HIDE DEF Mach!Receive
    <3> QED
      BY <1>1, <3>3
  <2> QED
    BY <1>1, <2>1 DEF Messages
<1> QED
  BY <1>3, <1>4, <1>5 DEF MachInv, Written

LEMMA ReceiveFailsStep == MachInv /\ Mach!ReceiveFails => MachInv'
<1> SUFFICES ASSUME MachInv, Mach!ReceiveFails PROVE MachInv'
  OBVIOUS
<1>1. queue' \in Seq(Threads)
  BY TailShape DEF MachInv, MachTypes, Mach!ReceiveFails
<1>2. /\ ~Mach!Running'
      /\ UNCHANGED <<port, server, lazy, mtried, mhave, threadPort, mcode, fault, started, written,
                     at, request>>
  BY DEF Mach!ReceiveFails, Mach!CrashTheProcess, Mach!Running, Mach!installVars, Mach!threadVars
<1> QED
  BY <1>1, <1>2 DEF MachInv, MachTypes, Installed, Mach!PortIsServed, Mach!ResumedAsAWhole,
     Mach!BugsAreReported, Mach!Suspended

LEMMA GetStateStep == MachInv /\ Mach!GetState => MachInv'
<1> SUFFICES ASSUME MachInv, Mach!GetState PROVE MachInv'
  OBVIOUS
<1> USE DEF Mach!GetState, Mach!installVars, Mach!threadVars
<1>1. MachTypes' /\ Installed' /\ Mach!PortIsServed'
  BY DEF MachInv, MachTypes, Installed, Mach!PortIsServed
<1>2. Mach!ResumedAsAWhole' /\ Mach!BugsAreReported'
  BY DEF MachInv, Mach!ResumedAsAWhole, Mach!BugsAreReported, Mach!Suspended
<1>3. Messages' /\ Written'
  BY DEF MachInv, Messages, Written, Mach!Suspended
<1> QED
  BY <1>1, <1>2, <1>3 DEF MachInv

\* Only a fault that is a trap is recorded in the activation.
LEMMA HandleTrapStep == MachInv /\ Mach!HandleTrap => MachInv'
<1> SUFFICES ASSUME MachInv, Mach!HandleTrap PROVE MachInv'
  OBVIOUS
<1> USE DEF Mach!HandleTrap, Mach!installVars
<1>1. Messages /\ Written /\ Mach!Suspended(request) /\ request \in Threads
  BY DEF MachInv, Messages, MachTypes
<1>3. MachTypes'
  BY <1>1 DEF MachInv, MachTypes
<1>4. Installed' /\ Mach!PortIsServed'
  BY DEF MachInv, Installed, Mach!PortIsServed
<1>5. started' = started \/ (fault[request] = "trap" /\ started' = started \cup {request})
  BY DEF Mach!ExpectedTrap
<1>6. Mach!ResumedAsAWhole' /\ Mach!BugsAreReported'
  BY <1>1, <1>5 DEF MachInv, Mach!ResumedAsAWhole, Mach!BugsAreReported, Mach!Suspended
<1>7. Mach!Running' => Messages' /\ Written'
  BY <1>1 DEF Messages, Written, Mach!Suspended
<1> QED
  BY <1>3, <1>4, <1>6, <1>7 DEF MachInv

LEMMA SetStateStep ==
  ASSUME MachInv, NEW part2 \in {"float", "thread"}, NEW from, NEW to,
         \/ part2 = "float" /\ from = "set float" /\ to = "set thread"
         \/ part2 = "thread" /\ from = "set thread" /\ to = "success",
         Mach!SetState(part2, from, to)
  PROVE  MachInv'
<1> USE DEF Mach!SetState, Mach!installVars, Mach!ReturnFalse
<1>1. Messages /\ Written /\ Mach!Suspended(request) /\ request \in Threads
  BY DEF MachInv, Messages, MachTypes
<1>2. /\ written \in [Threads -> SUBSET {"float", "thread"}]
      /\ \/ written' = written /\ at' = "failure"
         \/ written' = [written EXCEPT ![request] = @ \cup {part2}] /\ at' = to
  BY DEF MachInv, MachTypes
<1>3. MachTypes'
  <2>1. written' \in [Threads -> SUBSET {"float", "thread"}]
    BY <1>1, <1>2
  <2>2. at' \in {"set thread", "success", "failure"}
    BY <1>2
  <2> QED
    BY <2>1, <2>2 DEF MachInv, MachTypes
<1>4. Installed' /\ Mach!PortIsServed' /\ Mach!BugsAreReported'
  BY DEF MachInv, Installed, Mach!PortIsServed, Mach!BugsAreReported
<1>5. Mach!ResumedAsAWhole'
  BY <1>1, <1>2 DEF MachInv, Mach!ResumedAsAWhole, Mach!Suspended
<1>6. Messages'
  BY <1>1, <1>2 DEF Messages, Mach!Suspended
<1>7. Written'
  BY <1>1, <1>2 DEF Written
<1> QED
  BY <1>3, <1>4, <1>5, <1>6, <1>7 DEF MachInv

LEMMA ReplyStep == MachInv /\ Mach!Reply => MachInv'
<1> SUFFICES ASSUME MachInv, Mach!Reply PROVE MachInv'
  OBVIOUS
<1> USE DEF Mach!Reply, Mach!installVars
<1>1. Messages /\ Written /\ Mach!Suspended(request) /\ request \in Threads
  BY DEF MachInv, Messages, MachTypes
<1>2. CASE at = "failure"
  <2>1. ~Mach!Running' /\ UNCHANGED <<fault, at, mcode>>
    BY <1>2 DEF Mach!ReplyFailure, Mach!Running
  <2> QED
    BY <2>1 DEF MachInv, MachTypes, Installed, Mach!PortIsServed, Mach!BugsAreReported,
       Mach!ResumedAsAWhole, Mach!Suspended
<1>3. CASE at = "success"
  <2>1. /\ fault' = [fault EXCEPT ![request] = "none"] /\ at' = "receive" /\ UNCHANGED mend
        /\ mcode' = [mcode EXCEPT ![request] = "trap code"]
        /\ request \in started /\ written[request] = {"float", "thread"}
    <3>1. /\ request \in started /\ "float" \in written[request] /\ "thread" \in written[request]
      BY <1>1, <1>3 DEF Written
    <3>2. written[request] \subseteq {"float", "thread"}
      BY <1>1 DEF MachInv, MachTypes
    <3> QED
      BY <1>3, <3>1, <3>2
  <2>2. MachTypes' /\ Installed' /\ Mach!PortIsServed'
    BY <2>1 DEF MachInv, MachTypes, Installed, Mach!PortIsServed
  <2>3. Mach!ResumedAsAWhole' /\ Mach!BugsAreReported'
    BY <1>1, <2>1 DEF MachInv, MachTypes, Mach!ResumedAsAWhole, Mach!BugsAreReported,
       Mach!Suspended
  <2>4. fault'[request] = "none" /\ \A u \in Threads \ {request} : fault'[u] = fault[u]
    BY <2>1 DEF MachInv, MachTypes
  <2>5. Messages' /\ Written'
    BY <1>1, <1>3, <2>1, <2>4 DEF Messages, Written, Mach!Suspended
  <2> QED
    BY <2>2, <2>3, <2>5 DEF MachInv
<1> QED
  BY <1>2, <1>3

LEMMA MachKeeps == MachInv /\ [NextAll]_allvars => MachInv'
<1> SUFFICES ASSUME MachInv, [NextAll]_allvars PROVE MachInv'
  OBVIOUS
<1>1. CASE UNCHANGED machvars
  <2>1. Mach!Running' => Mach!Running
    BY <1>1 DEF machvars, Mach!Running
  <2> QED
    BY <1>1, <2>1 DEF machvars, MachInv, MachTypes, Installed, Mach!PortIsServed,
       Mach!BugsAreReported, Mach!ResumedAsAWhole, Mach!Suspended, Messages, Written
<1>2. CASE Mach!EnsureLazyProcessSignalHandlers \/ Mach!ReceiveFails \/ Mach!Receive
           \/ Mach!GetState \/ Mach!HandleTrap \/ Mach!Reply
  BY <1>2, LazyStep, ReceiveFailsStep, ReceiveStep, GetStateStep, HandleTrapStep, ReplyStep
<1>3. CASE Mach!SetFloatState \/ Mach!SetThreadState
  BY <1>3, SetStateStep DEF Mach!SetFloatState, Mach!SetThreadState
<1>4. ASSUME NEW t \in Threads,
             Mach!EnsureFullSignalHandlers(t) \/ Mach!RunWasm(t) \/ Mach!finishWasmTrap(t)
      PROVE  MachInv'
  BY <1>4, FullStep, RunStep, FinishStep
<1>5. ASSUME NEW t \in Threads, Mach!Trap(t) PROVE MachInv'
  BY <1>5, RaiseStep DEF Mach!Trap
<1>6. ASSUME NEW t \in Threads, Mach!Bug(t) PROVE MachInv'
  BY <1>6, RaiseStep DEF Mach!Bug
<1> QED
  BY <1>1, <1>2, <1>3, <1>4, <1>5, <1>6 DEF NextAll, Layout, Forks, Handlers, Exceptions, Filtered,
     Unaligned, allvars, Mach!MachNext

\* The bugs stay within their bound, and the process ends in one of its ways.
MachEnds == bugs \in 0 .. MaxBugs /\ mend \in {"", "assertion", "reported"}

LEMMA MachEndsKept == MachEnds /\ [NextAll]_allvars => MachEnds'
<1> SUFFICES ASSUME MachEnds, [NextAll]_allvars PROVE MachEnds'
  OBVIOUS
<1>1. \/ UNCHANGED bugs
      \/ bugs < MaxBugs /\ bugs' = bugs + 1
  BY DEF NextAll, Layout, Forks, Handlers, Exceptions, Filtered, Unaligned, allvars, machvars,
     Mach!MachNext, Mach!EnsureLazyProcessSignalHandlers, Mach!EnsureFullSignalHandlers,
     Mach!RunWasm, Mach!finishWasmTrap, Mach!Trap, Mach!Bug, Mach!ReceiveFails, Mach!Receive,
     Mach!GetState, Mach!HandleTrap, Mach!SetFloatState, Mach!SetThreadState, Mach!SetState,
     Mach!Reply
<1>2. mend' \in {mend, "assertion", "reported"}
  BY DEF NextAll, Layout, Forks, Handlers, Exceptions, Filtered, Unaligned, allvars, machvars,
     Mach!MachNext, Mach!EnsureLazyProcessSignalHandlers, Mach!EnsureFullSignalHandlers,
     Mach!RunWasm, Mach!finishWasmTrap, Mach!Trap, Mach!Bug, Mach!Raise, Mach!ReceiveFails,
     Mach!CrashTheProcess, Mach!Receive, Mach!GetState, Mach!HandleTrap, Mach!SetFloatState,
     Mach!SetThreadState, Mach!SetState, Mach!Reply, Mach!ReplyFailure
<1>3. bugs \in 0 .. MaxBugs /\ MaxBugs \in Nat
  BY WasmAssumption DEF MachEnds, Mach!MachAssumption
<1>4. bugs' \in 0 .. MaxBugs
  BY <1>1, <1>3
<1> QED
  BY <1>2, <1>4 DEF MachEnds

LEMMA MachTyped == MachInv /\ MachEnds => Mach!TypeOK
BY DEF MachInv, MachTypes, MachEnds, Mach!TypeOK

\* The kernel gets one true answer for each fault (WasmSignalHandlers.cpp 688-910).
LEMMA MachIsSorted == SpecAll => []Mach!FaultsAreSorted
<1>1. InitAll => MachEnds
  <2>1. MaxBugs \in Nat
    BY WasmAssumption DEF Mach!MachAssumption
  <2>2. InitAll => bugs = 0
    BY DEF InitAll, Mach!Init
  <2>3. InitAll => bugs \in 0 .. MaxBugs
    BY <2>1, <2>2
  <2> QED
    BY <2>3 DEF MachEnds, InitAll, Mach!Init
<1>2. MachInv /\ MachEnds => Mach!FaultsAreSorted
  BY OneReply, MachTyped DEF MachInv, Mach!FaultsAreSorted
<1> QED
  BY <1>1, <1>2, InitMachInv, MachKeeps, MachEndsKept, PTL DEF SpecAll

-----------------------------------------------------------------------------
(* WasmSignals: the stack of the handlers of one thread.                       *)

\* No frame is of an overflow, and the flag says whether the one in HandleTrap is there.
FramesOK(s, flag) ==
    /\ s \in Seq(Signals!Frame)
    /\ \A i \in DOMAIN s : s[i].kind # "overflow"
    /\ \A i, j \in DOMAIN s : s[i].at = "trap" /\ s[j].at = "trap" => i = j
    /\ flag <=> \E i \in DOMAIN s : s[i].at = "trap"

\* No handler, or the one of a trap.
CalmFrames(s) ==
    s = <<>> \/ (Len(s) = 1 /\ s[1].kind = "trap" /\ s[1].at \in {"entry", "trap"})

Moved(s, w) == [s EXCEPT ![Len(s)].at = w]
Popped(s) == SubSeq(s, 1, Len(s) - 1)

LEMMA PushedShape ==
  ASSUME NEW s \in Seq(Signals!Frame), NEW f \in Signals!Frame
  PROVE  /\ Append(s, f) \in Seq(Signals!Frame) /\ DOMAIN Append(s, f) = DOMAIN s \cup {Len(s) + 1}
         /\ Append(s, f)[Len(s) + 1] = f /\ \A n \in DOMAIN s : Append(s, f)[n] = s[n]
OBVIOUS

LEMMA PoppedShape ==
  ASSUME NEW s \in Seq(Signals!Frame), s # <<>>
  PROVE  /\ Popped(s) \in Seq(Signals!Frame) /\ DOMAIN Popped(s) = DOMAIN s \ {Len(s)}
         /\ Len(s) \in DOMAIN s /\ \A n \in DOMAIN Popped(s) : Popped(s)[n] = s[n]
<1>1. DOMAIN s = 1 .. Len(s) /\ Len(s) \in Nat \ {0} /\ Len(s) \in DOMAIN s
  OBVIOUS
<1>2. /\ Popped(s) \in Seq(Signals!Frame) /\ DOMAIN Popped(s) = 1 .. (Len(s) - 1)
      /\ \A n \in 1 .. (Len(s) - 1) : Popped(s)[n] = s[n]
  BY <1>1 DEF Popped
<1>3. 1 .. (Len(s) - 1) = (1 .. Len(s)) \ {Len(s)}
  BY <1>1
<1> QED
  BY <1>1, <1>2, <1>3

LEMMA MovedShape ==
  ASSUME NEW s \in Seq(Signals!Frame), s # <<>>,
         NEW w \in {"entry", "trap", "forward", "previous"}
  PROVE  /\ Moved(s, w) \in Seq(Signals!Frame) /\ DOMAIN Moved(s, w) = DOMAIN s
         /\ Len(Moved(s, w)) = Len(s)
         /\ Len(s) \in DOMAIN s /\ Moved(s, w)[Len(s)].at = w
         /\ Moved(s, w)[Len(s)].kind = s[Len(s)].kind
         /\ \A n \in DOMAIN s \ {Len(s)} : Moved(s, w)[n] = s[n]
<1>1. Len(s) \in DOMAIN s /\ s[Len(s)] \in Signals!Frame
  OBVIOUS
<1> DEFINE f == [s[Len(s)] EXCEPT !.at = w]
<1>2. f \in Signals!Frame /\ f.at = w /\ f.kind = s[Len(s)].kind
  BY <1>1 DEF Signals!Frame
<1>3. Moved(s, w) = [s EXCEPT ![Len(s)] = f]
  BY <1>1 DEF Moved
<1> HIDE DEF f
<1> QED
  BY <1>1, <1>2, <1>3

LEMMA PushedFrame ==
  ASSUME NEW s, NEW flag \in BOOLEAN, FramesOK(s, flag),
         NEW f \in Signals!Frame, f.kind # "overflow", f.at # "trap"
  PROVE  FramesOK(Append(s, f), flag)
BY PushedShape DEF FramesOK

LEMMA PoppedFrame ==
  ASSUME NEW s, NEW flag \in BOOLEAN, FramesOK(s, flag), s # <<>>
  PROVE  /\ s[Len(s)].at # "trap" => FramesOK(Popped(s), flag)
         /\ s[Len(s)].at = "trap" => FramesOK(Popped(s), FALSE)
<1> DEFINE p == Popped(s)
<1> DEFINE l == Len(s)
<1>1. s \in Seq(Signals!Frame) /\ \A i \in DOMAIN s : s[i].kind # "overflow"
  BY DEF FramesOK
<1>2. /\ p \in Seq(Signals!Frame) /\ DOMAIN p = DOMAIN s \ {l} /\ l \in DOMAIN s
      /\ \A n \in DOMAIN p : p[n] = s[n]
  BY <1>1, PoppedShape
<1>3. \A i, j \in DOMAIN s : s[i].at = "trap" /\ s[j].at = "trap" => i = j
  BY DEF FramesOK
<1>4. flag <=> \E i \in DOMAIN s : s[i].at = "trap"
  BY DEF FramesOK
<1> HIDE DEF p, l
<1>5. \A i \in DOMAIN p : p[i].kind # "overflow"
  BY <1>1, <1>2
<1>6. \A i, j \in DOMAIN p : p[i].at = "trap" /\ p[j].at = "trap" => i = j
  BY <1>2, <1>3
<1>7. ASSUME s[l].at # "trap" PROVE flag <=> \E i \in DOMAIN p : p[i].at = "trap"
  BY <1>2, <1>4, <1>7
<1>8. ASSUME s[l].at = "trap" PROVE FALSE <=> \E i \in DOMAIN p : p[i].at = "trap"
  BY <1>2, <1>3, <1>8
<1>9. /\ s[l].at # "trap" => FramesOK(p, flag)
      /\ s[l].at = "trap" => FramesOK(p, FALSE)
  BY <1>2, <1>5, <1>6, <1>7, <1>8 DEF FramesOK
<1> QED
  BY <1>9 DEF p, l

LEMMA MovedFrame ==
  ASSUME NEW s, NEW flag \in BOOLEAN, FramesOK(s, flag), s # <<>>
  PROVE  /\ s[Len(s)].at # "trap" => \A w \in {"forward", "previous"} :
                FramesOK(Moved(s, w), flag)
         /\ s[Len(s)].at = "trap" => FramesOK(Moved(s, "forward"), FALSE)
         /\ ~flag => FramesOK(Moved(s, "trap"), TRUE)
<1>1. s \in Seq(Signals!Frame) /\ Len(s) \in DOMAIN s
  BY PoppedShape DEF FramesOK
<1>2. ASSUME NEW w \in {"trap", "forward", "previous"}
      PROVE  /\ Moved(s, w) \in Seq(Signals!Frame) /\ DOMAIN Moved(s, w) = DOMAIN s
             /\ \A i \in DOMAIN Moved(s, w) : Moved(s, w)[i].kind # "overflow"
             /\ \A i \in DOMAIN Moved(s, w) \ {Len(s)} : Moved(s, w)[i].at = s[i].at
             /\ Moved(s, w)[Len(s)].at = w
  <2>1. w \in {"entry", "trap", "forward", "previous"}
    OBVIOUS
  <2>2. /\ Moved(s, w) \in Seq(Signals!Frame) /\ DOMAIN Moved(s, w) = DOMAIN s
        /\ Moved(s, w)[Len(s)].at = w /\ Moved(s, w)[Len(s)].kind = s[Len(s)].kind
        /\ \A n \in DOMAIN s \ {Len(s)} : Moved(s, w)[n] = s[n]
    BY <1>1, <2>1, MovedShape
  <2>3. \A i \in DOMAIN s : s[i].kind # "overflow"
    BY DEF FramesOK
  <2> QED
    BY <1>1, <2>2, <2>3
<1>3. ASSUME s[Len(s)].at # "trap", NEW w \in {"forward", "previous"}
      PROVE  FramesOK(Moved(s, w), flag)
  <2>1. w \in {"trap", "forward", "previous"} /\ w # "trap"
    OBVIOUS
  <2> QED
    BY <1>1, <1>2, <1>3, <2>1 DEF FramesOK
<1>4. ASSUME s[Len(s)].at = "trap" PROVE FramesOK(Moved(s, "forward"), FALSE)
  <2>1. "forward" \in {"trap", "forward", "previous"}
    OBVIOUS
  <2> QED
    BY <1>1, <1>2, <1>4, <2>1 DEF FramesOK
<1>5. ASSUME ~flag PROVE FramesOK(Moved(s, "trap"), TRUE)
  <2>1. "trap" \in {"trap", "forward", "previous"}
    OBVIOUS
  <2> QED
    BY <1>1, <1>2, <1>5, <2>1 DEF FramesOK
<1> QED
  BY <1>3, <1>4, <1>5

-----------------------------------------------------------------------------
(* What its steps keep.                                                        *)

SignalTypes ==
    /\ eager \in {"untried", "failed", "segv", "success"}
    /\ disposition \in [Signals!Signals -> {"dfl", "ign", "handler", "wasm"}]
    /\ tried \in [Threads -> BOOLEAN] /\ have \in [Threads -> BOOLEAN]
    /\ code \in [Threads -> {"native", "wasm", "trap code"}]
    /\ again \in [Threads -> Signals!Fault \cup {Signals!NoFault}]

Handlings ==
    /\ frames \in [Threads -> Seq(Signals!Frame)]
    /\ sAlreadyHandlingTrap \in [Threads -> BOOLEAN]
    /\ \A t \in Threads : FramesOK(frames[t], sAlreadyHandlingTrap[t])

NoBugYet == faults = 0

\* Nothing but traps, which the handlers are installed for.
Calm ==
    /\ \A t \in Threads : again[t] = Signals!NoFault /\ CalmFrames(frames[t])
    /\ eager \in {"segv", "success"} => disposition["SEGV"] = "wasm"
    /\ eager = "success" => disposition["ILL"] = "wasm"
    /\ \A t \in Threads : have[t] => eager = "success"
    /\ end # "reported" /\ end \notin Signals!Signals

SignalInv ==
    /\ SignalTypes /\ Handlings
    /\ \A t \in Threads : again[t].kind # "overflow"
    /\ \A t \in Threads : (code[t] = "wasm" => have[t]) /\ (have[t] => tried[t])
    /\ Signals!NextHandlerIsCalled
    /\ NoBugYet => Calm

LEMMA SafeSignals == SignalInv => /\ Signals!NoRecursion /\ Signals!NextHandlerIsCalled
                                  /\ Signals!HaveMeansInstalled
<1> SUFFICES ASSUME SignalInv
             PROVE  Signals!NoRecursion /\ Signals!HaveMeansInstalled
  BY DEF SignalInv
<1>1. ASSUME NEW t \in Threads
      PROVE  /\ Signals!Cardinality(Signals!InHandleTrap(t)) <= 1
             /\ sAlreadyHandlingTrap[t] <=> Signals!InHandleTrap(t) # {}
  <2>1. FramesOK(frames[t], sAlreadyHandlingTrap[t])
    BY DEF SignalInv, Handlings
  <2>2. sAlreadyHandlingTrap[t] <=> Signals!InHandleTrap(t) # {}
    BY <2>1 DEF FramesOK, Signals!InHandleTrap
  <2>3. CASE Signals!InHandleTrap(t) = {}
    <3>1. Cardinality(Signals!InHandleTrap(t)) = 0
      BY <2>3, FS_EmptySet
    <3> QED
      BY <2>2, <3>1 DEF Cardinality, Signals!Cardinality
  <2>4. CASE Signals!InHandleTrap(t) # {}
    <3>1. PICK i : i \in Signals!InHandleTrap(t)
      BY <2>4
    <3>2. Signals!InHandleTrap(t) = {i}
      BY <2>1, <3>1 DEF FramesOK, Signals!InHandleTrap
    <3>3. Cardinality(Signals!InHandleTrap(t)) = 1
      BY <3>2, FS_Singleton
    <3> QED
      BY <2>2, <3>3 DEF Cardinality, Signals!Cardinality
  <2> QED
    BY <2>3, <2>4
<1>2. Signals!HaveMeansInstalled
  BY DEF SignalInv, Calm, NoBugYet, Signals!HaveMeansInstalled, Signals!Signals
<1> QED
  BY <1>1, <1>2 DEF Signals!NoRecursion

LEMMA InitSignalInv == InitAll => SignalInv
<1> SUFFICES ASSUME InitAll PROVE SignalInv
  OBVIOUS
<1>1. Signals!Init
  BY DEF InitAll
<1>2. Previous \in [Signals!Signals -> {"dfl", "ign", "handler", "wasm"}]
  BY DEF Previous, Signals!Signals
<1>3. SignalTypes
  BY <1>1, <1>2 DEF Signals!Init, SignalTypes
<1>4. FramesOK(<<>>, FALSE) /\ CalmFrames(<<>>)
  BY DEF FramesOK, CalmFrames
<1>5. Handlings
  <2>1. frames = [t \in Threads |-> <<>>] /\ sAlreadyHandlingTrap = [t \in Threads |-> FALSE]
    BY <1>1 DEF Signals!Init
  <2>2. <<>> \in Seq(Signals!Frame)
    OBVIOUS
  <2> QED
    BY <1>4, <2>1, <2>2 DEF Handlings
<1>6. end \notin Signals!Signals /\ end # "reported"
  BY <1>1 DEF Signals!Init, Signals!Signals
<1>7. Calm
  <2>1. /\ again = [t \in Threads |-> Signals!NoFault] /\ frames = [t \in Threads |-> <<>>]
        /\ have = [t \in Threads |-> FALSE] /\ eager = "untried"
    BY <1>1 DEF Signals!Init
  <2> QED
    BY <1>4, <1>6, <2>1 DEF Calm
<1>8. \A t \in Threads : code[t] = "native" /\ ~have[t] /\ again[t].kind # "overflow"
  BY <1>1 DEF Signals!Init, Signals!NoFault
<1> QED
  BY <1>3, <1>5, <1>6, <1>7, <1>8 DEF SignalInv, Signals!NextHandlerIsCalled

-----------------------------------------------------------------------------
(* Its installation.                                                           *)

LEMMA NotEnded == Signals!Running => end \notin Signals!Signals /\ end # "reported"
BY DEF Signals!Running, Signals!Signals

LEMMA InstallStep == ASSUME SignalInv, Signals!InstallSegv \/ Signals!InstallTrap PROVE SignalInv'
<1> USE DEF Signals!InstallSegv, Signals!InstallTrap, Signals!Sigaction, Signals!threadVars
<1>1. /\ Signals!Running /\ eager \in {"untried", "segv"}
      /\ UNCHANGED <<tried, have, code, again, frames, sAlreadyHandlingTrap, faults>>
  OBVIOUS
<1>2. end' \notin Signals!Signals /\ end' # "reported"
  BY <1>1, NotEnded DEF Signals!Signals
<1>3. \/ UNCHANGED <<disposition, eager>>
      \/ /\ disposition' = [disposition EXCEPT !["SEGV"] = "wasm"]
         /\ eager = "untried" /\ eager' = "segv"
      \/ /\ disposition' = [disposition EXCEPT !["ILL"] = "wasm"]
         /\ eager = "segv" /\ eager' = "success"
  OBVIOUS
<1> HIDE DEF Signals!InstallSegv, Signals!InstallTrap, Signals!Sigaction, Signals!threadVars
<1>4. disposition \in [{"SEGV", "ILL"} -> {"dfl", "ign", "handler", "wasm"}]
  BY DEF SignalInv, SignalTypes, Signals!Signals
<1>5. SignalTypes'
  BY <1>1, <1>3, <1>4 DEF SignalInv, SignalTypes, Signals!Signals
<1>6. Handlings'
  BY <1>1 DEF SignalInv, Handlings
<1>7. NoBugYet' => Calm'
  BY <1>1, <1>2, <1>3, <1>4 DEF SignalInv, NoBugYet, Calm
<1> QED
  BY <1>1, <1>2, <1>5, <1>6, <1>7 DEF SignalInv, Signals!NextHandlerIsCalled

LEMMA NothingStep == ASSUME SignalInv, Signals!InstallNothing PROVE SignalInv'
<1> USE DEF Signals!InstallNothing, Signals!threadVars
<1>1. SignalTypes' /\ Handlings'
  BY DEF SignalInv, SignalTypes, Handlings
<1>2. NoBugYet' => Calm'
  BY DEF SignalInv, NoBugYet, Calm
<1> QED
  BY <1>1, <1>2 DEF SignalInv, Signals!NextHandlerIsCalled

LEMMA EnsureStep ==
  ASSUME SignalInv, NEW t \in Threads, Signals!EnsureFullSignalHandlers(t) PROVE SignalInv'
<1> USE DEF Signals!EnsureFullSignalHandlers, Signals!threadVars
<1>1. /\ tried' = [tried EXCEPT ![t] = TRUE] /\ have' = [have EXCEPT ![t] = (eager = "success")]
      /\ ~tried[t]
  BY DEF Signals!HadWhenInstalled
<1>2. SignalTypes' /\ Handlings'
  BY <1>1 DEF SignalInv, SignalTypes, Handlings
<1>3. \A u \in Threads : (u # t => have'[u] = have[u]) /\ (have'[t] => eager = "success")
  BY <1>1 DEF SignalInv, SignalTypes
<1>4. NoBugYet' => Calm'
  BY <1>3 DEF SignalInv, NoBugYet, Calm
<1>5. \A u \in Threads : (code'[u] = "wasm" => have'[u]) /\ (have'[u] => tried'[u])
  BY <1>1 DEF SignalInv, SignalTypes
<1> QED
  BY <1>2, <1>4, <1>5 DEF SignalInv, Signals!NextHandlerIsCalled

LEMMA CodeStep ==
  ASSUME SignalInv, NEW t \in Threads, Signals!RunWasm(t) \/ Signals!finishWasmTrap(t)
  PROVE  SignalInv'
<1> USE DEF Signals!RunWasm, Signals!finishWasmTrap, Signals!installVars
<1>1. SignalTypes' /\ Handlings'
  BY DEF SignalInv, SignalTypes, Handlings
<1>2. NoBugYet' => Calm'
  BY DEF SignalInv, NoBugYet, Calm
<1>3. \A u \in Threads : (code'[u] = "wasm" => have'[u]) /\ (have'[u] => tried'[u])
  BY DEF SignalInv, SignalTypes
<1> QED
  BY <1>1, <1>2, <1>3 DEF SignalInv, Signals!NextHandlerIsCalled

-----------------------------------------------------------------------------
(* Its handlers.                                                               *)

LEMMA FramesStep ==
  ASSUME Handlings, NEW t \in Threads, NEW s, NEW flag \in BOOLEAN, FramesOK(s, flag),
         frames' = [frames EXCEPT ![t] = s],
         sAlreadyHandlingTrap' = [sAlreadyHandlingTrap EXCEPT ![t] = flag]
  PROVE  Handlings'
<1>1. s \in Seq(Signals!Frame)
  BY DEF FramesOK
<1>2. frames' \in [Threads -> Seq(Signals!Frame)] /\ sAlreadyHandlingTrap' \in [Threads -> BOOLEAN]
  BY <1>1 DEF Handlings
<1>3. ASSUME NEW u \in Threads PROVE FramesOK(frames'[u], sAlreadyHandlingTrap'[u])
  <2>1. CASE u = t
    <3>1. frames'[u] = s /\ sAlreadyHandlingTrap'[u] = flag
      BY <2>1 DEF Handlings
    <3> QED
      BY <3>1
  <2>2. CASE u # t
    <3>1. frames'[u] = frames[u] /\ sAlreadyHandlingTrap'[u] = sAlreadyHandlingTrap[u]
      BY <2>2 DEF Handlings
    <3> QED
      BY <3>1 DEF Handlings
  <2> QED
    BY <2>1, <2>2
<1> QED
  BY <1>2, <1>3 DEF Handlings

LEMMA FramesStepSame ==
  ASSUME Handlings, NEW t \in Threads, NEW s, FramesOK(s, sAlreadyHandlingTrap[t]),
         frames' = [frames EXCEPT ![t] = s], UNCHANGED sAlreadyHandlingTrap
  PROVE  Handlings'
<1>1. s \in Seq(Signals!Frame)
  BY DEF FramesOK
<1>2. frames' \in [Threads -> Seq(Signals!Frame)] /\ sAlreadyHandlingTrap' \in [Threads -> BOOLEAN]
  BY <1>1 DEF Handlings
<1>3. ASSUME NEW u \in Threads PROVE FramesOK(frames'[u], sAlreadyHandlingTrap[u])
  <2>1. frames'[u] = IF u = t THEN s ELSE frames[u]
    BY DEF Handlings
  <2> QED
    BY <2>1 DEF Handlings
<1> QED
  BY <1>2, <1>3 DEF Handlings

\* A handler that is running does not keep the signal from being delivered (lines 948-959).
LEMMA NeverBlocked == \A t, sig : ~Signals!Blocked(t, sig)
BY DEF Signals!Blocked, Signals!sa_flags

LEMMA DeliverStep ==
  ASSUME SignalInv, Signals!Running, NEW t \in Threads,
         NEW f \in [sig : Signals!Signals, kind : {"trap", "bug"}], Signals!Deliver(t, f),
         UNCHANGED <<disposition, sAlreadyHandlingTrap>>
  PROVE  /\ Handlings' /\ Signals!NextHandlerIsCalled'
         /\ frames[t] = <<>> /\ f.kind = "trap" /\ disposition[f.sig] = "wasm" =>
               /\ UNCHANGED end /\ CalmFrames(frames'[t])
               /\ \A u \in Threads \ {t} : frames'[u] = frames[u]
<1>1. f.sig \in Signals!Signals /\ f.kind \in {"trap", "bug"} /\ f.kind # "overflow"
  OBVIOUS
<1>2. CASE disposition[f.sig] \in {"dfl", "ign"}
  <2>1. end' = f.sig /\ UNCHANGED frames
    BY <1>2 DEF Signals!Deliver
  <2> QED
    BY <1>2, <2>1 DEF SignalInv, Handlings, Signals!NextHandlerIsCalled
<1>3. CASE disposition[f.sig] \notin {"dfl", "ign"}
  <2> DEFINE g == [sig |-> f.sig, kind |-> f.kind, at |-> Signals!Called(f.sig)]
  <2>1. frames' = [frames EXCEPT ![t] = Append(@, g)] /\ UNCHANGED end
    BY <1>1, <1>3, NeverBlocked DEF Signals!Deliver
  <2>2. /\ g \in Signals!Frame /\ g.kind = f.kind /\ g.at \in {"entry", "previous"}
        /\ disposition[f.sig] = "wasm" => g.at = "entry"
    BY <1>1 DEF Signals!Frame, Signals!Called
  <2> HIDE DEF g
  <2>3. /\ FramesOK(frames[t], sAlreadyHandlingTrap[t]) /\ sAlreadyHandlingTrap[t] \in BOOLEAN
        /\ frames \in [Threads -> Seq(Signals!Frame)] /\ Handlings
    BY DEF SignalInv, Handlings
  <2>4. FramesOK(Append(frames[t], g), sAlreadyHandlingTrap[t])
    BY <1>1, <2>2, <2>3, PushedFrame
  <2>5. /\ frames' = [frames EXCEPT ![t] = Append(frames[t], g)]
        /\ sAlreadyHandlingTrap' = [sAlreadyHandlingTrap EXCEPT ![t] = sAlreadyHandlingTrap[t]]
    BY <2>1, <2>3 DEF SignalInv, Handlings
  <2>6. Handlings'
    <3> DEFINE s == Append(frames[t], g)
    <3>1. FramesOK(s, sAlreadyHandlingTrap[t]) /\ frames' = [frames EXCEPT ![t] = s]
      BY <2>4, <2>5
    <3> HIDE DEF s
    <3> QED
      BY <2>3, <3>1, FramesStepSame
  <2>7. end' \notin Signals!Signals
    BY <2>1, NotEnded
  <2>8. ASSUME frames[t] = <<>>, f.kind = "trap", disposition[f.sig] = "wasm"
        PROVE  CalmFrames(frames'[t]) /\ \A u \in Threads \ {t} : frames'[u] = frames[u]
    <3>1. frames'[t] = <<g>>
      BY <2>3, <2>5, <2>8
    <3>2. Len(<<g>>) = 1 /\ <<g>>[1] = g
      OBVIOUS
    <3>3. CalmFrames(<<g>>)
      BY <2>2, <2>8, <3>2 DEF CalmFrames
    <3> QED
      BY <2>3, <2>5, <3>1, <3>3
  <2> QED
    BY <2>1, <2>6, <2>7, <2>8 DEF Signals!NextHandlerIsCalled
<1> QED
  BY <1>2, <1>3

LEMMA TrapStep == ASSUME SignalInv, NEW t \in Threads, Signals!Trap(t) PROVE SignalInv'
<1>1. PICK sig \in Signals!Signals : Signals!Deliver(t, [sig |-> sig, kind |-> "trap"])
  BY DEF Signals!Trap
<1> DEFINE f == [sig |-> sig, kind |-> "trap"]
<1>2. /\ f \in [sig : Signals!Signals, kind : {"trap", "bug"}] /\ f.sig = sig /\ f.kind = "trap"
      /\ Signals!Deliver(t, f)
  BY <1>1
<1> HIDE DEF f
<1>3. /\ Signals!Running /\ code[t] = "wasm" /\ frames[t] = <<>>
      /\ UNCHANGED <<eager, tried, have, disposition, code, again, sAlreadyHandlingTrap, faults>>
  BY DEF Signals!Trap, Signals!installVars
<1>4. Handlings' /\ Signals!NextHandlerIsCalled'
  BY <1>2, <1>3, DeliverStep
<1>5. ASSUME NoBugYet' PROVE Calm'
  <2>1. Calm /\ have[t]
    BY <1>3, <1>5 DEF SignalInv, NoBugYet
  <2>2. disposition[sig] = "wasm"
    BY <2>1 DEF Calm, Signals!Signals
  <2>3. /\ UNCHANGED end /\ CalmFrames(frames'[t])
        /\ \A u \in Threads \ {t} : frames'[u] = frames[u]
    BY <1>2, <1>3, <2>2, DeliverStep
  <2> QED
    BY <1>3, <2>1, <2>3 DEF Calm
<1> QED
  BY <1>3, <1>4, <1>5 DEF SignalInv, SignalTypes

LEMMA BugStep ==
  ASSUME "overflow" \notin Kinds, SignalInv, faults \in Nat, NEW t \in Threads, Signals!Bug(t)
  PROVE  SignalInv'
<1>1. PICK sig \in Signals!Signals, kind \in Kinds \cap {"bug", "overflow"} :
         Signals!Deliver(t, [sig |-> sig, kind |-> kind])
  BY DEF Signals!Bug
<1> DEFINE f == [sig |-> sig, kind |-> kind]
<1>2. f \in [sig : Signals!Signals, kind : {"trap", "bug"}] /\ Signals!Deliver(t, f)
  BY <1>1
<1> HIDE DEF f
<1>3. /\ Signals!Running
      /\ UNCHANGED <<eager, tried, have, disposition, code, again, sAlreadyHandlingTrap>>
  BY DEF Signals!Bug, Signals!installVars
<1>4. Handlings' /\ Signals!NextHandlerIsCalled'
  BY <1>2, <1>3, DeliverStep
<1>5. ~NoBugYet'
  BY DEF Signals!Bug, NoBugYet
<1> QED
  BY <1>3, <1>4, <1>5 DEF SignalInv, SignalTypes

LEMMA RefaultStep == ASSUME SignalInv, NEW t \in Threads, Signals!Refault(t) PROVE SignalInv'
<1> DEFINE f == again[t]
<1>1. /\ Signals!Running /\ f # Signals!NoFault /\ Signals!Deliver(t, f)
      /\ again' = [again EXCEPT ![t] = Signals!NoFault]
      /\ UNCHANGED <<eager, tried, have, disposition, code, sAlreadyHandlingTrap, faults>>
  BY DEF Signals!Refault, Signals!installVars
<1>2. f \in [sig : Signals!Signals, kind : {"trap", "bug"}]
  <2>1. f \in Signals!Fault /\ f.kind # "overflow"
    BY <1>1 DEF SignalInv, SignalTypes
  <2> QED
    BY <2>1 DEF Signals!Fault
<1>3. Handlings' /\ Signals!NextHandlerIsCalled'
  BY <1>1, <1>2, DeliverStep
<1>4. ~NoBugYet'
  BY <1>1 DEF SignalInv, NoBugYet, Calm
<1>5. /\ SignalTypes'
      /\ \A u \in Threads : again'[u].kind # "overflow"
  BY <1>1 DEF SignalInv, SignalTypes, Signals!NoFault
<1> QED
  BY <1>1, <1>3, <1>4, <1>5 DEF SignalInv

\* The handler at the top of a thread.
LEMMA TopFrame ==
  ASSUME SignalInv, NEW t \in Threads, frames[t] # <<>>
  PROVE  LET s == frames[t]
         IN  /\ Handlings /\ FramesOK(s, sAlreadyHandlingTrap[t])
             /\ sAlreadyHandlingTrap[t] \in BOOLEAN
             /\ s[Len(s)] \in Signals!Frame /\ s[Len(s)].kind # "overflow"
             /\ Signals!Top(t) = s[Len(s)]
             /\ Signals!Without(t) = [frames EXCEPT ![t] = Popped(s)]
             /\ \A w : Signals!GoTo(t, w) = [frames EXCEPT ![t] = Moved(s, w)]
             /\ sAlreadyHandlingTrap
                   = [sAlreadyHandlingTrap EXCEPT ![t] = sAlreadyHandlingTrap[t]]
             /\ NoBugYet => Len(s) = 1 /\ s[1].kind = "trap" /\ s[1].at \in {"entry", "trap"}
<1> DEFINE s == frames[t]
<1>1. /\ Handlings /\ FramesOK(s, sAlreadyHandlingTrap[t]) /\ sAlreadyHandlingTrap[t] \in BOOLEAN
      /\ frames \in [Threads -> Seq(Signals!Frame)]
      /\ sAlreadyHandlingTrap \in [Threads -> BOOLEAN]
  BY DEF SignalInv, Handlings
<1>2. s \in Seq(Signals!Frame) /\ Len(s) \in DOMAIN s
  BY <1>1, PoppedShape
<1>3. s[Len(s)] \in Signals!Frame /\ s[Len(s)].kind # "overflow"
  BY <1>1, <1>2 DEF FramesOK
<1>4. /\ Signals!Without(t) = [frames EXCEPT ![t] = Popped(s)]
      /\ \A w : Signals!GoTo(t, w) = [frames EXCEPT ![t] = Moved(s, w)]
  BY <1>1 DEF Signals!Without, Signals!GoTo, Popped, Moved
<1>5. NoBugYet => Len(s) = 1 /\ s[1].kind = "trap" /\ s[1].at \in {"entry", "trap"}
  BY DEF SignalInv, Calm, CalmFrames
<1> QED
  BY <1>1, <1>3, <1>4, <1>5 DEF Signals!Top

LEMMA MovedCalm ==
  ASSUME NEW s \in Seq(Signals!Frame), s # <<>>, NEW w \in {"entry", "trap"}, CalmFrames(s)
  PROVE  CalmFrames(Moved(s, w))
<1>1. w \in {"entry", "trap", "forward", "previous"}
  OBVIOUS
<1>2. Len(s) = 1 /\ s[1].kind = "trap"
  BY DEF CalmFrames
<1>3. Moved(s, w)[1].at = w /\ Moved(s, w)[1].kind = "trap" /\ Len(Moved(s, w)) = 1
  <2>1. /\ Len(Moved(s, w)) = Len(s) /\ Moved(s, w)[Len(s)].at = w
        /\ Moved(s, w)[Len(s)].kind = s[Len(s)].kind
    BY <1>1, MovedShape
  <2> QED
    BY <1>2, <2>1
<1> QED
  BY <1>3 DEF CalmFrames

LEMMA PoppedCalm ==
  ASSUME NEW s \in Seq(Signals!Frame), s # <<>>, CalmFrames(s) PROVE CalmFrames(Popped(s))
<1>1. Len(s) = 1
  BY DEF CalmFrames
<1>2. Popped(s) = <<>>
  BY <1>1 DEF Popped
<1> QED
  BY <1>2 DEF CalmFrames

\* A step of a handler that ends nothing and installs nothing.
LEMMA HandlerStep ==
  ASSUME SignalInv, Handlings', NEW t \in Threads,
         UNCHANGED <<eager, tried, have, disposition, again, faults, end>>,
         code' = code \/ code' = [code EXCEPT ![t] = "trap code"],
         frames' \in {Signals!Without(t)} \/ frames' \in {Signals!GoTo(t, "trap")},
         frames[t] # <<>>
  PROVE  SignalInv'
<1>1. SignalTypes'
  BY DEF SignalInv, SignalTypes
<1>2. \A u \in Threads : (code'[u] = "wasm" => have'[u]) /\ (have'[u] => tried'[u])
  BY DEF SignalInv, SignalTypes
<1>3. ASSUME NoBugYet' PROVE Calm'
  <2>1. Calm /\ NoBugYet /\ frames \in [Threads -> Seq(Signals!Frame)]
    BY <1>3 DEF SignalInv, NoBugYet, Handlings
  <2>2. CalmFrames(frames[t]) /\ frames[t] \in Seq(Signals!Frame)
    BY <2>1 DEF Calm
  <2>3. CalmFrames(Popped(frames[t])) /\ CalmFrames(Moved(frames[t], "trap"))
    BY <2>2, PoppedCalm, MovedCalm
  <2>4. \/ frames' = [frames EXCEPT ![t] = Popped(frames[t])]
        \/ frames' = [frames EXCEPT ![t] = Moved(frames[t], "trap")]
    BY TopFrame
  <2>5. \A u \in Threads : CalmFrames(frames'[u])
    BY <2>1, <2>3, <2>4 DEF Calm
  <2> QED
    BY <2>1, <2>5 DEF Calm
<1> QED
  BY <1>1, <1>2, <1>3 DEF SignalInv, Signals!NextHandlerIsCalled

LEMMA EnterStep == ASSUME SignalInv, NEW t \in Threads, Signals!Enter(t) PROVE SignalInv'
<1> DEFINE s == frames[t]
<1>1. /\ s # <<>> /\ Signals!Top(t).at = "entry"
      /\ UNCHANGED <<eager, tried, have, disposition, code, again, faults, end>>
  BY DEF Signals!Enter, Signals!At, Signals!Active, Signals!installVars
<1>2. /\ Handlings /\ FramesOK(s, sAlreadyHandlingTrap[t]) /\ sAlreadyHandlingTrap[t] \in BOOLEAN
      /\ s[Len(s)].at = "entry"
      /\ sAlreadyHandlingTrap = [sAlreadyHandlingTrap EXCEPT ![t] = sAlreadyHandlingTrap[t]]
  BY <1>1, TopFrame
<1>3. CASE ~sAlreadyHandlingTrap[t]
  <2>1. /\ frames' = Signals!GoTo(t, "trap")
        /\ sAlreadyHandlingTrap' = [sAlreadyHandlingTrap EXCEPT ![t] = TRUE]
    BY <1>3 DEF Signals!Enter, Signals!NotYetHandling
  <2>2. FramesOK(Moved(s, "trap"), TRUE)
    BY <1>1, <1>2, <1>3, MovedFrame
  <2>3. frames' = [frames EXCEPT ![t] = Moved(s, "trap")]
    BY <1>1, <2>1, TopFrame
  <2>4. Handlings'
    BY <1>2, <2>1, <2>2, <2>3, FramesStep
  <2> QED
    BY <1>1, <2>1, <2>4, HandlerStep
<1>4. CASE sAlreadyHandlingTrap[t]
  <2>1. frames' = Signals!GoTo(t, "forward") /\ UNCHANGED sAlreadyHandlingTrap
    BY <1>4 DEF Signals!Enter, Signals!NotYetHandling
  <2>2. FramesOK(Moved(s, "forward"), sAlreadyHandlingTrap[t])
    BY <1>1, <1>2, MovedFrame
  <2>3. frames' = [frames EXCEPT ![t] = Moved(s, "forward")]
    BY <1>1, <2>1, TopFrame
  <2>4. sAlreadyHandlingTrap' = [sAlreadyHandlingTrap EXCEPT ![t] = sAlreadyHandlingTrap[t]]
    BY <1>2, <2>1
  <2>5. Handlings'
    BY <1>2, <2>2, <2>3, <2>4, FramesStep
  <2>6. ~NoBugYet
    <3>1. PICK i \in DOMAIN s : s[i].at = "trap"
      BY <1>2, <1>4 DEF FramesOK
    <3>2. i # Len(s) /\ i \in 1 .. Len(s)
      BY <1>2, <3>1 DEF FramesOK
    <3> QED
      BY <1>1, <3>2, TopFrame
  <2> QED
    BY <1>1, <2>5, <2>6 DEF SignalInv, SignalTypes, NoBugYet, Signals!NextHandlerIsCalled
<1> QED
  BY <1>3, <1>4

LEMMA TrapHandlerStep ==
  ASSUME SignalInv, NEW t \in Threads, Signals!HandleTrap(t) PROVE SignalInv'
<1> DEFINE s == frames[t]
<1>1. /\ s # <<>> /\ Signals!Top(t).at = "trap"
      /\ UNCHANGED <<eager, tried, have, disposition, again, faults, end>>
      /\ sAlreadyHandlingTrap' = [sAlreadyHandlingTrap EXCEPT ![t] = FALSE]
  BY DEF Signals!HandleTrap, Signals!NoLongerHandling, Signals!At, Signals!Active,
     Signals!installVars
<1>2. /\ Handlings /\ FramesOK(s, sAlreadyHandlingTrap[t]) /\ sAlreadyHandlingTrap[t] \in BOOLEAN
      /\ s[Len(s)].at = "trap"
  BY <1>1, TopFrame
<1>3. CASE Signals!ExpectedTrap(t)
  <2>1. frames' = Signals!Without(t) /\ code' = [code EXCEPT ![t] = "trap code"]
    BY <1>3 DEF Signals!HandleTrap
  <2>2. FramesOK(Popped(s), FALSE) /\ frames' = [frames EXCEPT ![t] = Popped(s)]
    BY <1>1, <1>2, <2>1, PoppedFrame, TopFrame
  <2>3. Handlings'
    BY <1>1, <1>2, <2>2, FramesStep
  <2> QED
    BY <1>1, <2>1, <2>3, HandlerStep
<1>4. CASE ~Signals!ExpectedTrap(t)
  <2>1. frames' = Signals!GoTo(t, "forward") /\ UNCHANGED code
    BY <1>4 DEF Signals!HandleTrap
  <2>2. FramesOK(Moved(s, "forward"), FALSE) /\ frames' = [frames EXCEPT ![t] = Moved(s, "forward")]
    BY <1>1, <1>2, <2>1, MovedFrame, TopFrame
  <2>3. Handlings'
    BY <1>1, <1>2, <2>2, FramesStep
  <2>4. ~NoBugYet
    BY <1>1, <1>4, TopFrame DEF Signals!ExpectedTrap
  <2> QED
    BY <1>1, <2>1, <2>3, <2>4 DEF SignalInv, SignalTypes, NoBugYet, Signals!NextHandlerIsCalled
<1> QED
  BY <1>3, <1>4

\* A step past HandleTrap, in a process that has a bug.
LEMMA ForwardedStep ==
  ASSUME SignalInv, NEW t \in Threads, frames[t] # <<>>,
         Signals!Top(t).at \in {"forward", "previous"},
         UNCHANGED <<eager, tried, have, code, sAlreadyHandlingTrap, faults>>,
         \/ frames' = frames
         \/ frames' = Signals!Without(t)
         \/ frames' = Signals!GoTo(t, "previous"),
         again' \in {again, [again EXCEPT ![t] = [sig |-> Signals!Top(t).sig,
                                                  kind |-> Signals!Top(t).kind]]},
         disposition' \in [Signals!Signals -> {"dfl", "ign", "handler", "wasm"}],
         end' \notin Signals!Signals
  PROVE  SignalInv'
<1> DEFINE s == frames[t]
<1>1. /\ Handlings /\ FramesOK(s, sAlreadyHandlingTrap[t]) /\ sAlreadyHandlingTrap[t] \in BOOLEAN
      /\ s[Len(s)].at # "trap"
      /\ sAlreadyHandlingTrap' = [sAlreadyHandlingTrap EXCEPT ![t] = sAlreadyHandlingTrap[t]]
  BY TopFrame
<1>2. ~NoBugYet
  BY TopFrame
<1>3. Handlings'
  <2>1. FramesOK(Popped(s), sAlreadyHandlingTrap[t])
        /\ FramesOK(Moved(s, "previous"), sAlreadyHandlingTrap[t])
    BY <1>1, PoppedFrame, MovedFrame
  <2>2. CASE frames' = frames
    BY <1>1, <2>2 DEF Handlings
  <2>3. CASE frames' = Signals!Without(t)
    <3>1. frames' = [frames EXCEPT ![t] = Popped(s)]
      BY <2>3, TopFrame
    <3> QED
      BY <1>1, <2>1, <3>1, FramesStepSame
  <2>4. CASE frames' = Signals!GoTo(t, "previous")
    <3>1. frames' = [frames EXCEPT ![t] = Moved(s, "previous")]
      BY <2>4, TopFrame
    <3> QED
      BY <1>1, <2>1, <3>1, FramesStepSame
  <2> QED
    BY <2>2, <2>3, <2>4
<1>4. again' \in [Threads -> Signals!Fault \cup {Signals!NoFault}]
      /\ \A u \in Threads : again'[u].kind # "overflow"
  <2> DEFINE f == [sig |-> Signals!Top(t).sig, kind |-> Signals!Top(t).kind]
  <2>1. Signals!Top(t) \in Signals!Frame /\ Signals!Top(t).kind # "overflow"
    BY TopFrame
  <2>2. f \in Signals!Fault /\ f.kind # "overflow"
    BY <2>1 DEF Signals!Frame, Signals!Fault
  <2>3. again' \in {again, [again EXCEPT ![t] = f]}
    OBVIOUS
  <2> HIDE DEF f
  <2> QED
    BY <2>2, <2>3 DEF SignalInv, SignalTypes
<1> QED
  BY <1>2, <1>3, <1>4 DEF SignalInv, SignalTypes, NoBugYet, Signals!NextHandlerIsCalled

LEMMA ForwardStep == ASSUME SignalInv, NEW t \in Threads, Signals!Forward(t) PROVE SignalInv'
<1>1. /\ frames[t] # <<>> /\ Signals!Top(t).at = "forward" /\ Signals!Running
      /\ UNCHANGED <<eager, tried, have, code, sAlreadyHandlingTrap, faults, end>>
  BY DEF Signals!Forward, Signals!At, Signals!Active, Signals!installVars
<1>2. end' \notin Signals!Signals
  BY <1>1, NotEnded
<1>3. disposition \in [Signals!Signals -> {"dfl", "ign", "handler", "wasm"}]
      /\ \A sig \in Signals!Signals : Previous[sig] \in {"dfl", "handler"}
  BY DEF SignalInv, SignalTypes, Previous, Signals!Signals
<1>4. Signals!Top(t).sig \in Signals!Signals
  BY <1>1, TopFrame DEF Signals!Frame
<1>5. CASE Signals!NoNextHandler(t)
  <2>1. /\ disposition' = [disposition EXCEPT ![Signals!Top(t).sig] = Previous[Signals!Top(t).sig]]
        /\ frames' = Signals!Without(t)
        /\ again' = [again EXCEPT ![t] = [sig |-> Signals!Top(t).sig, kind |-> Signals!Top(t).kind]]
    BY <1>5 DEF Signals!Forward, Signals!Original
  <2>2. disposition' \in [Signals!Signals -> {"dfl", "ign", "handler", "wasm"}]
    BY <1>3, <1>4, <2>1
  <2> QED
    BY <1>1, <1>2, <2>1, <2>2, ForwardedStep
<1>6. CASE ~Signals!NoNextHandler(t)
  <2>1. frames' = Signals!GoTo(t, "previous") /\ UNCHANGED <<disposition, again>>
    BY <1>6 DEF Signals!Forward
  <2> QED
    BY <1>1, <1>2, <1>3, <2>1, ForwardedStep
<1> QED
  BY <1>5, <1>6

LEMMA PreviousStep ==
  ASSUME SignalInv, NEW t \in Threads, Signals!PreviousHandler(t) PROVE SignalInv'
<1>1. /\ frames[t] # <<>> /\ Signals!Top(t).at = "previous" /\ Signals!Running
      /\ UNCHANGED <<eager, tried, have, code, sAlreadyHandlingTrap, faults>>
  BY DEF Signals!PreviousHandler, Signals!At, Signals!Active, Signals!installVars
<1>2. end' \notin Signals!Signals
  <2>1. end' = end \/ end' = "reported"
    BY DEF Signals!PreviousHandler
  <2> QED
    BY <1>1, <2>1, NotEnded DEF Signals!Signals
<1>3. disposition' \in [Signals!Signals -> {"dfl", "ign", "handler", "wasm"}]
  BY DEF SignalInv, SignalTypes, Signals!PreviousHandler
<1>4. /\ frames' = frames \/ frames' = Signals!Without(t)
      /\ again' \in {again, [again EXCEPT ![t] = [sig |-> Signals!Top(t).sig,
                                                   kind |-> Signals!Top(t).kind]]}
  BY DEF Signals!PreviousHandler
<1> QED
  BY <1>1, <1>2, <1>3, <1>4, ForwardedStep

LEMMA SignalsKept ==
  ASSUME "overflow" \notin Kinds, SignalInv, faults \in Nat, [NextAll]_allvars PROVE SignalInv'
<1>1. CASE UNCHANGED signalvars
  BY <1>1 DEF signalvars, SignalInv, SignalTypes, Handlings, Calm, NoBugYet,
     Signals!NextHandlerIsCalled
<1>2. CASE Signals!InstallSegv \/ Signals!InstallTrap \/ Signals!InstallNothing
  BY <1>2, InstallStep, NothingStep
<1>3. ASSUME NEW t \in Threads,
             \/ Signals!EnsureFullSignalHandlers(t) \/ Signals!RunWasm(t) \/ Signals!Trap(t)
             \/ Signals!Bug(t) \/ Signals!finishWasmTrap(t) \/ Signals!Refault(t)
             \/ Signals!Enter(t) \/ Signals!HandleTrap(t) \/ Signals!Forward(t)
             \/ Signals!PreviousHandler(t)
      PROVE  SignalInv'
  BY <1>3, EnsureStep, CodeStep, TrapStep, BugStep, RefaultStep, EnterStep, TrapHandlerStep,
     ForwardStep, PreviousStep
<1> QED
  BY <1>1, <1>2, <1>3 DEF NextAll, Layout, Forks, Handlers, Exceptions, Filtered, Unaligned,
     allvars, Signals!Next

\* The faults stay within their bound, and the process ends in one of its ways.
SignalEnds ==
    /\ faults \in 0 .. MaxFaults
    /\ end \in {"", "assertion", "reported"} \cup Signals!Signals

LEMMA SignalEndsKept ==
  SignalInv /\ SignalEnds /\ [NextAll]_allvars => SignalEnds'
<1> SUFFICES ASSUME SignalInv, SignalEnds, [NextAll]_allvars PROVE SignalEnds'
  OBVIOUS
<1> USE DEF NextAll, Layout, Forks, Handlers, Exceptions, Filtered, Unaligned, allvars, signalvars,
     Signals!Next, Signals!InstallSegv, Signals!InstallTrap, Signals!InstallNothing,
     Signals!Sigaction, Signals!EnsureFullSignalHandlers, Signals!RunWasm, Signals!Trap,
     Signals!Bug, Signals!finishWasmTrap, Signals!Refault, Signals!Enter, Signals!HandleTrap,
     Signals!Forward, Signals!PreviousHandler
<1>1. \/ UNCHANGED faults
      \/ faults < MaxFaults /\ faults' = faults + 1
  OBVIOUS
<1>2. ASSUME NEW t \in Threads, Signals!Refault(t) PROVE again[t].sig \in Signals!Signals
  BY <1>2 DEF SignalInv, SignalTypes, Signals!Fault
<1>3. end' \in {end, "assertion", "reported"} \cup Signals!Signals
  <2>1. ASSUME NEW t \in Threads, NEW f, f.sig \in Signals!Signals, Signals!Deliver(t, f)
        PROVE  end' \in {end} \cup Signals!Signals
    BY <2>1 DEF Signals!Deliver
  <2> QED
    BY <1>2, <2>1
<1> HIDE DEF NextAll
<1>4. faults \in 0 .. MaxFaults /\ MaxFaults \in Nat
  BY WasmAssumption DEF SignalEnds, Signals!WasmAssumption
<1>5. faults' \in 0 .. MaxFaults
  BY <1>1, <1>4
<1> QED
  BY <1>3, <1>5 DEF SignalEnds

LEMMA SignalsTyped == SignalInv /\ SignalEnds => Signals!TypeOK
<1> SUFFICES ASSUME SignalInv, SignalEnds PROVE Signals!TypeOK
  OBVIOUS
<1>1. \A t \in Threads : \A i \in DOMAIN frames[t] : frames[t][i] \in Signals!Frame
  BY DEF SignalInv, Handlings, FramesOK
<1> QED
  BY <1>1 DEF SignalInv, SignalTypes, Handlings, SignalEnds, Signals!TypeOK

LEMMA TrapsHandled == SignalInv /\ SignalEnds => Signals!TrapsAreHandled
<1> SUFFICES ASSUME SignalInv, SignalEnds, NoBugYet
             PROVE  /\ end \in {"", "assertion"}
                    /\ \A t \in Threads : \A i \in DOMAIN frames[t] :
                          frames[t][i].at \in {"entry", "trap"}
  BY DEF Signals!TrapsAreHandled, NoBugYet
<1>1. end \in {"", "assertion"}
  BY DEF SignalInv, SignalEnds, Calm
<1>2. ASSUME NEW t \in Threads, NEW i \in DOMAIN frames[t]
      PROVE  frames[t][i].at \in {"entry", "trap"}
  <2>1. frames[t] \in Seq(Signals!Frame) /\ CalmFrames(frames[t])
    BY DEF SignalInv, Handlings, Calm
  <2>2. frames[t] # <<>>
    BY <2>1
  <2>3. i = 1
    BY <2>1, <2>2 DEF CalmFrames
  <2> QED
    BY <2>1, <2>2, <2>3 DEF CalmFrames
<1> QED
  BY <1>1, <1>2

\* A fault is a trap or goes to the next handler, once (WasmSignalHandlers.cpp 436-479,
\* 924-963, 1017-1090).
LEMMA SignalsAreSorted ==
  ASSUME "overflow" \notin Kinds PROVE SpecAll => []Signals!FaultsAreSorted
<1>1. InitAll => SignalEnds
  <2>1. MaxFaults \in Nat
    BY WasmAssumption DEF Signals!WasmAssumption
  <2>2. InitAll => faults = 0
    BY DEF InitAll, Signals!Init
  <2>3. InitAll => faults \in 0 .. MaxFaults
    BY <2>1, <2>2
  <2> QED
    BY <2>3 DEF SignalEnds, InitAll, Signals!Init
<1>2. SignalInv /\ SignalEnds /\ [NextAll]_allvars => SignalInv'
  <2> SUFFICES ASSUME SignalInv, SignalEnds, [NextAll]_allvars PROVE SignalInv'
    OBVIOUS
  <2>1. faults \in 0 .. MaxFaults /\ MaxFaults \in Nat
    BY WasmAssumption DEF SignalEnds, Signals!WasmAssumption
  <2>2. faults \in Nat
    BY <2>1
  <2> QED
    BY <2>2, SignalsKept
<1>3. SignalInv /\ SignalEnds => Signals!FaultsAreSorted
  BY SafeSignals, SignalsTyped, TrapsHandled DEF Signals!FaultsAreSorted
<1> QED
  BY <1>1, <1>2, <1>3, InitSignalInv, SignalEndsKept, PTL DEF SpecAll

-----------------------------------------------------------------------------
(* WasmUnaligned: the decoding finds what the encoding has put in a word.      *)

LEMMA HighHalf ==
  ASSUME NEW u \in {0, 1}, NEW d \in {0, 1}, NEW l \in {0, 1}, NEW b \in 0 .. 15,
         NEW h, h = 60672 + 128 * u + 64 * d + 16 * l + b
  PROVE  /\ (h \div 256) % 16 = 13 /\ (h \div 16) % 4 = l /\ (h \div 4096) % 16 = 14
         /\ (h \div 128) % 2 = u /\ (h \div 64) % 2 = d /\ (h \div 1) % 16 = b
<1>1. h \in Int
  OBVIOUS
<1>2. h \div 4096 = 14
  BY <1>1
<1>3. h \div 256 = 237
  BY <1>1
<1>4. h \div 128 = 474 + u
  BY <1>1
<1>5. h \div 64 = 948 + 2 * u + d
  BY <1>1
<1>6. h \div 16 = 3792 + 8 * u + 4 * d + l
  BY <1>1
<1>7. h \div 1 = h
  BY <1>1
<1> QED
  BY <1>1, <1>2, <1>3, <1>4, <1>5, <1>6, <1>7

LEMMA Halves ==
  ASSUME NEW r \in 0 .. 31
  PROVE  /\ r \div 16 \in {0, 1} /\ r % 16 \in 0 .. 15 /\ (r % 16) + 16 * (r \div 16) = r
         /\ r % 2 \in {0, 1} /\ r \div 2 \in 0 .. 15 /\ 2 * (r \div 2) + (r % 2) = r
OBVIOUS

LEMMA AccessTypes ==
  ASSUME NEW a \in Arm!Access
  PROVE  /\ a.load \in BOOLEAN /\ a.up \in BOOLEAN /\ a.size \in {4, 8} /\ a.base \in BaseRegisters
         /\ a.base \in 0 .. 14 /\ a.offset \in 0 .. 255 /\ a.register \in 0 .. 31
<1>1. /\ a.load \in BOOLEAN /\ a.up \in BOOLEAN /\ a.base \in BaseRegisters
      /\ a.offset \in Offsets /\ a.register \in Registers
  BY DEF Arm!Access
<1>2. a.size \in {4, 8}
  BY DEF Arm!Access
<1>3. /\ \A r \in BaseRegisters : r \in 0 .. 14
      /\ \A n \in Offsets : n \in 0 .. 255
      /\ \A r \in Registers : r \in 0 .. 31
  BY WasmAssumption DEF Arm!UnalignedAssumption
<1>4. a.base \in 0 .. 14
  BY <1>1, <1>3
<1>5. a.offset \in 0 .. 255
  BY <1>1, <1>3
<1>6. a.register \in 0 .. 31
  BY <1>1, <1>3
<1> QED
  BY <1>1, <1>2, <1>4, <1>5, <1>6

LEMMA Decoded ==
  ASSUME NEW a \in Arm!Access, NEW w, w = Arm!Encode(a)
  PROVE  /\ Arm!isVLDR(w) <=> a.load
         /\ Arm!isVSTR(w) <=> ~a.load
         /\ Arm!isUnconditional(w) /\ Arm!rn(w) = a.base /\ Arm!offs(w) = 4 * a.offset
         /\ Arm!isAdd(w) <=> a.up
         /\ Arm!SizeOf(w) = a.size /\ Arm!FPR(w) = Arm!FirstByte(a)
<1> DEFINE d == IF a.size = 8 THEN a.register \div 16 ELSE a.register % 2
           r == IF a.size = 8 THEN a.register % 16 ELSE a.register \div 2
           u == IF a.up THEN 1 ELSE 0
           l == IF a.load THEN 1 ELSE 0
           s == IF a.size = 8 THEN 1 ELSE 0
<1>1. /\ d \in {0, 1} /\ r \in 0 .. 15 /\ u \in {0, 1} /\ l \in {0, 1} /\ s \in {0, 1}
      /\ a.base \in 0 .. 15 /\ a.offset \in 0 .. 255
  BY AccessTypes, Halves
<1>2. w = <<60672 + (IF a.up THEN 128 ELSE 0) + 64 * d + (IF a.load THEN 16 ELSE 0) + a.base,
            4096 * r + (IF a.size = 8 THEN 2816 ELSE 2560) + a.offset>>
  BY DEF Arm!Encode
<1>3. u = 1 <=> a.up
  BY AccessTypes
<1>4. l = 1 <=> a.load
  BY AccessTypes
<1>5. s = 1 <=> a.size = 8
  OBVIOUS
<1>6. /\ (IF a.up THEN 128 ELSE 0) = 128 * u /\ (IF a.load THEN 16 ELSE 0) = 16 * l
      /\ (IF a.size = 8 THEN 2816 ELSE 2560) = 2560 + 256 * s
  BY AccessTypes
<1>7. /\ a.size = 8 => d = a.register \div 16 /\ r = a.register % 16
      /\ a.size # 8 => d = a.register % 2 /\ r = a.register \div 2
  OBVIOUS
<1> HIDE DEF d, r, u, l, s
<1>8. w[1] = 60672 + 128 * u + 64 * d + 16 * l + a.base
  BY <1>1, <1>2, <1>6
<1>9. w[2] = 4096 * r + 2560 + 256 * s + a.offset
  BY <1>1, <1>2, <1>6
<1>10. /\ Arm!Field(w[1], 256, 16) = 13 /\ Arm!Field(w[1], 16, 4) = l
       /\ Arm!Field(w[1], 4096, 16) = 14 /\ Arm!Field(w[1], 128, 2) = u
       /\ Arm!Field(w[1], 64, 2) = d /\ Arm!Field(w[1], 1, 16) = a.base
  BY <1>1, <1>8, HighHalf DEF Arm!Field
<1>11. /\ Arm!Field(w[2], 512, 8) = 5 /\ Arm!Field(w[2], 256, 2) = s
       /\ Arm!Field(w[2], 1, 256) = a.offset /\ Arm!Field(w[2], 4096, 16) = r
  <2> DEFINE h == w[2]
             o == a.offset
  <2>1. /\ h = 4096 * r + 2560 + 256 * s + o
        /\ o \in 0 .. 255 /\ r \in 0 .. 15 /\ s \in {0, 1}
    BY <1>1, <1>9
  <2> HIDE DEF h, o
  <2>2. /\ (h \div 512) % 8 = 5 /\ (h \div 256) % 2 = s
        /\ (h \div 1) % 256 = o /\ (h \div 4096) % 16 = r
    <3>1. h \in Int
      BY <2>1
    <3>2. h \div 512 = 8 * r + 5
      BY <2>1, <3>1
    <3>3. h \div 256 = 16 * r + 10 + s
      BY <2>1, <3>1
    <3>4. h \div 4096 = r
      BY <2>1, <3>1
    <3>5. h \div 1 = h
      BY <3>1
    <3>6. h % 256 = o
      <4>1. h = 256 * (16 * r + 10 + s) + o
        BY <2>1
      <4> QED
        BY <2>1, <3>1, <4>1
    <3> QED
      BY <2>1, <3>1, <3>2, <3>3, <3>4, <3>5, <3>6
  <2> QED
    BY <2>2 DEF h, o, Arm!Field
<1>12. Arm!Masked(w) = <<13, l, 5>>
  BY <1>10, <1>11 DEF Arm!Masked
<1>13. (Arm!isVLDR(w) <=> a.load) /\ (Arm!isVSTR(w) <=> ~a.load)
  BY <1>1, <1>4, <1>12 DEF Arm!isVLDR, Arm!isVSTR
<1>14. /\ Arm!isUnconditional(w) /\ Arm!rn(w) = a.base /\ Arm!offs(w) = 4 * a.offset
       /\ Arm!isAdd(w) <=> a.up
  BY <1>3, <1>10, <1>11 DEF Arm!isUnconditional, Arm!rn, Arm!offs, Arm!isAdd
<1>15. (Arm!isDouble(w) <=> a.size = 8) /\ Arm!SizeOf(w) = a.size
  BY <1>5, <1>11, AccessTypes DEF Arm!isDouble, Arm!SizeOf
<1>16. Arm!vd(w) = a.register
  <2>1. CASE a.size = 8
    <3>1. Arm!vd(w) = r + 16 * d
      BY <1>10, <1>11, <1>15, <2>1 DEF Arm!vd, Arm!DoubleNumber, Arm!dBit
    <3> QED
      BY <1>7, <2>1, <3>1, AccessTypes, Halves
  <2>2. CASE a.size # 8
    <3>1. Arm!vd(w) = 2 * r + d
      BY <1>10, <1>11, <1>15, <2>2 DEF Arm!vd, Arm!SingleNumber, Arm!dBit
    <3> QED
      BY <1>7, <2>2, <3>1, AccessTypes, Halves
  <2> QED
    BY <2>1, <2>2
<1>17. Arm!FPR(w) = Arm!FirstByte(a)
  <2>1. CASE a.size = 8
    BY <1>15, <1>16, <2>1 DEF Arm!FPR, Arm!FirstByte
  <2>2. CASE a.size = 4
    <3>1. Arm!FirstByte(a) = 8 * (a.register \div 2) + 4 * (a.register % 2)
      BY <2>2 DEF Arm!FirstByte
    <3>2. 8 * (a.register \div 2) + 4 * (a.register % 2) = 4 * a.register
      BY AccessTypes, Halves
    <3> QED
      BY <1>15, <1>16, <2>2, <3>1, <3>2 DEF Arm!FPR
  <2> QED
    BY <2>1, <2>2, AccessTypes
<1> QED
  BY <1>13, <1>14, <1>15, <1>17

\* What the other instruction, and no instruction, are not.
LEMMA Others ==
  /\ ~Arm!isVLDR(Arm!OtherInstr) /\ ~Arm!isVSTR(Arm!OtherInstr) /\ Arm!OtherInstr # Arm!NoInstr
  /\ \A a \in Arm!Access : Arm!Encode(a) # Arm!OtherInstr /\ Arm!Encode(a) # Arm!NoInstr
<1>1. Arm!OtherInstr[1] = 57796 /\ Arm!NoInstr[1] = 0 /\ Arm!OtherInstr # Arm!NoInstr
  BY DEF Arm!OtherInstr, Arm!NoInstr
<1>2. Arm!Field(Arm!OtherInstr[1], 256, 16) = 1 /\ Arm!Field(Arm!NoInstr[1], 256, 16) = 0
  BY <1>1 DEF Arm!Field
<1>3. \A w : Arm!isVLDR(w) \/ Arm!isVSTR(w) => Arm!Field(w[1], 256, 16) = 13
  BY DEF Arm!isVLDR, Arm!isVSTR, Arm!Masked
<1>4. ASSUME NEW a \in Arm!Access PROVE Arm!isVLDR(Arm!Encode(a)) \/ Arm!isVSTR(Arm!Encode(a))
  BY Decoded
<1> QED
  BY <1>1, <1>2, <1>3, <1>4

-----------------------------------------------------------------------------
(* The machine and the one whose hardware performs the accesses.               *)

Same ==
    /\ fpregs = ideal.fpregs /\ memory = ideal.memory /\ counter = ideal.counter
    /\ ~ideal.trapped

\* An access that only the other machine has made.
Ahead(a) ==
    IF ~Arm!memoryAccessInBounds(Arm!Target(a), a.size)
    THEN ideal.trapped /\ fpregs = ideal.fpregs /\ memory = ideal.memory
    ELSE /\ ~ideal.trapped /\ ideal.counter = counter + 4
         /\ IF a.load
            THEN /\ ideal.fpregs
                      = Arm!Copied(fpregs, Arm!FirstByte(a), memory, Arm!Target(a), a.size)
                 /\ ideal.memory = memory
            ELSE /\ ideal.memory
                      = Arm!Copied(memory, Arm!Target(a), fpregs, Arm!FirstByte(a), a.size)
                 /\ ideal.fpregs = fpregs

Pairs ==
    \/ instr \in {Arm!NoInstr, Arm!OtherInstr} /\ Same
    \/ \E a \in Arm!Access : instr = Arm!Encode(a) /\ Ahead(a)

Untouched == \A b \in Arm!Addresses \ (MemoryFirst .. MemoryEnd - 1) : memory[b] = <<"memory", b>>

ArmInv ==
    /\ ideal = [fpregs |-> ideal.fpregs, memory |-> ideal.memory, counter |-> ideal.counter,
                trapped |-> ideal.trapped]
    /\ gpr \in [BaseRegisters -> Pointers]
    /\ counter \in Nat /\ counter % 4 = 0
    /\ DOMAIN memory = Arm!Addresses
    /\ Pairs
    /\ outcome = "trap" /\ instr # Arm!OtherInstr => ideal.trapped \/ ~frame
    /\ outcome = "assertion" => debug
    /\ Untouched

LEMMA ArmIsSafe == ArmInv => Arm!FaultsAreSorted
<1> SUFFICES ASSUME ArmInv PROVE Arm!AsIfAligned
  BY DEF ArmInv, Untouched, Arm!FaultsAreSorted, Arm!StaysInBounds
<1>1. CASE instr \in {Arm!NoInstr, Arm!OtherInstr} /\ Same
  BY <1>1 DEF ArmInv, Same, Arm!AsIfAligned
<1>2. CASE \E a \in Arm!Access : instr = Arm!Encode(a) /\ Ahead(a)
  <2>1. instr # Arm!NoInstr
    BY <1>2, Others
  <2>2. ideal.trapped => fpregs = ideal.fpregs /\ memory = ideal.memory
    BY <1>2 DEF Ahead
  <2> QED
    BY <2>1, <2>2 DEF ArmInv, Arm!AsIfAligned
<1> QED
  BY <1>1, <1>2 DEF ArmInv, Pairs

LEMMA InitArmInv == InitAll => ArmInv
<1> SUFFICES ASSUME InitAll PROVE ArmInv
  OBVIOUS
<1>1. Arm!Init
  BY DEF InitAll
<1>2. Same /\ instr = Arm!NoInstr /\ outcome = "run"
  BY <1>1 DEF Arm!Init, Same
<1>3. counter = 0
  BY <1>1 DEF Arm!Init
<1>4. counter \in Nat /\ counter % 4 = 0
  BY <1>3
<1>5. /\ ideal = [fpregs |-> ideal.fpregs, memory |-> ideal.memory, counter |-> ideal.counter,
                  trapped |-> ideal.trapped]
      /\ gpr \in [BaseRegisters -> Pointers] /\ DOMAIN memory = Arm!Addresses /\ Untouched
  BY <1>1 DEF Arm!Init, Untouched
<1> QED
  BY <1>2, <1>4, <1>5 DEF ArmInv, Pairs

LEMMA AccessStep ==
  ASSUME ArmInv, NEW a \in Arm!Access, Arm!UnalignedAccess(a) PROVE ArmInv'
<1> DEFINE p == Arm!Target(a)
<1>1. /\ outcome = "run" /\ instr = Arm!NoInstr /\ instr' = Arm!Encode(a)
      /\ UNCHANGED <<gpr, frame, debug, fpregs, memory, counter, outcome>>
  BY DEF Arm!UnalignedAccess, Arm!Bus, Arm!kept
<1>2. Same
  BY <1>1, Others DEF ArmInv, Pairs
<1>3. counter' \in Nat /\ counter' % 4 = 0 /\ gpr' \in [BaseRegisters -> Pointers]
      /\ DOMAIN memory' = Arm!Addresses /\ Untouched'
  BY <1>1 DEF ArmInv, Untouched
<1>4. /\ ideal' = [fpregs |-> ideal'.fpregs, memory |-> ideal'.memory,
                   counter |-> ideal'.counter, trapped |-> ideal'.trapped]
      /\ Ahead(a)'
  <2>1. Arm!Target(a)' = p
    BY <1>1 DEF Arm!Target
  <2>2. ideal = [fpregs |-> fpregs, memory |-> memory, counter |-> counter, trapped |-> FALSE]
    BY <1>2 DEF ArmInv, Same, Pairs
  <2>3. CASE ~Arm!memoryAccessInBounds(p, a.size)
    <3>1. ideal' = [fpregs |-> fpregs, memory |-> memory, counter |-> counter, trapped |-> TRUE]
      BY <2>2, <2>3 DEF Arm!UnalignedAccess
    <3> QED
      BY <1>1, <2>1, <2>3, <3>1 DEF Ahead
  <2>4. CASE Arm!memoryAccessInBounds(p, a.size) /\ a.load
    <3>1. ideal' = [fpregs |-> Arm!Copied(fpregs, Arm!FirstByte(a), memory, p, a.size),
                    memory |-> memory, counter |-> counter + 4, trapped |-> FALSE]
      BY <2>2, <2>4 DEF Arm!UnalignedAccess
    <3> QED
      BY <1>1, <2>1, <2>4, <3>1 DEF Ahead
  <2>5. CASE Arm!memoryAccessInBounds(p, a.size) /\ ~a.load
    <3>1. ideal' = [memory |-> Arm!Copied(memory, p, fpregs, Arm!FirstByte(a), a.size),
                    fpregs |-> fpregs, counter |-> counter + 4, trapped |-> FALSE]
      BY <2>2, <2>5 DEF Arm!UnalignedAccess
    <3> QED
      BY <1>1, <2>1, <2>5, <3>1 DEF Ahead
  <2> QED
    BY <2>3, <2>4, <2>5
<1> QED
  BY <1>1, <1>3, <1>4 DEF ArmInv, Pairs

LEMMA OtherStep == ASSUME ArmInv, Arm!OtherAccess PROVE ArmInv'
<1>1. /\ outcome = "run" /\ instr = Arm!NoInstr /\ instr' = Arm!OtherInstr
      /\ UNCHANGED <<gpr, frame, debug, fpregs, memory, counter, outcome, ideal>>
  BY DEF Arm!OtherAccess, Arm!Bus, Arm!kept
<1>2. Same
  BY <1>1, Others DEF ArmInv, Pairs
<1> QED
  BY <1>1, <1>2 DEF ArmInv, Pairs, Same, Untouched

LEMMA FinishStepOfTrap ==
  ASSUME ArmInv, NEW result, Arm!Finish(result), UNCHANGED <<gpr, frame, debug, ideal>>,
         result = "trap" /\ instr # Arm!OtherInstr => ideal.trapped \/ ~frame,
         result = "assertion" => debug
  PROVE  ArmInv'
<1>1. outcome' = result /\ UNCHANGED <<fpregs, memory, counter, instr>>
  BY DEF Arm!Finish
<1>2. Pairs'
  <2>1. \A a : Ahead(a)' <=> Ahead(a)
    BY <1>1 DEF Ahead, Arm!Target
  <2> QED
    BY <1>1, <2>1 DEF ArmInv, Pairs, Same
<1> QED
  BY <1>1, <1>2 DEF ArmInv, Untouched

\* The bytes that an access in bounds writes are of the instance.
LEMMA CopiedInBounds ==
  ASSUME NEW p \in Int, NEW size \in {4, 8}, Arm!memoryAccessInBounds(p, size), NEW m, NEW from,
         NEW first
  PROVE  /\ DOMAIN Arm!Copied(m, p, from, first, size) = DOMAIN m
         /\ \A b \in DOMAIN m \ (MemoryFirst .. MemoryEnd - 1) :
               b \in Int => Arm!Copied(m, p, from, first, size)[b] = m[b]
<1>1. MemoryFirst \in Int /\ MemoryEnd \in Int
  BY WasmAssumption DEF Arm!UnalignedAssumption
<1>2. ASSUME NEW b \in Int, b \notin MemoryFirst .. MemoryEnd - 1 PROVE b \notin p .. p + size - 1
  BY <1>1, <1>2 DEF Arm!memoryAccessInBounds
<1> QED
  BY <1>2 DEF Arm!Copied

LEMMA PerformStep ==
  ASSUME ArmInv, NEW a \in Arm!Access, instr = Arm!Encode(a), Ahead(a), outcome = "run",
         Arm!memoryAccessInBounds(Arm!Target(a), a.size), Arm!Perform(instr),
         UNCHANGED <<gpr, frame, debug, ideal>>
  PROVE  ArmInv'
<1> DEFINE p == Arm!Target(a)
<1>1. /\ Arm!isVLDR(instr) <=> a.load
      /\ Arm!SizeOf(instr) = a.size /\ Arm!FPR(instr) = Arm!FirstByte(a)
  BY Decoded
<1>2. Arm!Address(instr) = p
  BY Decoded DEF Arm!Address, Arm!Target, Arm!ReadGPR
<1>3. counter' = counter + 4 /\ instr' = Arm!NoInstr /\ outcome' = outcome
  BY DEF Arm!Perform
<1>4. /\ a.load => fpregs' = Arm!Copied(fpregs, Arm!FirstByte(a), memory, p, a.size)
                   /\ memory' = memory
      /\ ~a.load => memory' = Arm!Copied(memory, p, fpregs, Arm!FirstByte(a), a.size)
                    /\ fpregs' = fpregs
  BY <1>1, <1>2 DEF Arm!Perform
<1>5. Same'
  BY <1>3, <1>4 DEF Ahead, Same
<1>6. counter' \in Nat /\ counter' % 4 = 0
  BY <1>3 DEF ArmInv
<1>7. DOMAIN memory' = Arm!Addresses /\ Untouched'
  <2>1. AddressSpace \in Nat \ {0} /\ \A b \in Arm!Addresses : b \in Int
    BY WasmAssumption DEF Arm!UnalignedAssumption, Arm!Addresses
  <2>2. gpr[a.base] \in Int /\ a.offset \in Int /\ a.size \in {4, 8}
    <3>1. gpr[a.base] \in Pointers
      BY AccessTypes DEF ArmInv
    <3> QED
      <4>1. Pointers \subseteq 0 .. AddressSpace - 1 /\ AddressSpace \in Nat
        BY WasmAssumption DEF Arm!UnalignedAssumption
      <4>2. gpr[a.base] \in 0 .. AddressSpace - 1
        BY <3>1, <4>1
      <4>3. gpr[a.base] \in Int
        BY <4>1, <4>2
      <4> QED
        BY <4>3, AccessTypes
  <2>3. p \in Int
    BY <2>1, <2>2 DEF Arm!Target
  <2> HIDE DEF p
  <2>4. CASE a.load
    BY <1>4, <2>4 DEF ArmInv, Untouched
  <2>5. CASE ~a.load
    <3>1. memory' = Arm!Copied(memory, p, fpregs, Arm!FirstByte(a), a.size)
      BY <1>4, <2>5
    <3>2. Arm!memoryAccessInBounds(p, a.size)
      BY DEF p
    <3> QED
      BY <2>1, <2>2, <2>3, <3>1, <3>2, CopiedInBounds DEF ArmInv, Untouched
  <2> QED
    BY <2>4, <2>5
<1> QED
  BY <1>3, <1>5, <1>6, <1>7 DEF ArmInv, Pairs

LEMMA BusTrapStep == ASSUME ArmInv, Arm!HandleTrap PROVE ArmInv'
<1>1. outcome = "run" /\ instr # Arm!NoInstr /\ UNCHANGED <<gpr, frame, debug, ideal>>
  BY DEF Arm!HandleTrap, Arm!kept
<1>2. CASE lookup # "OutOfBounds"
  <2>1. Arm!Finish("forward")
    BY <1>2 DEF Arm!HandleTrap
  <2> QED
    BY <1>1, <2>1, FinishStepOfTrap
<1>3. CASE lookup = "OutOfBounds" /\ instr = Arm!OtherInstr
  <2>1. counter % 4 = 0
    BY DEF ArmInv
  <2>2. Arm!GiveUp
    BY <1>3, <2>1, Others DEF Arm!HandleTrap, Arm!HandleUnalignedTrap
  <2> QED
    BY <1>1, <1>3, <2>2, FinishStepOfTrap DEF Arm!GiveUp
<1>4. CASE lookup = "OutOfBounds" /\ instr # Arm!OtherInstr
  <2>1. PICK a \in Arm!Access : instr = Arm!Encode(a) /\ Ahead(a)
    BY <1>1, <1>4 DEF ArmInv, Pairs
  <2>2. /\ counter % 4 = 0 /\ (Arm!isVLDR(instr) \/ Arm!isVSTR(instr))
        /\ Arm!isUnconditional(instr) /\ Arm!rn(instr) # 15 /\ Arm!SizeOf(instr) = a.size
        /\ Arm!Address(instr) = Arm!Target(a)
    <3>1. counter % 4 = 0
      BY DEF ArmInv
    <3>2. a.base # 15
      BY AccessTypes
    <3>3. Arm!Address(instr) = Arm!Target(a)
      BY <2>1, Decoded DEF Arm!Address, Arm!Target, Arm!ReadGPR
    <3> QED
      BY <2>1, <3>1, <3>2, <3>3, Decoded
  <2>3. IF ~Arm!memoryAccessInBounds(Arm!Target(a), a.size) THEN Arm!Finish("trap")
        ELSE IF frame THEN Arm!Perform(instr) ELSE Arm!GiveUp
    BY <1>4, <2>2 DEF Arm!HandleTrap, Arm!HandleUnalignedTrap, Arm!GetVFPFrame
  <2>4. CASE ~Arm!memoryAccessInBounds(Arm!Target(a), a.size)
    <3>1. ideal.trapped
      BY <2>1, <2>4 DEF Ahead
    <3> QED
      BY <1>1, <2>3, <2>4, <3>1, FinishStepOfTrap
  <2>5. CASE Arm!memoryAccessInBounds(Arm!Target(a), a.size) /\ frame
    BY <1>1, <2>1, <2>3, <2>5, PerformStep
  <2>6. CASE Arm!memoryAccessInBounds(Arm!Target(a), a.size) /\ ~frame
    <3>1. Arm!GiveUp
      BY <2>3, <2>6
    <3> QED
      BY <1>1, <2>6, <3>1, FinishStepOfTrap DEF Arm!GiveUp
  <2> QED
    BY <2>4, <2>5, <2>6
<1> QED
  BY <1>2, <1>3, <1>4

LEMMA ArmKept == ArmInv /\ [NextAll]_allvars => ArmInv'
<1> SUFFICES ASSUME ArmInv, [NextAll]_allvars PROVE ArmInv'
  OBVIOUS
<1>1. CASE UNCHANGED armvars
  <2>1. \A a : Ahead(a)' <=> Ahead(a)
    BY <1>1 DEF armvars, Ahead, Arm!Target
  <2> QED
    BY <1>1, <2>1 DEF armvars, ArmInv, Pairs, Same, Untouched
<1>2. ASSUME NEW a \in Arm!Access, Arm!UnalignedAccess(a) PROVE ArmInv'
  BY <1>2, AccessStep
<1>3. CASE Arm!OtherAccess \/ Arm!HandleTrap
  BY <1>3, OtherStep, BusTrapStep
<1> QED
  BY <1>1, <1>2, <1>3 DEF NextAll, Layout, Forks, Handlers, Exceptions, Filtered, Unaligned,
     allvars, Arm!UnalignedNext

-----------------------------------------------------------------------------
(* All of the handlers.                                                        *)

\* Each fault of WebAssembly is a trap that is resumed as a whole or reaches the handler
\* behind it, once, and an unaligned access is performed as the hardware would; a stack that
\* overflows is the exception (WasmSignalHandlers.cpp 436-684, 688-910, 924-1090).
THEOREM FaultsSorted == ASSUME "overflow" \notin Kinds PROVE SpecAll => []FaultsAreSorted
<1>1. SpecAll => []Arm!FaultsAreSorted
  BY ArmIsSafe, InitArmInv, ArmKept, PTL DEF SpecAll
<1>2. SpecAll => []Signals!FaultsAreSorted /\ []Mach!FaultsAreSorted
  BY SignalsAreSorted, MachIsSorted
<1>3. Signals!FaultsAreSorted /\ Mach!FaultsAreSorted /\ Arm!FaultsAreSorted => FaultsAreSorted
  BY DEF FaultsAreSorted
<1> QED
  BY <1>1, <1>2, <1>3, PTL
=============================================================================
