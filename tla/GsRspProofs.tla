----------------------------- MODULE GsRspProofs -----------------------------
(***************************************************************************)
(* Theorems about GsRspRuntime, for any number of threads, granules, table *)
(* entries and destructor rounds, and for any set of failing system calls. *)
(*                                                                         *)
(* IInv is inductive.  One lemma per action shows that the action keeps    *)
(* it; each treats the thread that moves and the others apart, and the     *)
(* others by a frame lemma.  NoLeak and the refinement of ShadowOwners are *)
(* inductions of their own, relative to IInv.                              *)
(***************************************************************************)
EXTENDS GsRspOwners, TLAPS

-----------------------------------------------------------------------------
(* The operators of the model.                                             *)

\* A region lies in the address space, both granules of it.
LEMMA CellsInGranules ==
  ASSUME NEW b \in Bases
  PROVE  Cells(b) \subseteq Granules /\ b \in Cells(b) /\ b + 1 \in Cells(b)
BY SizeAssumption DEF Bases, Granules, Cells

\* mmap, munmap and mremap change the owner of the region's granules only.
LEMMA LabelFacts ==
  ASSUME NEW m, NEW b, NEW o
  PROVE  \A g \in Granules : Label(m, b, o)[g] = IF g \in Cells(b) THEN o ELSE m[g]
BY DEF Label

LEMMA LabelType ==
  ASSUME NEW S, NEW m \in [Granules -> S], NEW b, NEW o \in S
  PROVE  Label(m, b, o) \in [Granules -> S]
BY DEF Label

\* The records of the code have the fields they were given.
LEMMA RecordFacts ==
  /\ \A p, o, n, s : /\ Locals(p, o, n, s).ptr = p /\ Locals(p, o, n, s).old = o
                     /\ Locals(p, o, n, s).new = n /\ Locals(p, o, n, s).slot = s
  /\ \A a, d, y, r : /\ Metadata(a, d, y, r).ss = a /\ Metadata(a, d, y, r).diff = d
                     /\ Metadata(a, d, y, r).busy = y /\ Metadata(a, d, y, r).ready = r
  /\ \A v, a, t, r : /\ Entry(v, a, t, r).valid = v /\ Entry(v, a, t, r).ss = a
                     /\ Entry(v, a, t, r).tid = t /\ Entry(v, a, t, r).ripe = r
BY DEF Locals, Metadata, Entry

LEMMA LocalsType ==
  ASSUME NEW p \in Bases \cup {NoBase}, NEW o \in Bases \cup {NoBase},
         NEW n \in Bases \cup {NoBase}, NEW s \in 0 .. Capacity
  PROVE  Locals(p, o, n, s) \in LocalType
BY DEF Locals, LocalType

LEMMA MetadataType ==
  ASSUME NEW a \in Bases \cup {NoBase}, NEW d \in Int, NEW y \in BOOLEAN, NEW r \in BOOLEAN
  PROVE  Metadata(a, d, y, r) \in MetaType
BY DEF Metadata, MetaType

LEMMA EntryTypes ==
  ASSUME NEW v \in BOOLEAN, NEW a \in Bases \cup {NoBase}, NEW t \in Threads, NEW r \in BOOLEAN
  PROVE  Entry(v, a, t, r) \in EntryType
BY DEF Entry, EntryType

LEMMA FieldTypes ==
  /\ \A l \in LocalType : /\ l.ptr \in Bases \cup {NoBase} /\ l.old \in Bases \cup {NoBase}
                          /\ l.new \in Bases \cup {NoBase} /\ l.slot \in 0 .. Capacity
  /\ \A d \in MetaType : /\ d.ss \in Bases \cup {NoBase} /\ d.diff \in Int
                         /\ d.busy \in BOOLEAN /\ d.ready \in BOOLEAN
  /\ \A e \in EntryType : /\ e.valid \in BOOLEAN /\ e.ss \in Bases \cup {NoBase}
                          /\ e.tid \in Threads /\ e.ripe \in BOOLEAN
BY DEF LocalType, MetaType, EntryType

LEMMA Zeros ==
  /\ 0 \in 0 .. Capacity /\ NoBase \in Bases \cup {NoBase} /\ NoBase \in Int
  /\ Bases \subseteq Int /\ Slots \subseteq 0 .. Capacity /\ 0 \notin Slots
  /\ \A s \in 0 .. Capacity : s # 0 => s \in Slots
BY SizeAssumption DEF NoBase, Bases, Slots

LEMMA ConstantRecords ==
  NoLocals \in LocalType /\ ZeroMeta \in MetaType /\ NoEntry \in EntryType /\ ~NoEntry.valid
BY Zeros, LocalsType, MetadataType, EntryTypes, RecordFacts, MainAssumption
   DEF NoLocals, ZeroMeta, NoEntry

-----------------------------------------------------------------------------
(* What a step does not touch stays as it is.                              *)

LEMMA StackInvFrame ==
  ASSUME NEW u \in Threads, StackInv(u),
         pc'[u] = pc[u], gs'[u] = gs[u], loc'[u] = loc[u],
         \A g \in Granules : mem'[g] = u <=> mem[g] = u,
         \A b \in Bases : Owns(u, b) => meta'[b] = meta[b]
  PROVE  StackInv(u)'
<1>1. ASSUME NEW b PROVE Owns(u, b)' <=> Owns(u, b)
  BY CellsInGranules DEF Owns
<1>2. \A b \in Bases : mem'[b + 1] = u <=> mem[b + 1] = u
  BY CellsInGranules
<1>3. pc[u] \in Standing => meta'[gs[u]] = meta[gs[u]]
  BY DEF StackInv, Owns
<1>4. pc[u] = "setgs" => meta'[loc[u].new] = meta[loc[u].new]
  BY DEF StackInv, Owns
<1>5. QED
  BY <1>1, <1>2, <1>3, <1>4 DEF StackInv, Quiet

\* From one location outside rerandomize to another, with the stack untouched.
LEMMA StackInvQuiet ==
  ASSUME NEW u \in Threads, StackInv(u), pc[u] \in Quiet, pc'[u] \in Quiet,
         pc'[u] \in {"find", "store"} => loc'[u].old = gs[u],
         mem' = mem, meta' = meta, gs'[u] = gs[u]
  PROVE  StackInv(u)'
BY DEF StackInv, Owns, Quiet, Standing, Moving, Pcs

LEMMA TsdInvFrame ==
  ASSUME NEW u \in Threads, TsdInv(u),
         pc'[u] = pc[u], tsd'[u] = tsd[u], app'[u] = app[u], round'[u] = round[u]
  PROVE  TsdInv(u)'
BY DEF TsdInv

LEMMA EntryInvFrame ==
  ASSUME NEW i \in Slots, EntryInv(i), info' = info, info[i].valid =>
           /\ pc'[info[i].tid] = pc[info[i].tid] /\ tsd'[info[i].tid] = tsd[info[i].tid]
           /\ \A g \in Granules : mem'[g] = info[i].tid <=> mem[g] = info[i].tid
  PROVE  EntryInv(i)'
BY CellsInGranules DEF EntryInv, Owns

\* Two threads never own one granule, so their regions have different bases.
LEMMA OwnersDiffer ==
  ASSUME NEW t, NEW u, t # u, NEW b, NEW c, Owns(t, b), Owns(u, c)
  PROVE  b # c /\ Cells(b) \cap Cells(c) = {}
BY CellsInGranules DEF Owns

-----------------------------------------------------------------------------
(* pthread_create and thread exit: no memory is touched.                   *)

LEMMA CreateEnterKeeps ==
  ASSUME IInv, NEW t \in Threads, CreateEnter(t)
  PROVE  IInv'
<1> USE DEF CreateEnter, Goto, exits, hooks, tables, NextOfCreate
<1>1. TypeOK'
  BY TsdAssumption DEF IInv, TypeOK, Pcs
<1>2. ASSUME NEW u \in Threads PROVE StackInv(u)'
  <2>1. CASE u = t
    BY <2>1, StackInvQuiet DEF IInv, TypeOK, Quiet, Standing, Pcs
  <2>2. CASE u # t
    BY <2>2, StackInvFrame DEF IInv, TypeOK
  <2>3. QED
    BY <2>1, <2>2
<1>3. ASSUME NEW u \in Threads PROVE TsdInv(u)'
  <2>1. CASE u = t
    BY <2>1, TsdAssumption DEF IInv, TypeOK, TsdInv, Moving, StartIter
  <2>2. CASE u # t
    BY <2>2, TsdInvFrame DEF IInv, TypeOK
  <2>3. QED
    BY <2>1, <2>2
<1>4. LockInv'
  BY DEF IInv, TypeOK, LockInv
<1>5. ASSUME NEW i \in Slots PROVE EntryInv(i)'
  <2>1. info[i].valid => info[i].tid # t
    BY DEF IInv, EntryInv
  <2>2. QED
    BY <2>1, EntryInvFrame DEF IInv, TypeOK
<1>6. HookInv'
  BY DEF IInv, TypeOK, HookInv
<1>7. QED
  BY <1>1, <1>2, <1>3, <1>4, <1>5, <1>6 DEF IInv

LEMMA CreateHookKeeps ==
  ASSUME IInv, NEW t \in Threads, CreateHook(t)
  PROVE  IInv'
<1> USE DEF CreateHook, Goto, exits, hooks, tables
<1>1. TypeOK'
  BY TsdAssumption DEF IInv, TypeOK, Pcs
<1>2. ASSUME NEW u \in Threads PROVE StackInv(u)'
  <2>1. CASE u = t
    BY <2>1, StackInvQuiet DEF IInv, TypeOK, Quiet, Standing, Pcs
  <2>2. CASE u # t
    BY <2>2, StackInvFrame DEF IInv, TypeOK
  <2>3. QED
    BY <2>1, <2>2
<1>3. ASSUME NEW u \in Threads PROVE TsdInv(u)'
  <2>1. CASE u = t
    BY <2>1, TsdAssumption DEF IInv, TypeOK, TsdInv, Moving, StartIter
  <2>2. CASE u # t
    BY <2>2, TsdInvFrame DEF IInv, TypeOK
  <2>3. QED
    BY <2>1, <2>2
<1>4. LockInv'
  BY DEF IInv, TypeOK, LockInv
<1>5. ASSUME NEW i \in Slots PROVE EntryInv(i)'
  <2>1. info[i].valid => info[i].tid # t
    BY DEF IInv, EntryInv
  <2>2. QED
    BY <2>1, EntryInvFrame DEF IInv, TypeOK
<1>6. HookInv'
  BY DEF IInv, TypeOK, HookInv
<1>7. QED
  BY <1>1, <1>2, <1>3, <1>4, <1>5, <1>6 DEF IInv

LEMMA CreateCloneKeeps ==
  ASSUME IInv, NEW t \in Threads, CreateClone(t)
  PROVE  IInv'
<1> USE DEF CreateClone, Goto, exits, hooks, tables
<1>1. TypeOK'
  BY TsdAssumption DEF IInv, TypeOK, Pcs
<1>2. ASSUME NEW u \in Threads PROVE StackInv(u)'
  <2>1. CASE pc'[u] = pc[u]
    BY <2>1, StackInvFrame DEF IInv, TypeOK
  <2>2. CASE u = t
    BY <2>2, StackInvQuiet DEF IInv, TypeOK, Quiet, Standing, Pcs
  <2>3. CASE pc[u] = "none" /\ pc'[u] = "new"
    BY <2>3 DEF StackInv, Standing, Quiet, Moving, Pcs
  <2>4. pc'[u] = pc[u] \/ u = t \/ (pc[u] = "none" /\ pc'[u] = "new")
    BY DEF IInv, TypeOK
  <2>5. QED
    BY <2>1, <2>2, <2>3, <2>4
<1>3. ASSUME NEW u \in Threads PROVE TsdInv(u)'
  <2>1. CASE pc'[u] = pc[u]
    BY <2>1, TsdInvFrame DEF IInv, TypeOK
  <2>2. CASE pc'[u] # pc[u]
    BY <2>2, TsdAssumption DEF IInv, TypeOK, TsdInv, Moving, StartIter
  <2>3. QED
    BY <2>1, <2>2
<1>4. LockInv'
  BY DEF IInv, TypeOK, LockInv
<1>5. ASSUME NEW i \in Slots PROVE EntryInv(i)'
  <2>1. info[i].valid => pc'[info[i].tid] = pc[info[i].tid]
    BY FieldTypes DEF IInv, TypeOK, EntryInv
  <2>2. QED
    BY <2>1, EntryInvFrame DEF IInv, TypeOK
<1>6. HookInv'
  BY DEF IInv, TypeOK, HookInv
<1>7. QED
  BY <1>1, <1>2, <1>3, <1>4, <1>5, <1>6 DEF IInv

LEMMA ThreadReturnKeeps ==
  ASSUME IInv, NEW t \in Threads, ThreadReturn(t)
  PROVE  IInv'
<1> USE DEF ThreadReturn, Goto, exits, hooks, tables
<1>1. TypeOK'
  BY TsdAssumption DEF IInv, TypeOK, Pcs
<1>2. ASSUME NEW u \in Threads PROVE StackInv(u)'
  <2>1. CASE u = t
    BY <2>1, StackInvQuiet DEF IInv, TypeOK, Quiet, Standing, Pcs
  <2>2. CASE u # t
    BY <2>2, StackInvFrame DEF IInv, TypeOK
  <2>3. QED
    BY <2>1, <2>2
<1>3. ASSUME NEW u \in Threads PROVE TsdInv(u)'
  <2>1. CASE u = t
    BY <2>1, TsdAssumption DEF IInv, TypeOK, TsdInv, Moving, StartIter
  <2>2. CASE u # t
    BY <2>2, TsdInvFrame DEF IInv, TypeOK
  <2>3. QED
    BY <2>1, <2>2
<1>4. LockInv'
  BY DEF IInv, TypeOK, LockInv
<1>5. ASSUME NEW i \in Slots PROVE EntryInv(i)'
  <2>1. info[i].valid => info[i].tid # t
    BY DEF IInv, EntryInv
  <2>2. QED
    BY <2>1, EntryInvFrame DEF IInv, TypeOK
<1>6. HookInv'
  BY DEF IInv, TypeOK, HookInv
<1>7. QED
  BY <1>1, <1>2, <1>3, <1>4, <1>5, <1>6 DEF IInv

LEMMA CleanupHandlerKeeps ==
  ASSUME IInv, NEW t \in Threads, CleanupHandler(t)
  PROVE  IInv'
<1> USE DEF CleanupHandler, Goto, exits, hooks, tables, Rearm
<1>1. TypeOK'
  BY TsdAssumption DEF IInv, TypeOK, Pcs
<1>2. ASSUME NEW u \in Threads PROVE StackInv(u)'
  <2>1. CASE u = t
    BY <2>1, StackInvQuiet DEF IInv, TypeOK, Quiet, Standing, Pcs
  <2>2. CASE u # t
    BY <2>2, StackInvFrame DEF IInv, TypeOK
  <2>3. QED
    BY <2>1, <2>2
<1>3. ASSUME NEW u \in Threads PROVE TsdInv(u)'
  <2>1. CASE u = t
    BY <2>1, TsdAssumption DEF IInv, TypeOK, TsdInv, Moving, StartIter
  <2>2. CASE u # t
    BY <2>2, TsdInvFrame DEF IInv, TypeOK
  <2>3. QED
    BY <2>1, <2>2
<1>4. LockInv'
  BY DEF IInv, TypeOK, LockInv
<1>5. ASSUME NEW i \in Slots PROVE EntryInv(i)'
  <2>1. info[i].valid => info[i].tid # t
    BY DEF IInv, EntryInv
  <2>2. \A u \in Threads : u # t => pc'[u] = pc[u] /\ tsd'[u] = tsd[u]
    BY DEF IInv, TypeOK
  <2>3. QED
    BY <2>1, <2>2, FieldTypes, EntryInvFrame DEF IInv, TypeOK
<1>6. HookInv'
  BY DEF IInv, TypeOK, HookInv
<1>7. QED
  BY <1>1, <1>2, <1>3, <1>4, <1>5, <1>6 DEF IInv

LEMMA EndRoundKeeps ==
  ASSUME IInv, NEW t \in Threads, EndRound(t)
  PROVE  IInv'
<1> USE DEF EndRound, Goto, exits, hooks, tables
<1>1. TypeOK'
  BY TsdAssumption DEF IInv, TypeOK, Pcs
<1>2. ASSUME NEW u \in Threads PROVE StackInv(u)'
  <2>1. CASE u = t
    BY <2>1, StackInvQuiet DEF IInv, TypeOK, Quiet, Standing, Pcs
  <2>2. CASE u # t
    BY <2>2, StackInvFrame DEF IInv, TypeOK
  <2>3. QED
    BY <2>1, <2>2
<1>3. ASSUME NEW u \in Threads PROVE TsdInv(u)'
  <2>1. CASE u = t
    BY <2>1, TsdAssumption DEF IInv, TypeOK, TsdInv, Moving, StartIter
  <2>2. CASE u # t
    BY <2>2, TsdInvFrame DEF IInv, TypeOK
  <2>3. QED
    BY <2>1, <2>2
<1>4. LockInv'
  BY DEF IInv, TypeOK, LockInv
<1>5. ASSUME NEW i \in Slots PROVE EntryInv(i)'
  <2>1. info[i].valid /\ info[i].tid = t => pc'[t] = "end"
    BY DEF IInv, TypeOK, EntryInv, TsdInv
  <2>2. QED
    BY <2>1, FieldTypes DEF IInv, TypeOK, EntryInv, Owns
<1>6. HookInv'
  BY DEF IInv, TypeOK, HookInv
<1>7. QED
  BY <1>1, <1>2, <1>3, <1>4, <1>5, <1>6 DEF IInv

LEMMA ThreadEndKeeps ==
  ASSUME IInv, NEW t \in Threads, ThreadEnd(t)
  PROVE  IInv'
<1> USE DEF ThreadEnd, Goto, exits, hooks, tables
<1>1. TypeOK'
  BY TsdAssumption DEF IInv, TypeOK, Pcs, NoBase
<1>2. ASSUME NEW u \in Threads PROVE StackInv(u)'
  <2>1. CASE u = t
    BY <2>1 DEF IInv, TypeOK, StackInv, Standing, Quiet, Moving, Pcs
  <2>2. CASE u # t
    BY <2>2, StackInvFrame DEF IInv, TypeOK
  <2>3. QED
    BY <2>1, <2>2
<1>3. ASSUME NEW u \in Threads PROVE TsdInv(u)'
  <2>1. CASE u = t
    BY <2>1, TsdAssumption DEF IInv, TypeOK, TsdInv, Moving, StartIter
  <2>2. CASE u # t
    BY <2>2, TsdInvFrame DEF IInv, TypeOK
  <2>3. QED
    BY <2>1, <2>2
<1>4. LockInv'
  BY DEF IInv, TypeOK, LockInv
<1>5. ASSUME NEW i \in Slots PROVE EntryInv(i)'
  BY FieldTypes DEF IInv, TypeOK, EntryInv, Owns
<1>6. HookInv'
  BY DEF IInv, TypeOK, HookInv
<1>7. QED
  BY <1>1, <1>2, <1>3, <1>4, <1>5, <1>6 DEF IInv

-----------------------------------------------------------------------------
(* The table and the cleaner.                                              *)

\* The metadata a thread finds through gs is its own.
LEMMA StandingCanTouch ==
  ASSUME IInv, NEW t \in Threads, pc[t] \in Standing
  PROVE  /\ gs[t] \in Bases
         /\ CanTouch(t, gs[t])
         /\ meta[gs[t]].ss = gs[t] /\ meta[gs[t]].diff = gs[t] /\ meta[gs[t]].ready = TRUE
<1>1. Owns(t, gs[t])
  BY DEF IInv, StackInv
<1>2. \/ meta[gs[t]] = Metadata(gs[t], gs[t], FALSE, TRUE)
      \/ meta[gs[t]] = Metadata(gs[t], gs[t], TRUE, TRUE)
  BY DEF IInv, StackInv
<1>3. QED
  <2>1. gs[t] \in Bases /\ CanTouch(t, gs[t])
    BY <1>1, CellsInGranules DEF Owns, CanTouch
  <2>2. QED
    BY <1>2, <2>1 DEF Metadata

LEMMA ReleaseGivesUpKeeps ==
  ASSUME IInv, NEW t \in Threads, ReleaseGivesUp(t)
  PROVE  IInv'
<1> USE DEF ReleaseGivesUp, Goto, exits, hooks, tables
<1>1. TypeOK'
  BY TsdAssumption DEF IInv, TypeOK, Pcs
<1>2. ASSUME NEW u \in Threads PROVE StackInv(u)'
  <2>1. CASE u = t
    BY <2>1, StackInvQuiet DEF IInv, TypeOK, Quiet, Standing, Pcs
  <2>2. CASE u # t
    BY <2>2, StackInvFrame DEF IInv, TypeOK
  <2>3. QED
    BY <2>1, <2>2
<1>3. ASSUME NEW u \in Threads PROVE TsdInv(u)'
  <2>1. CASE u = t
    BY <2>1, TsdAssumption DEF IInv, TypeOK, TsdInv, Moving, StartIter
  <2>2. CASE u # t
    BY <2>2, TsdInvFrame DEF IInv, TypeOK
  <2>3. QED
    BY <2>1, <2>2
<1>4. LockInv'
  BY DEF IInv, TypeOK, LockInv
<1>5. ASSUME NEW i \in Slots PROVE EntryInv(i)'
  <2>1. info[i].valid => info[i].tid # t
    BY DEF IInv, EntryInv
  <2>2. QED
    BY <2>1, EntryInvFrame DEF IInv, TypeOK
<1>6. HookInv'
  BY DEF IInv, TypeOK, HookInv
<1>7. QED
  BY <1>1, <1>2, <1>3, <1>4, <1>5, <1>6 DEF IInv

LEMMA ReleaseLockKeeps ==
  ASSUME IInv, NEW t \in Threads, ReleaseLock(t)
  PROVE  IInv'
<1> USE DEF ReleaseLock, Goto, exits, hooks, tables, MutexFree
<1>0. /\ gs[t] \in Bases /\ lock = Free /\ lock' = t /\ loc' = [loc EXCEPT ![t] = Locals(NoBase, gs[t], NoBase, 0)]
      /\ pc[t] = "release" /\ pc' = [pc EXCEPT ![t] = "find"]
      /\ UNCHANGED <<mem, meta, gs, tsd, app, round, hook, cleaners, info, lost, scan, fault>>
  BY StandingCanTouch DEF Standing, Pcs
<1> HIDE DEF ReleaseLock
<1>1. TypeOK'
  <2>1. Locals(NoBase, gs[t], NoBase, 0) \in LocalType
    BY <1>0, LocalsType, Zeros
  <2>2. QED
    BY <1>0, <2>1 DEF IInv, TypeOK, Pcs
<1>2. ASSUME NEW u \in Threads PROVE StackInv(u)'
  <2>1. CASE u = t
    <3>1. loc'[t].old = gs[t]
      BY <1>0, RecordFacts DEF IInv, TypeOK
    <3>2. QED
      BY <1>0, <2>1, <3>1, StackInvQuiet DEF IInv, TypeOK, Quiet, Standing, Pcs
  <2>2. CASE u # t
    BY <1>0, <2>2, StackInvFrame DEF IInv, TypeOK
  <2>3. QED
    BY <2>1, <2>2
<1>3. ASSUME NEW u \in Threads PROVE TsdInv(u)'
  <2>1. CASE u = t
    BY <1>0, <2>1 DEF IInv, TypeOK, TsdInv, Moving
  <2>2. CASE u # t
    BY <1>0, <2>2, TsdInvFrame DEF IInv, TypeOK
  <2>3. QED
    BY <2>1, <2>2
<1>4. LockInv'
  BY <1>0, RecordFacts, MainAssumption DEF IInv, TypeOK, LockInv
<1>5. ASSUME NEW i \in Slots PROVE EntryInv(i)'
  <2>1. info[i].valid => info[i].tid # t
    BY <1>0 DEF IInv, EntryInv
  <2>2. QED
    BY <1>0, <2>1, EntryInvFrame DEF IInv, TypeOK
<1>6. HookInv'
  BY <1>0 DEF IInv, TypeOK, HookInv
<1>7. QED
  BY <1>0, <1>1, <1>2, <1>3, <1>4, <1>5, <1>6 DEF IInv

LEMMA AddFindKeeps ==
  ASSUME IInv, NEW t \in Threads, AddFind(t)
  PROVE  IInv'
<1> USE DEF AddFind, Goto, exits, hooks, tables
<1>0. /\ loc'[t].old = loc[t].old
      /\ loc'[t].slot # 0 => ~info[loc'[t].slot].valid
      /\ loc'[t].slot = 0 => \A i \in Slots : info[i].valid
      /\ \A u \in Threads : u # t => loc'[u] = loc[u]
      /\ loc' \in [Threads -> LocalType]
  <2>1. CASE UNCHANGED loc /\ \A i \in Slots : info[i].valid
    BY <2>1 DEF IInv, TypeOK, LockInv
  <2>2. ASSUME NEW i \in Slots, FirstInvalid(i), loc' = [loc EXCEPT ![t] = Locals(NoBase, @.old, NoBase, i)]
        PROVE  <1>0!1 /\ <1>0!2 /\ <1>0!3 /\ <1>0!4 /\ <1>0!5
    <3>1. loc'[t] = Locals(NoBase, loc[t].old, NoBase, i) /\ i # 0
      BY <2>2, Zeros DEF IInv, TypeOK
    <3>2. loc'[t] \in LocalType
      <4>1. loc[t].old \in Bases \cup {NoBase}
        BY FieldTypes DEF IInv, TypeOK
      <4>2. i \in 0 .. Capacity /\ NoBase \in Bases \cup {NoBase}
        BY Zeros
      <4>3. QED
        BY <3>1, <4>1, <4>2, LocalsType
    <3>3. QED
      BY <2>2, <3>1, <3>2, RecordFacts DEF IInv, TypeOK, FirstInvalid
  <2>3. QED
    BY <2>1, <2>2
<1>1. TypeOK'
  BY <1>0 DEF IInv, TypeOK, Pcs
<1>2. ASSUME NEW u \in Threads PROVE StackInv(u)'
  <2>1. CASE u = t
    <3>1. loc[t].old = gs[t]
      BY DEF IInv, StackInv
    <3>2. QED
      BY <1>0, <2>1, <3>1, StackInvQuiet DEF IInv, TypeOK, Quiet, Standing, Pcs
  <2>2. CASE u # t
    BY <1>0, <2>2, StackInvFrame DEF IInv, TypeOK
  <2>3. QED
    BY <2>1, <2>2
<1>3. ASSUME NEW u \in Threads PROVE TsdInv(u)'
  <2>1. CASE u = t
    BY <2>1 DEF IInv, TypeOK, TsdInv, Moving
  <2>2. CASE u # t
    BY <2>2, TsdInvFrame DEF IInv, TypeOK
  <2>3. QED
    BY <2>1, <2>2
<1>4. LockInv'
  BY <1>0 DEF IInv, TypeOK, LockInv
<1>5. ASSUME NEW i \in Slots PROVE EntryInv(i)'
  <2>1. info[i].valid => info[i].tid # t
    BY DEF IInv, EntryInv
  <2>2. QED
    BY <2>1, EntryInvFrame DEF IInv, TypeOK
<1>6. HookInv'
  BY DEF IInv, TypeOK, HookInv
<1>7. QED
  BY <1>1, <1>2, <1>3, <1>4, <1>5, <1>6 DEF IInv

LEMMA AddStoreKeeps ==
  ASSUME IInv, NEW t \in Threads, AddStore(t)
  PROVE  IInv'
<1> USE DEF AddStore, Goto, exits, hooks, Unlock
<1> DEFINE s == loc[t].slot
<1>0. /\ Owns(t, gs[t]) /\ loc[t].old = gs[t] /\ s \in 0 .. Capacity
      /\ s # 0 => s \in Slots /\ ~info[s].valid
      /\ lock = t
  <2>1. Owns(t, gs[t]) /\ loc[t].old = gs[t]
    BY DEF IInv, StackInv, Standing, Pcs
  <2>2. s \in 0 .. Capacity
    BY FieldTypes DEF IInv, TypeOK
  <2>3. s # 0 => s \in Slots
    BY <2>2, SizeAssumption DEF Slots
  <2>4. QED
    BY <2>1, <2>2, <2>3 DEF IInv, LockInv
<1>1. \/ info' = info
      \/ s \in Slots /\ info' = [info EXCEPT ![s] = Entry(TRUE, gs[t], t, FALSE)]
  BY <1>0
<1>2. TypeOK'
  <2>1. Entry(TRUE, gs[t], t, FALSE) \in EntryType
    BY <1>0, EntryTypes DEF Owns
  <2>2. QED
    BY <1>1, <2>1, ConstantRecords DEF IInv, TypeOK, Pcs
<1>3. ASSUME NEW u \in Threads PROVE StackInv(u)'
  <2>1. CASE u = t
    BY <2>1, StackInvQuiet DEF IInv, TypeOK, Quiet, Standing, Pcs
  <2>2. CASE u # t
    BY <2>2, StackInvFrame DEF IInv, TypeOK
  <2>3. QED
    BY <2>1, <2>2
<1>4. ASSUME NEW u \in Threads PROVE TsdInv(u)'
  <2>1. CASE u = t
    BY <2>1 DEF IInv, TypeOK, TsdInv, Moving
  <2>2. CASE u # t
    BY <2>2, TsdInvFrame DEF IInv, TypeOK
  <2>3. QED
    BY <2>1, <2>2
<1>5. LockInv'
  BY <1>0, MainAssumption DEF IInv, TypeOK, LockInv
<1>6. ASSUME NEW i \in Slots PROVE EntryInv(i)'
  <2>1. \A j \in Slots : info[j].valid => info[j].tid # t
    BY DEF IInv, EntryInv
  <2>2. CASE info' = info
    BY <2>1, <2>2, EntryInvFrame DEF IInv, TypeOK
  <2>3. CASE s \in Slots /\ info' = [info EXCEPT ![s] = Entry(TRUE, gs[t], t, FALSE)]
    <3>1. info'[s] = Entry(TRUE, gs[t], t, FALSE) /\ \A j \in Slots : j # s => info'[j] = info[j]
      BY <2>3 DEF IInv, TypeOK
    <3>2. tsd[t] = 0
      BY DEF IInv, TsdInv
    <3>3. CASE i = s
      <4>1. info'[i].tid = t /\ info'[i].ss = gs[t] /\ info'[i].ripe = FALSE
        BY <3>1, <3>3 DEF Entry
      <4>2. \A j \in Slots : info'[j].valid /\ info'[j].tid = t => j = i
        BY <2>1, <3>1, <3>3
      <4>3. Owns(t, gs[t])' /\ pc'[t] = "dtor" /\ tsd'[t] = 0
        BY <1>0, <3>2 DEF IInv, TypeOK, Owns
      <4>4. QED
        BY <4>1, <4>2, <4>3 DEF EntryInv, Owns
    <3>4. CASE i # s
      <4>1. info'[i] = info[i] /\ info'[s].tid = t
        BY <3>1, <3>4 DEF Entry
      <4>2. info[i].valid => info[i].tid # t /\ pc'[info[i].tid] = pc[info[i].tid]
        BY <2>1 DEF IInv, TypeOK
      <4>3. info[i].valid => \A j \in Slots : info'[j].valid /\ info'[j].tid = info[i].tid => j = i
        BY <3>1, <4>1, <4>2 DEF IInv, EntryInv
      <4>4. QED
        BY <4>1, <4>2, <4>3 DEF IInv, EntryInv, Owns
    <3>5. QED
      BY <3>3, <3>4
  <2>4. QED
    BY <1>1, <2>2, <2>3
<1>7. HookInv'
  BY DEF IInv, TypeOK, HookInv
<1>8. QED
  BY <1>2, <1>3, <1>4, <1>5, <1>6, <1>7 DEF IInv

LEMMA ExpireKeeps ==
  ASSUME IInv, NEW k \in Slots, Expire(k)
  PROVE  IInv'
<1> USE DEF Expire, exits, hooks, MayExpire
<1>0. /\ info[k].valid /\ pc[info[k].tid] = "gone"
      /\ info' = [info EXCEPT ![k] = Entry(TRUE, info[k].ss, info[k].tid, TRUE)]
      /\ info[k] \in EntryType
  BY DEF IInv, TypeOK
<1>1. TypeOK'
  <2>1. Entry(TRUE, info[k].ss, info[k].tid, TRUE) \in EntryType
    BY <1>0, FieldTypes, EntryTypes
  <2>2. QED
    BY <1>0, <2>1 DEF IInv, TypeOK
<1>2. ASSUME NEW u \in Threads PROVE StackInv(u)'
  BY StackInvFrame DEF IInv, TypeOK
<1>3. ASSUME NEW u \in Threads PROVE TsdInv(u)'
  BY TsdInvFrame DEF IInv, TypeOK
<1>4. \A j \in Slots : /\ info'[j].valid <=> info[j].valid
                       /\ info'[j].tid = info[j].tid /\ info'[j].ss = info[j].ss
                       /\ j # k => info'[j] = info[j]
  BY <1>0 DEF IInv, TypeOK, Entry
<1>5. LockInv'
  <2>1. \A t \in Threads : loc[t].slot # 0 => loc[t].slot \in Slots
    BY FieldTypes, Zeros DEF IInv, TypeOK
  <2>2. QED
    BY <1>4, <2>1 DEF IInv, LockInv
<1>6. ASSUME NEW i \in Slots PROVE EntryInv(i)'
  <2>1. SUFFICES ASSUME info'[i].valid PROVE EntryInv(i)'
    BY DEF EntryInv
  <2>2. info[i].valid /\ info'[i].tid = info[i].tid /\ info'[i].ss = info[i].ss
    BY <1>4, <2>1
  <2>3. Owns(info[i].tid, info[i].ss) /\ pc[info[i].tid] \in {"dtor", "end", "gone"}
        /\ tsd[info[i].tid] = 0
    BY <2>2 DEF IInv, EntryInv
  <2>4. info'[i].ripe => pc[info[i].tid] = "gone"
    BY <1>0, <1>4, <2>2 DEF IInv, EntryInv
  <2>5. ASSUME NEW j \in Slots, info'[j].valid, info'[j].tid = info[i].tid PROVE j = i
    <3>1. info[j].valid /\ info[j].tid = info[i].tid
      BY <1>4, <2>5
    <3>2. EntryInv(i)
      BY DEF IInv
    <3>3. QED
      BY <2>2, <3>1, <3>2 DEF EntryInv
  <2>6. QED
    BY <2>2, <2>3, <2>4, <2>5 DEF EntryInv, Owns
<1>7. HookInv'
  BY DEF IInv, TypeOK, HookInv
<1>8. QED
  BY <1>1, <1>2, <1>3, <1>5, <1>6, <1>7 DEF IInv

LEMMA CleanerLockKeeps ==
  ASSUME IInv, CleanerLock
  PROVE  IInv'
<1> USE DEF CleanerLock, exits, hooks
<1>1. TypeOK'
  BY SizeAssumption DEF IInv, TypeOK
<1>2. ASSUME NEW u \in Threads PROVE StackInv(u)'
  BY StackInvFrame DEF IInv, TypeOK
<1>3. ASSUME NEW u \in Threads PROVE TsdInv(u)'
  BY TsdInvFrame DEF IInv, TypeOK
<1>4. LockInv'
  BY MainAssumption DEF IInv, TypeOK, LockInv
<1>5. ASSUME NEW i \in Slots PROVE EntryInv(i)'
  BY EntryInvFrame DEF IInv, TypeOK
<1>6. HookInv'
  BY DEF IInv, TypeOK, HookInv
<1>7. QED
  BY <1>1, <1>2, <1>3, <1>4, <1>5, <1>6 DEF IInv

LEMMA CleanerUnlockKeeps ==
  ASSUME IInv, CleanerUnlock
  PROVE  IInv'
<1> USE DEF CleanerUnlock, exits, hooks
<1>1. TypeOK'
  BY SizeAssumption DEF IInv, TypeOK
<1>2. ASSUME NEW u \in Threads PROVE StackInv(u)'
  BY StackInvFrame DEF IInv, TypeOK
<1>3. ASSUME NEW u \in Threads PROVE TsdInv(u)'
  BY TsdInvFrame DEF IInv, TypeOK
<1>4. LockInv'
  BY MainAssumption, SizeAssumption DEF IInv, TypeOK, LockInv
<1>5. ASSUME NEW i \in Slots PROVE EntryInv(i)'
  BY EntryInvFrame DEF IInv, TypeOK
<1>6. HookInv'
  BY DEF IInv, TypeOK, HookInv
<1>7. QED
  BY <1>1, <1>2, <1>3, <1>4, <1>5, <1>6 DEF IInv

\* What is unmapped belongs to a thread that is gone: everybody else keeps what he has.
LEMMA CleanerStepKeeps ==
  ASSUME IInv, CleanerStep
  PROVE  IInv'
<1> USE DEF CleanerStep, exits, hooks, Due, Cleared
<1> DEFINE e == info[scan]
<1>0. /\ e.valid /\ e.ripe => /\ Owns(e.tid, e.ss) /\ pc[e.tid] = "gone" /\ e.tid \in Threads
                              /\ \A j \in Slots : info[j].valid /\ info[j].tid = e.tid => j = scan
      /\ scan \in Slots /\ scan # 0 /\ lock = Cleaner /\ Free \notin Threads
  BY FieldTypes, Zeros, MainAssumption DEF IInv, TypeOK, EntryInv, LockInv
<1>1. \/ /\ e.valid /\ e.ripe /\ mem' = Label(mem, e.ss, Free)
         /\ info' = [info EXCEPT ![scan] = NoEntry]
         /\ meta' = [meta EXCEPT ![e.ss] = ZeroMeta]
      \/ UNCHANGED <<mem, meta, info>>
  OBVIOUS
<1>2. TypeOK'
  <2>1. mem' \in [Granules -> Threads \cup {Free}]
    <3>1. mem \in [Granules -> Threads \cup {Free}] /\ Free \in Threads \cup {Free}
      BY DEF IInv, TypeOK
    <3>2. Label(mem, e.ss, Free) \in [Granules -> Threads \cup {Free}]
      BY <3>1, LabelType
    <3>3. QED
      BY <1>1, <3>1, <3>2
  <2>2. scan' \in 0 .. Capacity + 1
    BY SizeAssumption DEF Slots
  <2>3. QED
    BY <1>1, <2>1, <2>2, ConstantRecords DEF IInv, TypeOK
<1>3. ASSUME NEW u \in Threads, u # e.tid
      PROVE  \A g \in Granules : mem'[g] = u <=> mem[g] = u
  BY <1>0, <1>1, <1>3, LabelFacts, CellsInGranules DEF Owns
<1>4. ASSUME NEW u \in Threads PROVE StackInv(u)'
  <2>1. CASE UNCHANGED <<mem, meta, info>>
    BY <2>1, StackInvFrame DEF IInv
  <2>2. CASE u = e.tid /\ e.valid /\ e.ripe
    BY <1>0, <2>2 DEF StackInv, Standing, Quiet, Moving, Pcs
  <2>3. CASE u # e.tid /\ e.valid /\ e.ripe /\ meta' = [meta EXCEPT ![e.ss] = ZeroMeta]
    <3>1. \A b \in Bases : Owns(u, b) => meta'[b] = meta[b]
      BY <1>0, <2>3, OwnersDiffer DEF IInv, TypeOK
    <3>2. QED
      BY <1>3, <2>3, <3>1, StackInvFrame DEF IInv
  <2>4. QED
    BY <1>1, <2>1, <2>2, <2>3
<1>5. ASSUME NEW u \in Threads PROVE TsdInv(u)'
  BY TsdInvFrame DEF IInv
<1>6. LockInv'
  <2>1. scan' # 0 /\ lock' = Cleaner
    BY <1>0, SizeAssumption DEF Slots
  <2>2. QED
    BY <1>0, <2>1, MainAssumption DEF IInv, LockInv
<1>7. ASSUME NEW i \in Slots PROVE EntryInv(i)'
  <2>1. CASE UNCHANGED <<mem, meta, info>>
    BY <2>1, EntryInvFrame DEF IInv
  <2>2. CASE e.valid /\ e.ripe /\ info' = [info EXCEPT ![scan] = NoEntry]
    <3>1. \A j \in Slots : info'[j].valid => j # scan /\ info'[j] = info[j] /\ info[j].tid # e.tid
      BY <1>0, <2>2, ConstantRecords DEF IInv, TypeOK
    <3>2. info'[i].valid => info'[i] = info[i] /\ info[i].tid \in Threads /\ Owns(info[i].tid, info[i].ss)'
      BY <1>3, <3>1, FieldTypes, CellsInGranules DEF IInv, TypeOK, EntryInv, Owns
    <3>3. QED
      BY <3>1, <3>2 DEF IInv, EntryInv, Owns
  <2>3. QED
    BY <1>1, <2>1, <2>2
<1>8. HookInv'
  BY DEF IInv, HookInv
<1>9. QED
  BY <1>2, <1>4, <1>5, <1>6, <1>7, <1>8 DEF IInv

-----------------------------------------------------------------------------
(* Mapping, moving and describing a stack.                                 *)

\* A thread that writes to its own regions only does not disturb another one.
LEMMA StackInvOthers ==
  ASSUME NEW t \in Threads, NEW u \in Threads, u # t, StackInv(u),
         pc'[u] = pc[u], gs'[u] = gs[u], loc'[u] = loc[u],
         \A g \in Granules : mem'[g] = u <=> mem[g] = u,
         \A b \in Bases : ~Owns(t, b) => meta'[b] = meta[b]
  PROVE  StackInv(u)'
<1>1. ASSUME NEW b \in Bases, Owns(u, b) PROVE meta'[b] = meta[b]
  BY <1>1, OwnersDiffer
<1>2. QED
  BY <1>1, StackInvFrame

LEMMA MapStackFacts ==
  ASSUME TypeOK, NEW t \in Threads, NEW b \in Bases, MapStack(t, b)
  PROVE  /\ mem' \in [Granules -> Threads \cup {Free}]
         /\ Owns(t, b)'
         /\ \A u \in Threads : u # t => \A g \in Granules : mem'[g] = u <=> mem[g] = u
         /\ \A c \in Bases : Owns(t, c) => Owns(t, c)' /\ Cells(c) \cap Cells(b) = {}
<1>1. mem' = Label(mem, b, t) /\ \A g \in Cells(b) : mem[g] = Free
  BY DEF MapStack, Unused
<1>2. mem \in [Granules -> Threads \cup {Free}] /\ t \in Threads \cup {Free} /\ Free \notin Threads
  BY MainAssumption DEF TypeOK
<1>3. mem' \in [Granules -> Threads \cup {Free}]
  BY <1>1, <1>2, LabelType
<1>4. \A g \in Granules : mem'[g] = IF g \in Cells(b) THEN t ELSE mem[g]
  BY <1>1, LabelFacts
<1>5. QED
  BY <1>1, <1>2, <1>3, <1>4, CellsInGranules DEF Owns

LEMMA InitMapKeeps ==
  ASSUME IInv, NEW t \in Threads, InitMap(t)
  PROVE  IInv'
<1> USE DEF InitMap, Goto, exits, hooks, tables
<1>0. PICK b \in Bases : MapStack(t, b) /\ loc' = [loc EXCEPT ![t] = Locals(NoBase, NoBase, b, 0)]
  OBVIOUS
<1>1. TypeOK'
  <2>1. Locals(NoBase, NoBase, b, 0) \in LocalType
    BY LocalsType, Zeros
  <2>2. QED
    BY <1>0, <2>1, MapStackFacts DEF IInv, TypeOK, Pcs
<1>2. ASSUME NEW u \in Threads PROVE StackInv(u)'
  <2>1. CASE u = t
    <3>1. loc'[t].new = b /\ Owns(t, b)' /\ pc'[t] = "init"
      BY <1>0, MapStackFacts DEF IInv, TypeOK, Locals
    <3>2. QED
      BY <2>1, <3>1 DEF StackInv, Standing, Quiet, Moving, Pcs, Owns
  <2>2. CASE u # t
    BY <1>0, <2>2, MapStackFacts, StackInvOthers DEF IInv, TypeOK
  <2>3. QED
    BY <2>1, <2>2
<1>3. ASSUME NEW u \in Threads PROVE TsdInv(u)'
  <2>1. CASE u = t
    BY <2>1 DEF IInv, TypeOK, TsdInv, Moving
  <2>2. CASE u # t
    BY <2>2, TsdInvFrame DEF IInv, TypeOK
  <2>3. QED
    BY <2>1, <2>2
<1>4. LockInv'
  BY <1>0 DEF IInv, TypeOK, LockInv
<1>5. ASSUME NEW i \in Slots PROVE EntryInv(i)'
  <2>1. info[i].valid => info[i].tid # t /\ info[i].tid \in Threads
    BY FieldTypes DEF IInv, TypeOK, EntryInv
  <2>2. QED
    BY <1>0, <2>1, MapStackFacts, EntryInvFrame DEF IInv, TypeOK
<1>6. HookInv'
  BY DEF IInv, TypeOK, HookInv
<1>7. QED
  BY <1>1, <1>2, <1>3, <1>4, <1>5, <1>6 DEF IInv

\* A failed arch_prctl stops the process; nothing else changes.
LEMMA CrashKeeps ==
  ASSUME IInv, Crash("prctl")
  PROVE  IInv'
<1> USE DEF Crash, exits, hooks, tables
<1>1. TypeOK'
  BY DEF IInv, TypeOK
<1>2. ASSUME NEW u \in Threads PROVE StackInv(u)' /\ TsdInv(u)'
  BY StackInvFrame, TsdInvFrame DEF IInv
<1>3. LockInv' /\ HookInv'
  BY DEF IInv, LockInv, HookInv
<1>4. ASSUME NEW i \in Slots PROVE EntryInv(i)'
  BY EntryInvFrame DEF IInv
<1>5. QED
  BY <1>1, <1>2, <1>3, <1>4 DEF IInv

LEMMA InitPublishKeeps ==
  ASSUME IInv, NEW t \in Threads, InitPublish(t)
  PROVE  IInv'
<1> USE DEF InitPublish, Goto, exits, hooks, tables
<1> DEFINE b == loc[t].new
<1>0. Owns(t, b) /\ b \in Bases /\ pc[t] = "init"
  BY DEF IInv, StackInv, Owns
<1>1. CASE Crash("prctl")
  BY <1>1, CrashKeeps
<1>2. CASE /\ meta' = [meta EXCEPT ![b] = Metadata(b, b, FALSE, TRUE)]
           /\ gs'   = [gs EXCEPT ![t] = b]
           /\ tsd'  = [tsd EXCEPT ![t] = StartIter(t)]
           /\ loc'  = [loc EXCEPT ![t] = NoLocals]
           /\ Goto(t, "run")
           /\ UNCHANGED <<mem, app, round, hooks, tables, fault>>
  <2> HIDE DEF InitPublish
  <2> USE <1>2
  <2>1. TypeOK'
    <3>1. Metadata(b, b, FALSE, TRUE) \in MetaType /\ b \in Int
      BY <1>0, MetadataType, Zeros
    <3>2. StartIter(t) \in 0 .. Iterations
      BY TsdAssumption DEF StartIter
    <3>3. QED
      BY <3>1, <3>2, ConstantRecords DEF IInv, TypeOK, Pcs
  <2>2. ASSUME NEW u \in Threads PROVE StackInv(u)'
    <3>1. CASE u = t
      <4>1. gs'[t] = b /\ meta'[b] = Metadata(b, b, FALSE, TRUE) /\ pc'[t] = "run"
        BY <1>0 DEF IInv, TypeOK
      <4>2. QED
        BY <1>0, <3>1, <4>1 DEF StackInv, Standing, Quiet, Moving, Pcs, Owns
    <3>2. CASE u # t
      <4>1. \A c \in Bases : ~Owns(t, c) => meta'[c] = meta[c]
        BY <1>0 DEF IInv, TypeOK
      <4>2. QED
        BY <3>2, <4>1, StackInvOthers DEF IInv, TypeOK
    <3>3. QED
      BY <3>1, <3>2
  <2>3. ASSUME NEW u \in Threads PROVE TsdInv(u)'
    <3>1. CASE u = t
      BY <1>0, <3>1 DEF IInv, TypeOK, TsdInv, Moving
    <3>2. CASE u # t
      BY <3>2, TsdInvFrame DEF IInv, TypeOK
    <3>3. QED
      BY <3>1, <3>2
  <2>4. LockInv'
    BY <1>0 DEF IInv, TypeOK, LockInv
  <2>5. ASSUME NEW i \in Slots PROVE EntryInv(i)'
    <3>1. info[i].valid => info[i].tid # t
      BY <1>0 DEF IInv, EntryInv
    <3>2. QED
      BY <3>1, EntryInvFrame DEF IInv, TypeOK
  <2>6. HookInv'
    BY <1>0 DEF IInv, TypeOK, HookInv
  <2>7. QED
    BY <2>1, <2>2, <2>3, <2>4, <2>5, <2>6 DEF IInv
<1>3. QED
  BY <1>1, <1>2

LEMMA RerandBeginKeeps ==
  ASSUME IInv, NEW t \in Threads, RerandBegin(t)
  PROVE  IInv'
<1> DEFINE p == gs[t]
<1>0. /\ p \in Bases /\ Owns(t, p)
      /\ meta[p] = Metadata(p, p, FALSE, TRUE)
      /\ meta' = [meta EXCEPT ![p] = Metadata(p, p, TRUE, TRUE)]
      /\ loc'  = [loc EXCEPT ![t] = Locals(p, NoBase, NoBase, 0)]
      /\ pc' = [pc EXCEPT ![t] = "alloc"]
      /\ pc[t] = "run" \/ (pc[t] = "dtor" /\ app[t] > 0)
      /\ UNCHANGED <<mem, gs, tsd, app, round, hook, cleaners, info, lost, lock, scan, fault>>
  <2>1. pc[t] \in Quiet /\ pc[t] \in Standing
    BY DEF RerandBegin, InAppCode, Quiet, Standing, Pcs
  <2>2. Owns(t, p) /\ meta[p] = Metadata(p, p, FALSE, TRUE)
    BY <2>1 DEF IInv, StackInv
  <2>3. CanTouch(t, p) /\ p \in Bases
    BY <2>1, StandingCanTouch
  <2>4. meta[p].ss = p /\ meta[p].diff = p /\ meta[p].ready = TRUE
    BY <2>2 DEF Metadata
  <2>5. QED
    BY <2>2, <2>3, <2>4 DEF RerandBegin, InAppCode, Goto, exits, hooks, tables
<1>1. TypeOK'
  <2>1. Metadata(p, p, TRUE, TRUE) \in MetaType
    BY <1>0, MetadataType, Zeros
  <2>2. Locals(p, NoBase, NoBase, 0) \in LocalType
    BY <1>0, LocalsType, Zeros
  <2>3. QED
    BY <1>0, <2>1, <2>2 DEF IInv, TypeOK, Pcs
<1>2. ASSUME NEW u \in Threads PROVE StackInv(u)'
  <2>1. CASE u = t
    <3>1. meta'[p] = Metadata(p, p, TRUE, TRUE) /\ loc'[t].ptr = p /\ pc'[t] = "alloc" /\ gs'[t] = p
      BY <1>0 DEF IInv, TypeOK, Locals
    <3>2. QED
      BY <1>0, <2>1, <3>1 DEF StackInv, Standing, Quiet, Moving, Pcs, Owns
  <2>2. CASE u # t
    <3>1. \A c \in Bases : ~Owns(t, c) => meta'[c] = meta[c]
      BY <1>0 DEF IInv, TypeOK
    <3>2. QED
      BY <1>0, <2>2, <3>1, StackInvOthers DEF IInv, TypeOK
  <2>3. QED
    BY <2>1, <2>2
<1>3. pc[t] = "dtor" => round[t] \in 1 .. Iterations - 1 /\ tsd[t] = round[t] + 1
  BY <1>0, TsdAssumption DEF IInv, TypeOK, TsdInv
<1>4. ASSUME NEW u \in Threads PROVE TsdInv(u)'
  <2>1. CASE u = t
    BY <1>0, <1>3, <2>1 DEF IInv, TypeOK, TsdInv, Moving
  <2>2. CASE u # t
    BY <1>0, <2>2, TsdInvFrame DEF IInv, TypeOK
  <2>3. QED
    BY <2>1, <2>2
<1>5. LockInv'
  BY <1>0 DEF IInv, TypeOK, LockInv
<1>6. ASSUME NEW i \in Slots PROVE EntryInv(i)'
  <2>1. info[i].valid => info[i].tid # t
    <3>1. pc[t] = "dtor" => tsd[t] # 0
      BY <1>3
    <3>2. QED
      BY <1>0, <3>1 DEF IInv, EntryInv
  <2>2. QED
    BY <1>0, <2>1, EntryInvFrame DEF IInv, TypeOK
<1>7. HookInv'
  BY <1>0 DEF IInv, TypeOK, HookInv
<1>8. QED
  BY <1>0, <1>1, <1>2, <1>4, <1>5, <1>6, <1>7 DEF IInv

LEMMA RerandAllocKeeps ==
  ASSUME IInv, NEW t \in Threads, RerandAlloc(t)
  PROVE  IInv'
<1> USE DEF RerandAlloc, Goto, exits, hooks, tables
<1>0. Owns(t, gs[t]) /\ loc[t].ptr = gs[t] /\ gs[t] \in Bases
      /\ meta[gs[t]] = Metadata(gs[t], gs[t], TRUE, TRUE)
  BY DEF IInv, StackInv, Standing, Quiet, Moving, Pcs, Owns
<1>1. /\ pc'[t] \in {"move", "finish"} /\ pc' = [pc EXCEPT ![t] = pc'[t]]
      /\ mem' \in [Granules -> Threads \cup {Free}]
      /\ \A u \in Threads : u # t => \A g \in Granules : mem'[g] = u <=> mem[g] = u
      /\ Owns(t, gs[t])'
      /\ loc' \in [Threads -> LocalType] /\ loc'[t].ptr = gs[t]
      /\ \A u \in Threads : u # t => loc'[u] = loc[u]
      /\ pc'[t] = "move" => Owns(t, loc[t].new)' /\ Cells(gs[t]) \cap Cells(loc'[t].new) = {}
  <2>1. CASE Goto(t, "finish") /\ UNCHANGED <<mem, loc>>
    BY <1>0, <2>1 DEF IInv, TypeOK, Owns
  <2>2. ASSUME NEW b \in Bases, MapStack(t, b), Goto(t, "move"),
               loc' = [loc EXCEPT ![t] = Locals(@.ptr, NoBase, b, 0)]
        PROVE  <1>1!:
    <3>1. Locals(gs[t], NoBase, b, 0) \in LocalType
      BY <1>0, LocalsType, Zeros
    <3>2. loc' \in [Threads -> LocalType] /\ loc'[t] = Locals(gs[t], NoBase, b, 0)
      BY <1>0, <2>2, <3>1 DEF IInv, TypeOK
    <3>3. loc'[t].ptr = gs[t] /\ loc'[t].new = b
      BY <3>2 DEF Locals
    <3>4. Owns(t, gs[t])' /\ Owns(t, b)' /\ Cells(gs[t]) \cap Cells(b) = {}
      BY <1>0, <2>2, MapStackFacts DEF IInv, Owns
    <3>5. pc'[t] = "move" /\ pc' = [pc EXCEPT ![t] = pc'[t]]
      BY <2>2 DEF IInv, TypeOK
    <3>6. /\ mem' \in [Granules -> Threads \cup {Free}]
          /\ \A u \in Threads : u # t => \A g \in Granules : mem'[g] = u <=> mem[g] = u
      BY <2>2, MapStackFacts DEF IInv
    <3>7. \A u \in Threads : u # t => loc'[u] = loc[u]
      BY <2>2 DEF IInv, TypeOK
    <3>8. Owns(t, loc[t].new)' /\ Cells(gs[t]) \cap Cells(loc'[t].new) = {}
      BY <3>3, <3>4 DEF Owns
    <3>9. QED
      BY <3>2, <3>3, <3>4, <3>5, <3>6, <3>7, <3>8
  <2>3. QED
    BY <2>1, <2>2
<1> HIDE DEF RerandAlloc
<1>2. UNCHANGED <<meta, gs, tsd, app, round, hook, cleaners, info, lost, lock, scan, fault>> /\ pc[t] = "alloc"
  BY DEF RerandAlloc
<1>3. TypeOK'
  BY <1>1, <1>2 DEF IInv, TypeOK, Pcs
<1>4. ASSUME NEW u \in Threads PROVE StackInv(u)'
  <2>1. CASE u = t
    <3>1. meta'[gs'[t]] = Metadata(gs'[t], gs'[t], TRUE, TRUE) /\ gs' = gs
      BY <1>0, <1>2
    <3>2. QED
      BY <1>1, <2>1, <3>1 DEF StackInv, Standing, Quiet, Moving, Pcs
  <2>2. CASE u # t
    BY <1>1, <1>2, <2>2, StackInvOthers DEF IInv, TypeOK
  <2>3. QED
    BY <2>1, <2>2
<1>5. ASSUME NEW u \in Threads PROVE TsdInv(u)'
  <2>1. CASE u = t
    BY <1>1, <1>2, <2>1 DEF IInv, TypeOK, TsdInv, Moving
  <2>2. CASE u # t
    BY <1>1, <1>2, <2>2, TsdInvFrame DEF IInv, TypeOK
  <2>3. QED
    BY <2>1, <2>2
<1>6. LockInv'
  BY <1>1, <1>2 DEF IInv, TypeOK, LockInv
<1>7. ASSUME NEW i \in Slots PROVE EntryInv(i)'
  <2>1. info[i].valid => info[i].tid # t /\ info[i].tid \in Threads
    BY <1>2, FieldTypes DEF IInv, TypeOK, EntryInv
  <2>2. QED
    BY <1>1, <1>2, <2>1, EntryInvFrame DEF IInv, TypeOK
<1>8. HookInv'
  BY <1>1, <1>2 DEF IInv, TypeOK, HookInv
<1>9. QED
  BY <1>2, <1>3, <1>4, <1>5, <1>6, <1>7, <1>8 DEF IInv

\* Before a move the thread owns both regions, and they are apart.
LEMMA RerandMoveStart ==
  ASSUME IInv, NEW t \in Threads, RerandMove(t)
  PROVE  LET old == gs[t]
             new == loc[t].new
         IN  /\ old \in Bases /\ new \in Bases /\ Owns(t, old) /\ Owns(t, new) /\ old # new
             /\ Cells(old) \cap Cells(new) = {}
             /\ loc[t].ptr = old /\ meta[old] = Metadata(old, old, TRUE, TRUE)
             /\ CanTouch(t, old) /\ pc[t] = "move"
<1> DEFINE old == gs[t]
           new == loc[t].new
<1>1. pc[t] = "move"
  BY DEF RerandMove
<1>2. Owns(t, old) /\ Owns(t, new) /\ Cells(old) \cap Cells(new) = {} /\ loc[t].ptr = old
      /\ meta[old] = Metadata(old, old, TRUE, TRUE)
  BY <1>1 DEF IInv, StackInv, Standing, Quiet, Moving, Pcs
<1>3. QED
  BY <1>1, <1>2, CellsInGranules DEF Owns, CanTouch

\* mremap moves the stack and its metadata, or the new region is given back.
LEMMA RerandMoveEffect ==
  ASSUME IInv, NEW t \in Threads, RerandMove(t)
  PROVE  LET old == gs[t]
             new == loc[t].new
         IN  \/ /\ mem'  = Label(Label(mem, old, Free), new, t)
                /\ meta' = [meta EXCEPT ![new] = Metadata(new, new, TRUE, TRUE), ![old] = ZeroMeta]
                /\ loc'  = [loc EXCEPT ![t] = Locals(old, old, new, 0)]
                /\ pc'   = [pc EXCEPT ![t] = "setgs"]
             \/ /\ mem'  = Label(mem, new, Free)
                /\ meta' = [meta EXCEPT ![old] = Metadata(old, old, TRUE, TRUE)]
                /\ loc'  = loc
                /\ pc'   = [pc EXCEPT ![t] = "finish"]
<1> DEFINE old == gs[t]
           new == loc[t].new
<1>0. old \in Bases /\ new \in Bases /\ meta[old] = Metadata(old, old, TRUE, TRUE)
  BY RerandMoveStart
<1>1. meta[old].ss = old /\ meta[old].diff = old /\ meta[old].busy = TRUE /\ meta[old].ready = TRUE
  BY <1>0 DEF Metadata
<1>2. old + (new - old) = new /\ new - (new - old) = old
  BY <1>0 DEF Bases
<1> DEFINE set == Metadata(new, old + (new - old), TRUE, TRUE)
<1>3. set = Metadata(new, new, TRUE, TRUE) /\ Undo(set, old, new - old) = Metadata(old, old, TRUE, TRUE)
  <2>1. set.diff = new /\ set.busy = TRUE /\ set.ready = TRUE
    BY <1>2 DEF Metadata
  <2>2. QED
    BY <1>2, <2>1 DEF Undo
<1>4. \/ /\ mem'  = Label(Label(mem, meta[old].ss, Free), new, t)
         /\ meta' = [meta EXCEPT ![new] = Metadata(new, meta[old].diff + (new - meta[old].ss),
                                                   meta[old].busy, meta[old].ready),
                                 ![meta[old].ss] = ZeroMeta]
         /\ loc'  = [loc EXCEPT ![t] = Locals(old, meta[old].ss, new, 0)]
         /\ pc'   = [pc EXCEPT ![t] = "setgs"]
      \/ /\ mem'  = Label(mem, new, Free)
         /\ meta' = [meta EXCEPT ![old] =
              Undo(Metadata(new, meta[old].diff + (new - meta[old].ss), meta[old].busy, meta[old].ready),
                   meta[old].ss, new - meta[old].ss)]
         /\ loc'  = loc
         /\ pc'   = [pc EXCEPT ![t] = "finish"]
  <2>1. loc[t].ptr = old /\ CanTouch(t, loc[t].ptr)
    BY RerandMoveStart
  <2>2. QED
    BY <2>1 DEF RerandMove, DropNew, Goto
<1>5. Metadata(new, meta[old].diff + (new - meta[old].ss), meta[old].busy, meta[old].ready) = set
  BY <1>1
<1>6. QED
  BY <1>1, <1>3, <1>4, <1>5

LEMMA RerandMoveKeeps ==
  ASSUME IInv, NEW t \in Threads, RerandMove(t)
  PROVE  IInv'
<1> DEFINE old == gs[t]
           new == loc[t].new
<1>0. /\ old \in Bases /\ new \in Bases /\ Owns(t, old) /\ Owns(t, new) /\ old # new
      /\ Cells(old) \cap Cells(new) = {}
      /\ loc[t].ptr = old /\ meta[old] = Metadata(old, old, TRUE, TRUE)
      /\ CanTouch(t, old) /\ pc[t] = "move"
  BY RerandMoveStart
<1>1. \/ /\ mem'  = Label(Label(mem, old, Free), new, t)
         /\ meta' = [meta EXCEPT ![new] = Metadata(new, new, TRUE, TRUE), ![old] = ZeroMeta]
         /\ loc'  = [loc EXCEPT ![t] = Locals(old, old, new, 0)]
         /\ pc'   = [pc EXCEPT ![t] = "setgs"]
      \/ /\ mem'  = Label(mem, new, Free)
         /\ meta' = [meta EXCEPT ![old] = Metadata(old, old, TRUE, TRUE)]
         /\ loc'  = loc
         /\ pc'   = [pc EXCEPT ![t] = "finish"]
  BY RerandMoveEffect
<1>2. UNCHANGED <<gs, tsd, app, round, hook, cleaners, info, lost, lock, scan, fault>>
  BY <1>0 DEF RerandMove, exits, hooks, tables
<1>3. mem \in [Granules -> Threads \cup {Free}] /\ Free \notin Threads
  BY MainAssumption DEF IInv, TypeOK
<1>4. /\ mem' \in [Granules -> Threads \cup {Free}]
      /\ \A u \in Threads : u # t => \A g \in Granules : mem'[g] = u <=> mem[g] = u
  <2>1. CASE mem' = Label(Label(mem, old, Free), new, t)
    <3>1. Label(mem, old, Free) \in [Granules -> Threads \cup {Free}]
      BY <1>3, LabelType
    <3>2. mem' \in [Granules -> Threads \cup {Free}]
      BY <2>1, <3>1, LabelType
    <3>3. \A g \in Granules : mem'[g] = IF g \in Cells(new) THEN t
                                        ELSE IF g \in Cells(old) THEN Free ELSE mem[g]
      BY <2>1, LabelFacts
    <3>4. QED
      BY <1>0, <1>3, <3>2, <3>3 DEF Owns
  <2>2. CASE mem' = Label(mem, new, Free)
    <3>1. mem' \in [Granules -> Threads \cup {Free}]
      BY <1>3, <2>2, LabelType
    <3>2. \A g \in Granules : mem'[g] = IF g \in Cells(new) THEN Free ELSE mem[g]
      BY <2>2, LabelFacts
    <3>3. QED
      BY <1>0, <1>3, <3>1, <3>2 DEF Owns
  <2>3. QED
    BY <1>1, <2>1, <2>2
<1>5. TypeOK'
  <2>1. /\ Metadata(new, new, TRUE, TRUE) \in MetaType /\ Metadata(old, old, TRUE, TRUE) \in MetaType
        /\ ZeroMeta \in MetaType
    BY <1>0, MetadataType, Zeros, ConstantRecords
  <2>2. Locals(old, old, new, 0) \in LocalType
    BY <1>0, LocalsType, Zeros
  <2>3. meta' \in [Bases -> MetaType] /\ loc' \in [Threads -> LocalType] /\ pc' \in [Threads -> Pcs]
    <3>1. meta \in [Bases -> MetaType] /\ loc \in [Threads -> LocalType] /\ pc \in [Threads -> Pcs]
      BY DEF IInv, TypeOK
    <3>2. pc' \in [Threads -> Pcs]
      BY <1>1, <3>1 DEF Pcs
    <3>3. loc' \in [Threads -> LocalType]
      BY <1>1, <2>2, <3>1
    <3>4. meta' \in [Bases -> MetaType]
      BY <1>1, <2>1, <3>1
    <3>5. QED
      BY <3>2, <3>3, <3>4
  <2>4. QED
    BY <1>2, <1>4, <2>3 DEF IInv, TypeOK
<1>6. ASSUME NEW u \in Threads PROVE StackInv(u)'
  <2>1. CASE u = t /\ pc'[t] = "setgs"
    <3>1. /\ mem'  = Label(Label(mem, old, Free), new, t)
          /\ meta' = [meta EXCEPT ![new] = Metadata(new, new, TRUE, TRUE), ![old] = ZeroMeta]
          /\ loc'  = [loc EXCEPT ![t] = Locals(old, old, new, 0)]
      BY <1>1, <2>1 DEF IInv, TypeOK
    <3>2. loc'[t].ptr = old /\ loc'[t].new = new
      BY <3>1 DEF IInv, TypeOK, Locals
    <3>3. meta'[new] = Metadata(new, new, TRUE, TRUE)
      BY <1>0, <3>1 DEF IInv, TypeOK
    <3>4. \A g \in Granules : mem'[g] = IF g \in Cells(new) THEN t
                                        ELSE IF g \in Cells(old) THEN Free ELSE mem[g]
      BY <3>1, LabelFacts
    <3>5. (\A g \in Cells(new) : mem'[g] = t) /\ mem'[old + 1] # t
      BY <1>0, <1>3, <3>4, CellsInGranules
    <3>6. QED
      BY <1>0, <1>2, <2>1, <3>2, <3>3, <3>5 DEF StackInv, Standing, Quiet, Moving, Pcs, Owns
  <2>2. CASE u = t /\ pc'[t] = "finish"
    <3>1. mem' = Label(mem, new, Free) /\ loc' = loc /\ meta'[old] = Metadata(old, old, TRUE, TRUE)
      BY <1>0, <1>1, <2>2 DEF IInv, TypeOK
    <3>2. \A g \in Cells(old) : mem'[g] = t
      BY <1>0, <3>1, LabelFacts, CellsInGranules DEF Owns
    <3>3. QED
      BY <1>0, <1>2, <2>2, <3>1, <3>2 DEF StackInv, Standing, Quiet, Moving, Pcs, Owns
  <2>3. CASE u # t
    <3>1. \A c \in Bases : ~Owns(t, c) => meta'[c] = meta[c]
      BY <1>0, <1>1 DEF IInv, TypeOK
    <3>2. pc'[u] = pc[u] /\ gs'[u] = gs[u] /\ loc'[u] = loc[u]
      BY <1>1, <1>2, <2>3 DEF IInv, TypeOK
    <3>3. QED
      BY <1>4, <2>3, <3>1, <3>2, StackInvOthers DEF IInv
  <2>4. QED
    BY <1>1, <2>1, <2>2, <2>3 DEF IInv, TypeOK
<1>7. ASSUME NEW u \in Threads PROVE TsdInv(u)'
  <2>1. CASE u = t
    <3>1. pc'[t] \in {"setgs", "finish"}
      BY <1>1 DEF IInv, TypeOK
    <3>2. QED
      BY <1>0, <1>2, <2>1, <3>1 DEF IInv, TsdInv, Moving
  <2>2. CASE u # t
    BY <1>1, <1>2, <2>2, TsdInvFrame DEF IInv, TypeOK
  <2>3. QED
    BY <2>1, <2>2
<1>8. LockInv'
  <2>1. \A u \in Threads : \/ pc'[u] = pc[u] /\ loc'[u] = loc[u]
                           \/ pc[u] = "move" /\ pc'[u] \in {"setgs", "finish"}
    BY <1>0, <1>1 DEF IInv, TypeOK
  <2>2. QED
    BY <1>2, <2>1 DEF IInv, LockInv
<1>9. ASSUME NEW i \in Slots PROVE EntryInv(i)'
  <2>1. info[i].valid => info[i].tid # t /\ info[i].tid \in Threads
    BY <1>0, FieldTypes DEF IInv, TypeOK, EntryInv
  <2>2. \A u \in Threads : u # t => pc'[u] = pc[u]
    BY <1>1 DEF IInv, TypeOK
  <2>3. QED
    BY <1>2, <1>4, <2>1, <2>2, EntryInvFrame DEF IInv
<1>10. HookInv'
  <2>1. \A u \in Threads : pc'[u] = pc[u] \/ (pc[u] = "move" /\ pc'[u] \in {"setgs", "finish"})
    BY <1>0, <1>1 DEF IInv, TypeOK
  <2>2. QED
    BY <1>2, <2>1 DEF IInv, HookInv
<1>11. QED
  BY <1>2, <1>5, <1>6, <1>7, <1>8, <1>9, <1>10 DEF IInv

LEMMA RerandSetGsKeeps ==
  ASSUME IInv, NEW t \in Threads, RerandSetGs(t)
  PROVE  IInv'
<1> DEFINE new == loc[t].new
<1>0. /\ Owns(t, new) /\ new \in Bases /\ meta[new] = Metadata(new, new, TRUE, TRUE)
      /\ meta[new].diff = new /\ pc[t] = "setgs" /\ ~CanTouch(t, loc[t].ptr)
  <2>1. pc[t] = "setgs"
    BY DEF RerandSetGs
  <2>2. Owns(t, new) /\ meta[new] = Metadata(new, new, TRUE, TRUE) /\ mem[gs[t] + 1] # t /\ loc[t].ptr = gs[t]
    BY <2>1 DEF IInv, StackInv, Moving
  <2>3. QED
    BY <2>1, <2>2 DEF Owns, CanTouch, Metadata
<1>1. CASE Crash("prctl")
  BY <1>1, CrashKeeps
<1>2. CASE /\ gs'  = [gs EXCEPT ![t] = new]
           /\ loc' = [loc EXCEPT ![t] = Locals(new, loc[t].old, new, 0)]
           /\ pc' = [pc EXCEPT ![t] = "finish"]
           /\ UNCHANGED <<mem, meta, tsd, app, round, hook, cleaners, info, lost, lock, scan, fault>>
  <2>1. TypeOK'
    <3>1. loc[t].old \in Bases \cup {NoBase}
      BY FieldTypes DEF IInv, TypeOK
    <3>2. Locals(new, loc[t].old, new, 0) \in LocalType /\ new \in Int
      BY <1>0, <3>1, LocalsType, Zeros
    <3>3. QED
      BY <1>2, <3>2 DEF IInv, TypeOK, Pcs
  <2>2. ASSUME NEW u \in Threads PROVE StackInv(u)'
    <3>1. CASE u = t
      <4>1. gs'[t] = new /\ loc'[t].ptr = new /\ pc'[t] = "finish"
        BY <1>2 DEF IInv, TypeOK, Locals
      <4>2. QED
        BY <1>0, <1>2, <3>1, <4>1 DEF StackInv, Standing, Quiet, Moving, Pcs, Owns
    <3>2. CASE u # t
      BY <1>2, <3>2, StackInvFrame DEF IInv, TypeOK
    <3>3. QED
      BY <3>1, <3>2
  <2>3. ASSUME NEW u \in Threads PROVE TsdInv(u)'
    <3>1. CASE u = t
      BY <1>0, <1>2, <3>1 DEF IInv, TypeOK, TsdInv, Moving
    <3>2. CASE u # t
      BY <1>2, <3>2, TsdInvFrame DEF IInv, TypeOK
    <3>3. QED
      BY <3>1, <3>2
  <2>4. LockInv'
    BY <1>0, <1>2 DEF IInv, TypeOK, LockInv
  <2>5. ASSUME NEW i \in Slots PROVE EntryInv(i)'
    <3>1. info[i].valid => info[i].tid # t
      BY <1>0 DEF IInv, EntryInv
    <3>2. QED
      BY <1>2, <3>1, EntryInvFrame DEF IInv, TypeOK
  <2>6. HookInv'
    BY <1>0, <1>2 DEF IInv, TypeOK, HookInv
  <2>7. QED
    BY <1>2, <2>1, <2>2, <2>3, <2>4, <2>5, <2>6 DEF IInv
<1>3. QED
  BY <1>0, <1>1, <1>2 DEF RerandSetGs, PtrAfterMove, Goto, exits, hooks, tables

LEMMA RerandFinishKeeps ==
  ASSUME IInv, NEW t \in Threads, RerandFinish(t)
  PROVE  IInv'
<1> DEFINE p == gs[t]
<1>0. /\ p \in Bases /\ Owns(t, p) /\ pc[t] = "finish"
      /\ meta' = [meta EXCEPT ![p] = Metadata(p, p, FALSE, TRUE)]
      /\ loc'  = [loc EXCEPT ![t] = NoLocals]
      /\ pc' = [pc EXCEPT ![t] = CallerOf(t)]
      /\ UNCHANGED <<mem, gs, tsd, app, round, hook, cleaners, info, lost, lock, scan, fault>>
  <2>1. pc[t] = "finish"
    BY DEF RerandFinish
  <2>2. Owns(t, p) /\ meta[p] = Metadata(p, p, TRUE, TRUE) /\ loc[t].ptr = p
    BY <2>1 DEF IInv, StackInv, Quiet, Standing, Moving, Pcs
  <2>3. CanTouch(t, p) /\ p \in Bases
    BY <2>1, StandingCanTouch DEF Standing, Pcs
  <2>4. meta[p].ss = p /\ meta[p].diff = p /\ meta[p].ready = TRUE
    BY <2>2 DEF Metadata
  <2>5. QED
    BY <2>1, <2>2, <2>3, <2>4 DEF RerandFinish, Goto, exits, hooks, tables
<1>1. CallerOf(t) \in {"run", "dtor"}
  BY DEF CallerOf
<1>2. TypeOK'
  <2>1. Metadata(p, p, FALSE, TRUE) \in MetaType
    BY <1>0, MetadataType, Zeros
  <2>2. QED
    BY <1>0, <1>1, <2>1, ConstantRecords DEF IInv, TypeOK, Pcs
<1>3. ASSUME NEW u \in Threads PROVE StackInv(u)'
  <2>1. CASE u = t
    <3>1. meta'[p] = Metadata(p, p, FALSE, TRUE) /\ pc'[t] \in {"run", "dtor"} /\ gs'[t] = p
      BY <1>0, <1>1 DEF IInv, TypeOK
    <3>2. QED
      BY <1>0, <2>1, <3>1 DEF StackInv, Standing, Quiet, Moving, Pcs, Owns
  <2>2. CASE u # t
    <3>1. \A c \in Bases : ~Owns(t, c) => meta'[c] = meta[c]
      BY <1>0 DEF IInv, TypeOK
    <3>2. QED
      BY <1>0, <2>2, <3>1, StackInvOthers DEF IInv, TypeOK
  <2>3. QED
    BY <2>1, <2>2
<1>4. ASSUME NEW u \in Threads PROVE TsdInv(u)'
  <2>1. CASE u = t
    BY <1>0, <2>1, TsdAssumption DEF IInv, TypeOK, TsdInv, Moving, CallerOf
  <2>2. CASE u # t
    BY <1>0, <2>2, TsdInvFrame DEF IInv, TypeOK
  <2>3. QED
    BY <2>1, <2>2
<1>5. LockInv'
  BY <1>0, <1>1 DEF IInv, TypeOK, LockInv
<1>6. ASSUME NEW i \in Slots PROVE EntryInv(i)'
  <2>1. info[i].valid => info[i].tid # t
    BY <1>0 DEF IInv, EntryInv
  <2>2. QED
    BY <1>0, <2>1, EntryInvFrame DEF IInv, TypeOK
<1>7. HookInv'
  BY <1>0, <1>1 DEF IInv, TypeOK, HookInv
<1>8. QED
  BY <1>0, <1>2, <1>3, <1>4, <1>5, <1>6, <1>7 DEF IInv

-----------------------------------------------------------------------------
(* The invariant holds at the start and in every step.                     *)

LEMMA InitKeeps ==
  ASSUME Init
  PROVE  IInv
<1> USE DEF Init
<1>1. TypeOK
  <2>1. /\ mem \in [Granules -> Threads \cup {Free}] /\ gs \in [Threads -> Int]
        /\ pc \in [Threads -> Pcs] /\ lost \subseteq Threads
        /\ lock \in Threads \cup {Free, Cleaner} /\ fault \in {"none", "wild", "prctl"}
    BY Zeros DEF Pcs
  <2>2. /\ tsd \in [Threads -> 0 .. Iterations] /\ app \in [Threads -> 0 .. MaxAppRounds]
        /\ round \in [Threads -> 0 .. Iterations] /\ scan \in 0 .. Capacity + 1
        /\ hook \in BOOLEAN /\ cleaners \in Nat
    <3>1. 0 \in 0 .. Iterations /\ 0 \in 0 .. MaxAppRounds /\ 0 \in 0 .. Capacity + 1 /\ 0 \in Nat
      BY SizeAssumption, TsdAssumption
    <3>2. QED
      BY <3>1
  <2>3. meta \in [Bases -> MetaType]
    BY ConstantRecords
  <2>4. loc \in [Threads -> LocalType]
    BY ConstantRecords
  <2>5. info \in [Slots -> EntryType]
    BY ConstantRecords
  <2>6. QED
    BY <2>1, <2>2, <2>3, <2>4, <2>5 DEF TypeOK
<1>2. ASSUME NEW t \in Threads PROVE StackInv(t) /\ TsdInv(t)
  BY DEF StackInv, TsdInv, Standing, Quiet, Moving, Pcs
<1>3. LockInv
  BY MainAssumption DEF LockInv
<1>4. ASSUME NEW i \in Slots PROVE EntryInv(i)
  BY ConstantRecords DEF EntryInv
<1>5. HookInv
  BY DEF HookInv
<1>6. QED
  BY <1>1, <1>2, <1>3, <1>4, <1>5 DEF IInv

LEMMA ThreadStepKeeps ==
  ASSUME IInv, NEW t \in Threads, ThreadStep(t)
  PROVE  IInv'
<1>1. CASE InitMap(t)
  BY <1>1, InitMapKeeps
<1>2. CASE InitPublish(t)
  BY <1>2, InitPublishKeeps
<1>3. CASE CreateEnter(t)
  BY <1>3, CreateEnterKeeps
<1>4. CASE CreateHook(t)
  BY <1>4, CreateHookKeeps
<1>5. CASE CreateClone(t)
  BY <1>5, CreateCloneKeeps
<1>6. CASE RerandBegin(t)
  BY <1>6, RerandBeginKeeps
<1>7. CASE RerandAlloc(t)
  BY <1>7, RerandAllocKeeps
<1>8. CASE RerandMove(t)
  BY <1>8, RerandMoveKeeps
<1>9. CASE RerandSetGs(t)
  BY <1>9, RerandSetGsKeeps
<1>10. CASE RerandFinish(t)
  BY <1>10, RerandFinishKeeps
<1>11. CASE ThreadReturn(t)
  BY <1>11, ThreadReturnKeeps
<1>12. CASE CleanupHandler(t)
  BY <1>12, CleanupHandlerKeeps
<1>13. CASE EndRound(t)
  BY <1>13, EndRoundKeeps
<1>14. CASE ThreadEnd(t)
  BY <1>14, ThreadEndKeeps
<1>15. CASE ReleaseLock(t)
  BY <1>15, ReleaseLockKeeps
<1>16. CASE AddFind(t)
  BY <1>16, AddFindKeeps
<1>17. CASE AddStore(t)
  BY <1>17, AddStoreKeeps
<1>18. CASE ReleaseGivesUp(t)
  BY <1>18, ReleaseGivesUpKeeps
<1>19. QED
  BY <1>1, <1>2, <1>3, <1>4, <1>5, <1>6, <1>7, <1>8, <1>9, <1>10, <1>11, <1>12,
     <1>13, <1>14, <1>15, <1>16, <1>17, <1>18 DEF ThreadStep

LEMMA StutterKeeps ==
  ASSUME IInv, UNCHANGED vars
  PROVE  IInv'
<1> USE DEF vars, exits, hooks, tables
<1>1. TypeOK'
  BY DEF IInv, TypeOK
<1>2. ASSUME NEW t \in Threads PROVE StackInv(t)' /\ TsdInv(t)'
  BY StackInvFrame, TsdInvFrame DEF IInv
<1>3. LockInv'
  BY DEF IInv, LockInv
<1>4. ASSUME NEW i \in Slots PROVE EntryInv(i)'
  BY EntryInvFrame DEF IInv
<1>5. HookInv'
  BY DEF IInv, HookInv
<1>6. QED
  BY <1>1, <1>2, <1>3, <1>4, <1>5 DEF IInv

LEMMA NextKeeps ==
  ASSUME IInv, [Next]_vars
  PROVE  IInv'
<1>1. CASE \E t \in Threads : ThreadStep(t)
  BY <1>1, ThreadStepKeeps
<1>2. CASE \E i \in Slots : Expire(i)
  BY <1>2, ExpireKeeps
<1>3. CASE CleanerLock
  BY <1>3, CleanerLockKeeps
<1>4. CASE CleanerStep
  BY <1>4, CleanerStepKeeps
<1>5. CASE CleanerUnlock
  BY <1>5, CleanerUnlockKeeps
<1>6. CASE UNCHANGED vars
  BY <1>6, StutterKeeps
<1>7. QED
  BY <1>1, <1>2, <1>3, <1>4, <1>5, <1>6 DEF Next, CleanerAction

\* Every reachable state of the library is one that IInv describes: the stacks, the
\* metadata, the destructor rounds, the mutex and the table agree at each location.
THEOREM Inductive == Spec => []IInv
<1>1. Init => IInv
  BY InitKeeps
<1>2. IInv /\ [Next]_vars => IInv'
  BY NextKeeps
<1>3. QED
  BY <1>1, <1>2, PTL DEF Spec

\* The variables keep their types.
THEOREM TypeCorrect == Spec => []TypeOK
<1>1. IInv => TypeOK
  BY DEF IInv
<1>2. QED
  BY <1>1, Inductive, PTL

\* What the invariant says, one property at a time.
LEMMA OwnStack ==
  ASSUME IInv
  PROVE  StackIsOwn
BY DEF IInv, StackInv, StackIsOwn, Owns

LEMMA QuietMetadata ==
  ASSUME IInv
  PROVE  MetadataMatches
BY DEF IInv, StackInv, MetadataMatches

LEMMA TableOwns ==
  ASSUME IInv
  PROVE  EntriesMapped
BY DEF IInv, EntryInv, EntriesMapped, Owns

LEMMA NoDestructorLeft ==
  ASSUME IInv
  PROVE  DestructorsFirst
<1>1. SUFFICES ASSUME NEW t \in Threads, Released(t), app[t] # 0 PROVE FALSE
  BY DEF DestructorsFirst
<1>2. app[t] \in 0 .. MaxAppRounds /\ round[t] \in 0 .. Iterations /\ TsdInv(t)
  BY DEF IInv, TypeOK
<1>3. app[t] > 0 /\ app[t] + round[t] <= MaxAppRounds + 1
  BY <1>1, <1>2, TsdAssumption DEF TsdInv
<1>4. round[t] = Iterations
  BY <1>1, <1>2, TsdAssumption DEF TsdInv, Released
<1>5. QED
  BY <1>2, <1>3, <1>4, TsdAssumption

\* The shadow stack of a thread that still runs protected code is mapped for it
\* alone, whatever the other threads and the cleaner do and whichever calls fail.
THEOREM StackSafe == Spec => []StackIsOwn
BY Inductive, OwnStack, PTL

\* The library never reads or writes metadata whose pages are gone, unless
\* arch_prctl has failed.
THEOREM NoStrayAccess == Spec => []NoFault
<1>1. IInv => NoFault
  BY DEF IInv, NoFault
<1>2. QED
  BY <1>1, Inductive, PTL

\* Every move, whether it succeeds, finds no memory or is undone, leaves metadata
\* that describes the stack it is in.
THEOREM MetadataSafe == Spec => []MetadataMatches
BY Inductive, QuietMetadata, PTL

\* The cleaner only ever unmaps regions of threads that are gone.
THEOREM CleanerSafe == Spec => []EntriesMapped
BY Inductive, TableOwns, PTL

\* The shadow stack is handed over in a round after the last one in which an
\* application's destructor runs.
THEOREM ReleasedLast == Spec => []DestructorsFirst
BY Inductive, NoDestructorLeft, PTL

\* There is at most one cleaner thread.
THEOREM OneCleaner == Spec => []SingleCleaner
<1>1. IInv => SingleCleaner
  BY DEF IInv, HookInv, SingleCleaner
<1>2. QED
  BY <1>1, Inductive, PTL

-----------------------------------------------------------------------------
(* What a step may never do.                                               *)

LEMMA LostStep ==
  ASSUME IInv, [Next]_vars, NEW t \in Threads, pc[t] = "store", t \in lost' \ lost
  PROVE  \A i \in Slots : info[i].valid
<1> USE DEF exits, hooks, tables
<1>1. PICK u \in Threads : ThreadStep(u)
  BY DEF Next, Expire, CleanerAction, CleanerLock, CleanerStep, CleanerUnlock, vars
<1>2. AddStore(u)
  <2>1. ~InitMap(u) /\ ~InitPublish(u) /\ ~CreateEnter(u) /\ ~CreateHook(u) /\ ~CreateClone(u)
    BY DEF InitMap, InitPublish, Crash, CreateEnter, CreateHook, CreateClone
  <2>2. ~RerandBegin(u) /\ ~RerandAlloc(u) /\ ~RerandMove(u) /\ ~RerandSetGs(u) /\ ~RerandFinish(u)
    BY DEF RerandBegin, RerandAlloc, RerandMove, RerandSetGs, RerandFinish, Crash
  <2>3. ~ThreadReturn(u) /\ ~CleanupHandler(u) /\ ~EndRound(u) /\ ~ThreadEnd(u)
    BY DEF ThreadReturn, CleanupHandler, EndRound, ThreadEnd
  <2>4. ~ReleaseGivesUp(u) /\ ~ReleaseLock(u) /\ ~AddFind(u)
    BY DEF ReleaseGivesUp, ReleaseLock, AddFind, Crash
  <2>5. QED
    BY <1>1, <2>1, <2>2, <2>3, <2>4 DEF ThreadStep
<1>3. pc[u] = "store" /\ loc[u].slot = 0
  BY <1>2 DEF AddStore
<1>4. QED
  BY <1>3 DEF IInv, LockInv

\* A region that reaches add_memory_region is given up only when every entry of the
\* table is taken.
THEOREM NothingLostEarly == Spec => LostOnlyWhenFull
<1>1. IInv /\ [Next]_vars =>
        [\A t \in Threads :
           pc[t] = "store" /\ t \in lost' \ lost => \A i \in Slots : info[i].valid]_vars
  BY LostStep
<1>2. QED
  BY <1>1, Inductive, PTL DEF Spec, LostOnlyWhenFull

\* A thread that stays where it is has changed neither gs nor any metadata.
LEMMA StayingIsQuiet ==
  ASSUME IInv, NEW t \in Threads, ThreadStep(t), pc'[t] = pc[t]
  PROVE  gs' = gs /\ meta' = meta
<1> USE DEF Goto
<1>1. pc \in [Threads -> Pcs]
  BY DEF IInv, TypeOK
<1>2. ~CreateEnter(t) /\ ~CreateHook(t) /\ ~CreateClone(t)
  BY <1>1 DEF CreateEnter, CreateHook, CreateClone, NextOfCreate
<1>3. ~ThreadReturn(t) /\ ~CleanupHandler(t) /\ ~EndRound(t) /\ ~ThreadEnd(t)
  BY <1>1 DEF ThreadReturn, CleanupHandler, EndRound, ThreadEnd
<1>4. ~InitMap(t) /\ ~RerandAlloc(t) /\ ~ReleaseGivesUp(t) /\ ~AddFind(t) /\ ~AddStore(t)
  BY <1>1 DEF InitMap, RerandAlloc, ReleaseGivesUp, AddFind, AddStore
<1>5. CASE InitPublish(t) \/ RerandBegin(t) \/ ReleaseLock(t)
  BY <1>1, <1>5 DEF InitPublish, RerandBegin, ReleaseLock, InAppCode, Crash
<1>6. ~RerandMove(t)
  BY <1>1, RerandMoveStart, RerandMoveEffect
<1>7. CASE RerandSetGs(t)
  BY <1>1, <1>7 DEF RerandSetGs, Crash
<1>8. CASE RerandFinish(t)
  BY <1>1, <1>8 DEF RerandFinish, Crash, CallerOf
<1>9. QED
  BY <1>2, <1>3, <1>4, <1>5, <1>6, <1>7, <1>8 DEF ThreadStep

\* A step of one thread writes metadata only in regions that are its own, and no gs
\* but its own.
LEMMA OthersKept ==
  ASSUME IInv, NEW u \in Threads, ThreadStep(u), NEW t \in Threads, t # u,
         NEW c \in Bases, ~Owns(u, c)
  PROVE  gs'[t] = gs[t] /\ meta'[c] = meta[c]
<1> USE DEF exits, hooks, tables
<1>1. gs \in [Threads -> Int] /\ meta \in [Bases -> MetaType]
  BY DEF IInv, TypeOK
<1>2. CASE CreateEnter(u) \/ CreateHook(u) \/ CreateClone(u)
  BY <1>2 DEF CreateEnter, CreateHook, CreateClone
<1>3. CASE ThreadReturn(u) \/ CleanupHandler(u) \/ EndRound(u) \/ ThreadEnd(u)
  BY <1>1, <1>3 DEF ThreadReturn, CleanupHandler, EndRound, ThreadEnd
<1>4. CASE InitMap(u) \/ RerandAlloc(u) \/ ReleaseGivesUp(u) \/ ReleaseLock(u) \/ AddFind(u) \/ AddStore(u)
  BY <1>4 DEF InitMap, RerandAlloc, ReleaseGivesUp, ReleaseLock, AddFind, AddStore, Crash
<1>5. CASE InitPublish(u)
  <2>1. Owns(u, loc[u].new)
    BY <1>5 DEF InitPublish, IInv, StackInv
  <2>2. QED
    BY <1>1, <1>5, <2>1 DEF InitPublish, Crash
<1>6. CASE RerandBegin(u)
  <2>1. Owns(u, gs[u])
    BY <1>6 DEF RerandBegin, InAppCode, IInv, StackInv, Standing, Pcs
  <2>2. QED
    BY <1>1, <1>6, <2>1 DEF RerandBegin, Crash
<1>7. CASE RerandMove(u)
  <2>1. Owns(u, gs[u]) /\ Owns(u, loc[u].new)
    BY <1>7, RerandMoveStart
  <2>2. c # gs[u] /\ c # loc[u].new
    BY <2>1
  <2>3. meta'[c] = meta[c]
    BY <1>1, <1>7, <2>2, RerandMoveEffect
  <2>4. gs' = gs
    BY <1>7 DEF RerandMove, Crash
  <2>5. QED
    BY <2>3, <2>4
<1>8. CASE RerandSetGs(u)
  <2>1. ~CanTouch(u, loc[u].ptr)
    BY <1>8 DEF RerandSetGs, IInv, StackInv, Moving, CanTouch
  <2>2. QED
    BY <1>1, <1>8, <2>1 DEF RerandSetGs, Crash
<1>9. CASE RerandFinish(u)
  <2>1. Owns(u, loc[u].ptr)
    BY <1>9 DEF RerandFinish, IInv, StackInv, Standing, Moving, Pcs
  <2>2. QED
    BY <1>1, <1>9, <2>1 DEF RerandFinish, Crash
<1>10. QED
  BY <1>2, <1>3, <1>4, <1>5, <1>6, <1>7, <1>8, <1>9 DEF ThreadStep

LEMMA StackStays ==
  ASSUME IInv, [Next]_vars, NEW t \in Threads, pc[t] \in Standing, pc'[t] = pc[t]
  PROVE  gs'[t] = gs[t] /\ meta'[gs[t]] = meta[gs[t]]
<1>1. Owns(t, gs[t]) /\ gs[t] \in Bases
  BY DEF IInv, StackInv, Owns
<1>2. CASE \E u \in Threads : ThreadStep(u)
  <2>1. PICK u \in Threads : ThreadStep(u)
    BY <1>2
  <2>2. CASE u = t
    BY <2>1, <2>2, StayingIsQuiet
  <2>3. CASE u # t
    <3>1. ~Owns(u, gs[t])
      BY <1>1, <2>3, OwnersDiffer
    <3>2. QED
      BY <1>1, <2>1, <2>3, <3>1, OthersKept
  <2>4. QED
    BY <2>2, <2>3
<1>3. CASE CleanerStep
  <2>1. gs' = gs
    BY <1>3 DEF CleanerStep
  <2>2. CASE Due(info[scan])
    <3>1. scan \in Slots /\ info[scan].valid /\ info[scan].ripe
      BY <1>3, <2>2 DEF CleanerStep, Due
    <3>2. Owns(info[scan].tid, info[scan].ss) /\ pc[info[scan].tid] = "gone"
      BY <3>1 DEF IInv, EntryInv
    <3>3. info[scan].ss # gs[t]
      BY <1>1, <3>2, OwnersDiffer DEF Standing
    <3>4. meta' = [meta EXCEPT ![info[scan].ss] = ZeroMeta]
      BY <1>3, <2>2 DEF CleanerStep
    <3>5. QED
      BY <1>1, <2>1, <3>3, <3>4 DEF IInv, TypeOK
  <2>3. CASE ~Due(info[scan])
    BY <1>3, <2>1, <2>3 DEF CleanerStep
  <2>4. QED
    BY <2>2, <2>3
<1>4. CASE CleanerLock \/ CleanerUnlock \/ (\E i \in Slots : Expire(i)) \/ UNCHANGED vars
  BY <1>4 DEF CleanerLock, CleanerUnlock, Expire, vars
<1>5. QED
  BY <1>2, <1>3, <1>4 DEF Next, CleanerAction

\* No step of another thread or of the cleaner moves a thread's shadow stack or
\* writes its metadata.
THEOREM StacksLeftAlone == Spec => OthersKeepOut
<1>1. IInv /\ [Next]_vars =>
        [\A t \in Threads : (pc[t] \in Standing /\ pc'[t] = pc[t])
                              => gs'[t] = gs[t] /\ meta'[gs[t]] = meta[gs[t]]]_vars
  BY StackStays
<1>2. IInv /\ [Next]_vars =>
        [\A t \in Threads : (pc[t] \in Standing /\ pc'[t] = pc[t])
            => gs'[t] = gs[t] /\ \A b \in Bases : b = gs[t] => meta'[b] = meta[b]]_vars
  BY <1>1
<1>3. QED
  BY <1>2, Inductive, PTL DEF Spec, OthersKeepOut

-----------------------------------------------------------------------------
(* No page is lost.  NoLeak is inductive relative to IInv.                 *)

\* A thread that does not act holds what it held if its entries stay.
LEMMA HoldsFrame ==
  ASSUME NEW u \in Threads, NEW b \in Bases, Holds(u, b),
         pc'[u] = pc[u], gs'[u] = gs[u], loc'[u] = loc[u], tsd'[u] = tsd[u], round'[u] = round[u],
         \A i \in Slots : info[i].valid /\ info[i].tid = u
            => info'[i].valid /\ info'[i].tid = u /\ info'[i].ss = info[i].ss
  PROVE  Holds(u, b)'
BY DEF Holds, Released

\* Only thread t has lost or gained pages.
LEMMA LeakFrame ==
  ASSUME NoLeak, NEW t \in Threads, lost \subseteq lost',
         \A u \in Threads \ {t} : \A b \in Bases : Holds(u, b) => Holds(u, b)',
         \A g \in Granules : mem[g] \in Threads \cup {Free},
         \A g \in Granules : mem'[g] = mem[g] \/ mem'[g] \in {Free, t},
         \A g \in Granules : mem'[g] = t =>
            t \in lost' \/ \E b \in Bases : Holds(t, b)' /\ g \in Cells(b)
  PROVE  NoLeak'
<1>1. SUFFICES ASSUME NEW g \in Granules, NEW o \in Threads, mem'[g] = o
               PROVE  o \in lost' \/ \E b \in Bases : Holds(o, b)' /\ g \in Cells(b)
  BY DEF NoLeak
<1>2. CASE o = t
  BY <1>1, <1>2
<1>3. CASE o # t
  <2>1. mem[g] = o /\ o # Free
    BY <1>1, <1>3, MainAssumption
  <2>2. o \in lost \/ \E b \in Bases : Holds(o, b) /\ g \in Cells(b)
    BY <2>1 DEF NoLeak
  <2>3. QED
    BY <1>3, <2>2
<1>4. QED
  BY <1>2, <1>3

\* No page changes hands, and the acting thread still holds what it held.
LEMMA LeakQuiet ==
  ASSUME NoLeak, IInv, mem' = mem, lost \subseteq lost',
         \A u \in Threads : \A b \in Bases : Holds(u, b) => Holds(u, b)'
  PROVE  NoLeak'
<1>1. SUFFICES ASSUME NEW g \in Granules, mem[g] # Free
               PROVE  mem[g] \in lost' \/ \E b \in Bases : Holds(mem[g], b)' /\ g \in Cells(b)
  BY DEF NoLeak
<1>2. mem[g] \in Threads
  BY <1>1 DEF IInv, TypeOK
<1>3. QED
  BY <1>1, <1>2 DEF NoLeak

\* What a thread owns it holds, and nothing else, unless its region was dropped.
LEMMA OwnedIsHeld ==
  ASSUME NoLeak, IInv, NEW t \in Threads, NEW g \in Granules, mem[g] = t, t \notin lost
  PROVE  \E b \in Bases : Holds(t, b) /\ g \in Cells(b)
BY MainAssumption DEF NoLeak

LEMMA CreateAndExitDoNotLeak ==
  ASSUME NoLeak, IInv, NEW t \in Threads,
         CreateEnter(t) \/ CreateHook(t) \/ CreateClone(t) \/ ThreadReturn(t) \/ CleanupHandler(t)
           \/ EndRound(t) \/ ThreadEnd(t)
  PROVE  NoLeak'
<1>1. mem' = mem /\ lost' = lost /\ info' = info /\ loc' = loc
  BY DEF CreateEnter, CreateHook, CreateClone, ThreadReturn, CleanupHandler, EndRound, ThreadEnd, tables
<1>2. ASSUME NEW u \in Threads, NEW b \in Bases, Holds(u, b), u # t PROVE Holds(u, b)'
  <2>1. CASE pc'[u] = pc[u]
    <3>1. gs'[u] = gs[u] /\ tsd'[u] = tsd[u] /\ round'[u] = round[u]
      BY <1>2 DEF CreateEnter, CreateHook, CreateClone, ThreadReturn, CleanupHandler, EndRound,
                        ThreadEnd, exits, IInv, TypeOK
    <3>2. QED
      BY <1>1, <1>2, <2>1, <3>1, HoldsFrame
  <2>2. CASE pc'[u] # pc[u]
    <3>1. pc[u] = "none"
      BY <1>2, <2>2 DEF CreateEnter, CreateHook, CreateClone, ThreadReturn, CleanupHandler,
                        EndRound, ThreadEnd, Goto, IInv, TypeOK
    <3>2. QED
      BY <1>2, <3>1 DEF Holds, Standing, Released, Pcs
  <2>3. QED
    BY <2>1, <2>2
<1>3. ASSUME NEW b \in Bases, Holds(t, b) PROVE Holds(t, b)'
  <2>1. TsdInv(t)
    BY DEF IInv
  <2>2. CASE CreateEnter(t) \/ CreateHook(t) \/ CreateClone(t) \/ ThreadReturn(t)
    BY <1>1, <1>3, <2>1, <2>2, TsdAssumption
       DEF CreateEnter, CreateHook, CreateClone, ThreadReturn, Goto, NextOfCreate, exits, Holds, Released,
           Standing, Pcs, IInv, TypeOK, TsdInv, StartIter
  <2>3. CASE CleanupHandler(t)
    BY <1>1, <1>3, <2>1, <2>3, TsdAssumption
       DEF CleanupHandler, Goto, Rearm, Holds, Released, Standing, Pcs, IInv, TypeOK, TsdInv
  <2>4. CASE EndRound(t)
    BY <1>1, <1>3, <2>1, <2>4, TsdAssumption
       DEF EndRound, Goto, Holds, Released, Standing, Pcs, IInv, TypeOK, TsdInv
  <2>5. CASE ThreadEnd(t)
    BY <1>1, <1>3, <2>1, <2>5, TsdAssumption
       DEF ThreadEnd, Goto, exits, Holds, Released, Standing, Pcs, IInv, TypeOK, TsdInv
  <2>6. QED
    BY <2>2, <2>3, <2>4, <2>5
<1>4. QED
  BY <1>1, <1>2, <1>3, LeakQuiet

LEMMA QuietStepsDoNotLeak ==
  ASSUME NoLeak, IInv, NEW t \in Threads,
         InitPublish(t) \/ RerandBegin(t) \/ RerandSetGs(t) \/ RerandFinish(t) \/ ReleaseLock(t) \/ AddFind(t)
  PROVE  NoLeak'
<1>0. StackInv(t) /\ TsdInv(t)
  BY DEF IInv
<1>1. mem' = mem /\ lost' = lost /\ info' = info
  <2>1. CASE RerandSetGs(t)
    <3>1. ~CanTouch(t, loc[t].ptr)
      BY <1>0, <2>1 DEF RerandSetGs, StackInv, Moving, CanTouch
    <3>2. QED
      BY <2>1, <3>1 DEF RerandSetGs, Crash, tables
  <2>2. CASE InitPublish(t) \/ RerandBegin(t) \/ RerandFinish(t) \/ ReleaseLock(t) \/ AddFind(t)
    BY <2>2 DEF InitPublish, RerandBegin, RerandFinish, ReleaseLock, AddFind, Crash, tables
  <2>3. QED
    BY <2>1, <2>2
<1>2. ASSUME NEW u \in Threads, u # t
      PROVE  pc'[u] = pc[u] /\ gs'[u] = gs[u] /\ loc'[u] = loc[u] /\ tsd'[u] = tsd[u] /\ round'[u] = round[u]
  <2>1. CASE RerandSetGs(t)
    BY <1>2, <2>1 DEF RerandSetGs, Goto, Crash, exits, IInv, TypeOK
  <2>2. CASE InitPublish(t) \/ RerandBegin(t) \/ RerandFinish(t) \/ ReleaseLock(t) \/ AddFind(t)
    BY <1>2, <2>2 DEF InitPublish, RerandBegin, RerandFinish, ReleaseLock, AddFind, Goto, Crash, exits,
                      IInv, TypeOK
  <2>3. QED
    BY <2>1, <2>2
<1>3. ASSUME NEW b \in Bases, Holds(t, b) PROVE Holds(t, b)'
  <2>1. CASE UNCHANGED <<pc, gs, loc, tsd, round>>
    BY <1>1, <1>3, <2>1, HoldsFrame
  <2>2. CASE InitPublish(t) /\ pc' # pc
    <3>1. pc[t] = "init" /\ pc'[t] = "run" /\ gs'[t] = loc[t].new /\ round'[t] = 0
      BY <1>0, <2>2 DEF InitPublish, Goto, Crash, IInv, TypeOK, TsdInv
    <3>2. QED
      BY <1>3, <3>1 DEF Holds, Released, Standing, Pcs
  <2>3. CASE RerandSetGs(t) /\ pc' # pc
    <3>1. ~CanTouch(t, loc[t].ptr) /\ pc[t] = "setgs"
      BY <1>0, <2>3 DEF RerandSetGs, StackInv, Moving, CanTouch
    <3>2. meta[loc[t].new].diff = loc[t].new
      BY <1>0, <3>1 DEF StackInv, Metadata
    <3>3. gs'[t] = loc[t].new /\ pc'[t] = "finish"
      BY <2>3, <3>1, <3>2 DEF RerandSetGs, Goto, Crash, IInv, TypeOK
    <3>4. QED
      BY <1>3, <3>1, <3>3 DEF Holds, Released, Standing, Pcs
  <2>4. CASE (RerandBegin(t) \/ RerandFinish(t)) /\ pc' # pc
    <3>1. gs' = gs /\ tsd' = tsd /\ round' = round
      BY <2>4 DEF RerandBegin, RerandFinish, Crash, exits
    <3>2. ~Released(t) /\ pc[t] \in {"run", "dtor", "finish"}
      <4>1. pc[t] \in {"run", "finish"} \/ (pc[t] = "dtor" /\ app[t] > 0)
        BY <2>4 DEF RerandBegin, RerandFinish, InAppCode
      <4>2. CASE pc[t] = "dtor" /\ app[t] > 0
        <5>1. app[t] + round[t] <= MaxAppRounds + 1 /\ app[t] \in Nat
          BY <1>0, <4>2, TsdAssumption DEF TsdInv, IInv, TypeOK
        <5>2. round[t] # Iterations
          BY <4>2, <5>1, TsdAssumption
        <5>3. tsd[t] # 0
          BY <1>0, <4>2, <5>2, TsdAssumption DEF TsdInv
        <5>4. QED
          BY <4>2, <5>3 DEF Released
      <4>3. QED
        BY <4>1, <4>2 DEF Released
    <3>3. b = gs[t]
      BY <1>3, <3>2 DEF Holds
    <3>4. pc'[t] \in {"alloc", "run", "dtor"}
      BY <2>4 DEF RerandBegin, RerandFinish, Goto, CallerOf, Crash, IInv, TypeOK
    <3>5. ~Released(t)'
      BY <1>0, <2>4, <3>1, <3>2, <3>4, TsdAssumption
         DEF RerandBegin, RerandFinish, InAppCode, Released, TsdInv, Moving, IInv, TypeOK
    <3>6. QED
      BY <3>1, <3>3, <3>4, <3>5 DEF Holds, Standing, Pcs
  <2>5. CASE (ReleaseLock(t) \/ AddFind(t)) /\ pc' # pc
    <3>1. gs' = gs /\ pc[t] \in {"release", "find"} /\ pc'[t] \in {"find", "store"}
      BY <2>5 DEF ReleaseLock, AddFind, Goto, Crash, IInv, TypeOK
    <3>2. QED
      BY <1>3, <3>1 DEF Holds, Released, Standing, Pcs
  <2>6. pc' = pc => UNCHANGED <<pc, gs, loc, tsd, round>>
    BY DEF InitPublish, RerandBegin, RerandSetGs, RerandFinish, ReleaseLock, AddFind, InAppCode, Goto, Crash,
           CallerOf, exits, IInv, TypeOK
  <2>7. QED
    BY <2>1, <2>2, <2>3, <2>4, <2>5, <2>6
<1>4. QED
  BY <1>1, <1>2, <1>3, HoldsFrame, LeakQuiet

LEMMA InitMapDoesNotLeak ==
  ASSUME NoLeak, IInv, NEW t \in Threads, InitMap(t)
  PROVE  NoLeak'
<1>1. PICK n \in Bases : MapStack(t, n) /\ loc' = [loc EXCEPT ![t] = Locals(NoBase, NoBase, n, 0)]
  BY DEF InitMap
<1>2. /\ pc[t] = "new" /\ pc' = [pc EXCEPT ![t] = "init"]
      /\ UNCHANGED <<meta, gs, tsd, app, round, info, lost>>
  BY DEF InitMap, Goto, exits, tables
<1>3. \A g \in Granules : mem'[g] = IF g \in Cells(n) THEN t ELSE mem[g]
  BY <1>1, LabelFacts DEF MapStack
<1>4. \A u \in Threads \ {t} : \A b \in Bases : Holds(u, b) => Holds(u, b)'
  BY <1>1, <1>2, HoldsFrame DEF IInv, TypeOK
<1>5. ASSUME NEW g \in Granules, mem'[g] = t
      PROVE  t \in lost' \/ \E b \in Bases : Holds(t, b)' /\ g \in Cells(b)
  <2>1. CASE g \in Cells(n)
    <3>1. pc'[t] = "init" /\ loc'[t].new = n
      BY <1>1, <1>2 DEF IInv, TypeOK, Locals
    <3>2. Holds(t, n)'
      BY <3>1 DEF Holds
    <3>3. QED
      BY <2>1, <3>2
  <2>2. CASE g \notin Cells(n)
    <3>1. mem[g] = t
      BY <1>3, <1>5, <2>2
    <3>2. ~\E b \in Bases : Holds(t, b)
      BY <1>2 DEF Holds, Released, Standing, Pcs
    <3>3. QED
      BY <1>2, <3>1, <3>2, OwnedIsHeld
  <2>3. QED
    BY <2>1, <2>2
<1>6. QED
  BY <1>2, <1>3, <1>4, <1>5, LeakFrame DEF IInv, TypeOK

LEMMA RerandAllocDoesNotLeak ==
  ASSUME NoLeak, IInv, NEW t \in Threads, RerandAlloc(t)
  PROVE  NoLeak'
<1>0. /\ pc[t] = "alloc"
      /\ UNCHANGED <<meta, gs, tsd, app, round, info, lost>>
  BY DEF RerandAlloc, exits, tables
<1>1. ASSUME NEW b \in Bases, Holds(t, b) PROVE b = gs[t]
  BY <1>0, <1>1 DEF Holds, Released
<1>2. ~Released(t)' /\ (pc'[t] \in {"move", "finish"} => Holds(t, gs[t])')
  <2>1. pc'[t] \in {"move", "finish"}
    BY DEF RerandAlloc, Goto, IInv, TypeOK
  <2>2. QED
    BY <1>0, <2>1 DEF Holds, Released, Standing, Pcs
<1>3. gs[t] \in Bases
  BY <1>0 DEF IInv, StackInv, Standing, Pcs, Owns
<1>4. CASE Goto(t, "finish") /\ UNCHANGED <<mem, loc>>
  <2>1. \A u \in Threads \ {t} : \A b \in Bases : Holds(u, b) => Holds(u, b)'
    BY <1>0, <1>4, HoldsFrame DEF Goto, IInv, TypeOK
  <2>2. Holds(t, gs[t])'
    BY <1>2, <1>4 DEF Goto, IInv, TypeOK
  <2>3. QED
    BY <1>0, <1>1, <1>4, <2>1, <2>2, LeakQuiet
<1>5. ASSUME NEW n \in Bases, MapStack(t, n), Goto(t, "move"),
             loc' = [loc EXCEPT ![t] = Locals(@.ptr, NoBase, n, 0)]
      PROVE  NoLeak'
  <2>1. \A g \in Granules : mem'[g] = IF g \in Cells(n) THEN t ELSE mem[g]
    BY <1>5, LabelFacts DEF MapStack
  <2>2. \A u \in Threads \ {t} : \A b \in Bases : Holds(u, b) => Holds(u, b)'
    BY <1>0, <1>5, HoldsFrame DEF Goto, IInv, TypeOK
  <2>3. pc'[t] = "move" /\ loc'[t].new = n
    BY <1>5 DEF Goto, IInv, TypeOK, Locals
  <2>4. Holds(t, n)' /\ Holds(t, gs[t])'
    BY <1>2, <2>3 DEF Holds
  <2>5. ASSUME NEW g \in Granules, mem'[g] = t
        PROVE  t \in lost' \/ \E b \in Bases : Holds(t, b)' /\ g \in Cells(b)
    <3>1. CASE g \in Cells(n)
      BY <2>4, <3>1
    <3>2. CASE g \notin Cells(n)
      <4>1. t \in lost \/ \E b \in Bases : Holds(t, b) /\ g \in Cells(b)
        BY <2>1, <2>5, <3>2, OwnedIsHeld
      <4>2. QED
        BY <1>0, <1>1, <1>3, <2>4, <4>1
    <3>3. QED
      BY <3>1, <3>2
  <2>6. QED
    BY <1>0, <2>1, <2>2, <2>5, LeakFrame DEF IInv, TypeOK
<1>6. QED
  BY <1>4, <1>5 DEF RerandAlloc

LEMMA RerandMoveDoesNotLeak ==
  ASSUME NoLeak, IInv, NEW t \in Threads, RerandMove(t)
  PROVE  NoLeak'
<1> DEFINE old == gs[t]
           new == loc[t].new
<1>0. /\ old \in Bases /\ new \in Bases /\ Owns(t, old) /\ Owns(t, new)
      /\ pc[t] = "move" /\ CanTouch(t, loc[t].ptr)
  BY RerandMoveStart
<1>1. UNCHANGED <<gs, tsd, app, round, info, lost>>
  BY <1>0 DEF RerandMove, exits, tables
<1>2. \A u \in Threads \ {t} : pc'[u] = pc[u] /\ loc'[u] = loc[u]
  BY RerandMoveEffect DEF IInv, TypeOK
<1>3. \A u \in Threads \ {t} : \A b \in Bases : Holds(u, b) => Holds(u, b)'
  BY <1>1, <1>2, HoldsFrame
<1>4. ASSUME NEW g \in Granules, mem[g] = t, t \notin lost
      PROVE  g \in Cells(old) \cup Cells(new)
  <2>1. PICK b \in Bases : Holds(t, b) /\ g \in Cells(b)
    BY <1>4, OwnedIsHeld
  <2>2. b = old \/ b = new
    BY <1>0, <2>1 DEF Holds, Released
  <2>3. QED
    BY <2>1, <2>2
<1>5. CASE mem' = Label(Label(mem, old, Free), new, t) /\ loc' = [loc EXCEPT ![t] = Locals(old, old, new, 0)]
           /\ pc' = [pc EXCEPT ![t] = "setgs"]
  <2>1. \A g \in Granules : mem'[g] = IF g \in Cells(new) THEN t
                                      ELSE IF g \in Cells(old) THEN Free ELSE mem[g]
    BY <1>5, LabelFacts
  <2>2. pc'[t] = "setgs" /\ loc'[t].new = new
    BY <1>5 DEF IInv, TypeOK, Locals
  <2>3. \A b \in Bases : b = new => Holds(t, b)'
    BY <2>2 DEF Holds
  <2>4. ASSUME NEW g \in Granules, mem'[g] = t, t \notin lost
        PROVE  g \in Cells(new)
    BY <1>4, <2>1, <2>4, MainAssumption
  <2>5. ASSUME NEW g \in Granules, mem'[g] = t
        PROVE  t \in lost' \/ \E b \in Bases : Holds(t, b)' /\ g \in Cells(b)
    <3>1. t \in lost' \/ g \in Cells(new)
      BY <1>1, <2>4, <2>5
    <3>2. QED
      BY <1>0, <2>3, <3>1
  <2>6. \A g \in Granules : mem'[g] = mem[g] \/ mem'[g] \in {Free, t}
    BY <2>1
  <2>7. QED
    BY <1>1, <1>3, <2>5, <2>6, LeakFrame DEF IInv, TypeOK
<1>6. CASE mem' = Label(mem, new, Free) /\ pc' = [pc EXCEPT ![t] = "finish"]
  <2>1. \A g \in Granules : mem'[g] = IF g \in Cells(new) THEN Free ELSE mem[g]
    BY <1>6, LabelFacts
  <2>2. Holds(t, old)'
    BY <1>1, <1>6 DEF Holds, Released, Standing, Pcs, IInv, TypeOK
  <2>3. ASSUME NEW g \in Granules, mem'[g] = t, t \notin lost
        PROVE  g \in Cells(old)
    BY <1>4, <2>1, <2>3, MainAssumption
  <2>4. QED
    BY <1>0, <1>1, <1>3, <2>1, <2>2, <2>3, LeakFrame DEF IInv, TypeOK
<1>7. QED
  BY <1>5, <1>6, RerandMoveEffect

LEMMA AddStoreDoesNotLeak ==
  ASSUME NoLeak, IInv, NEW t \in Threads, AddStore(t)
  PROVE  NoLeak'
<1> DEFINE s == loc[t].slot
<1>0. /\ pc[t] = "store" /\ pc' = [pc EXCEPT ![t] = "dtor"] /\ loc' = [loc EXCEPT ![t] = NoLocals]
      /\ UNCHANGED <<mem, meta, gs, tsd, app, round>> /\ lost \subseteq lost'
  BY DEF AddStore, Goto, exits
<1>1. /\ gs[t] \in Bases /\ loc[t].old = gs[t] /\ round[t] = Iterations /\ tsd[t] = 0 /\ s \in 0 .. Capacity
      /\ s # 0 => s \in Slots /\ ~info[s].valid
  <2>1. gs[t] \in Bases /\ loc[t].old = gs[t] /\ round[t] = Iterations /\ tsd[t] = 0
    BY <1>0 DEF IInv, StackInv, TsdInv, Standing, Pcs, Owns
  <2>2. s \in 0 .. Capacity /\ (s # 0 => s \in Slots)
    BY FieldTypes, Zeros DEF IInv, TypeOK
  <2>3. QED
    BY <1>0, <2>1, <2>2 DEF IInv, LockInv
<1>2. \A i \in Slots : info[i].valid => info'[i] = info[i]
  BY <1>1 DEF AddStore, IInv, TypeOK
<1>3. \A u \in Threads \ {t} : \A b \in Bases : Holds(u, b) => Holds(u, b)'
  BY <1>0, <1>2, HoldsFrame DEF IInv, TypeOK
<1>4. ASSUME NEW b \in Bases, Holds(t, b) PROVE t \in lost' \/ Holds(t, b)'
  <2>1. b = gs[t]
    BY <1>0, <1>4 DEF Holds, Released
  <2>2. CASE s = 0
    BY <2>2 DEF AddStore
  <2>3. CASE s # 0
    <3>1. info'[s] = Entry(TRUE, gs[t], t, FALSE)
      BY <1>1, <2>3 DEF AddStore, IInv, TypeOK
    <3>2. info'[s].valid = TRUE /\ info'[s].tid = t /\ info'[s].ss = gs[t]
      BY <3>1 DEF Entry
    <3>3. Released(t)'
      BY <1>0, <1>1, TsdAssumption DEF Released, IInv, TypeOK
    <3>4. QED
      BY <1>1, <2>1, <2>3, <3>2, <3>3 DEF Holds
  <2>4. QED
    BY <2>2, <2>3
<1>5. \A g \in Granules : mem'[g] = t => t \in lost' \/ \E b \in Bases : Holds(t, b)' /\ g \in Cells(b)
  BY <1>0, <1>4, OwnedIsHeld
<1>6. QED
  BY <1>0, <1>3, <1>5, LeakFrame DEF IInv, TypeOK

LEMMA ReleaseGivesUpDoesNotLeak ==
  ASSUME NoLeak, IInv, NEW t \in Threads, ReleaseGivesUp(t)
  PROVE  NoLeak'
<1>1. /\ lost' = lost \cup {t} /\ pc' = [pc EXCEPT ![t] = "dtor"]
      /\ UNCHANGED <<mem, gs, loc, tsd, round, info>>
  BY DEF ReleaseGivesUp, Goto, exits
<1>2. \A u \in Threads \ {t} : \A b \in Bases : Holds(u, b) => Holds(u, b)'
  BY <1>1, HoldsFrame DEF IInv, TypeOK
<1>3. QED
  BY <1>1, <1>2, LeakFrame DEF IInv, TypeOK

LEMMA TimeDoesNotLeak ==
  ASSUME NoLeak, IInv, CleanerLock \/ CleanerUnlock \/ (\E i \in Slots : Expire(i))
  PROVE  NoLeak'
<1>1. UNCHANGED <<mem, gs, loc, pc, tsd, round, lost>>
  BY DEF CleanerLock, CleanerUnlock, Expire, exits
<1>2. \A i \in Slots : info'[i].valid = info[i].valid /\ info'[i].tid = info[i].tid /\ info'[i].ss = info[i].ss
  <2>1. CASE info' = info
    BY <2>1
  <2>2. ASSUME NEW k \in Slots, Expire(k)
        PROVE  \A i \in Slots : /\ info'[i].valid = info[i].valid
                                 /\ info'[i].tid = info[i].tid /\ info'[i].ss = info[i].ss
    <3>1. /\ info[k].valid /\ info' = [info EXCEPT ![k] = Entry(TRUE, info[k].ss, info[k].tid, TRUE)]
          /\ info[k].valid \in BOOLEAN
      BY <2>2, FieldTypes DEF Expire, IInv, TypeOK
    <3>2. QED
      BY <3>1 DEF Entry, IInv, TypeOK
  <2>3. QED
    BY <2>1, <2>2 DEF CleanerLock, CleanerUnlock
<1>3. QED
  BY <1>1, <1>2, HoldsFrame, LeakQuiet

LEMMA CleanerStepDoesNotLeak ==
  ASSUME NoLeak, IInv, CleanerStep
  PROVE  NoLeak'
<1> DEFINE e == info[scan]
<1>0. UNCHANGED <<gs, loc, pc, tsd, round, lost>> /\ scan \in Slots
  BY DEF CleanerStep, exits
<1>1. CASE ~Due(e)
  BY <1>0, <1>1, HoldsFrame, LeakQuiet DEF CleanerStep
<1>2. CASE Due(e)
  <2>0. PICK o \in Threads : o = e.tid
    BY <1>0, FieldTypes DEF IInv, TypeOK
  <2>1. /\ e.valid /\ Owns(o, e.ss) /\ pc[o] = "gone"
        /\ \A j \in Slots : info[j].valid /\ info[j].tid = o => j = scan
    BY <1>0, <1>2, <2>0 DEF Due, IInv, EntryInv
  <2>2. /\ mem' = Label(mem, e.ss, Free) /\ info' = [info EXCEPT ![scan] = NoEntry]
    BY <1>2 DEF CleanerStep, Cleared
  <2>3. \A g \in Granules : mem'[g] = IF g \in Cells(e.ss) THEN Free ELSE mem[g]
    BY <2>2, LabelFacts
  <2>4. \A i \in Slots : i # scan => info'[i] = info[i]
    BY <2>2 DEF IInv, TypeOK
  <2>5. \A u \in Threads \ {o} : \A b \in Bases : Holds(u, b) => Holds(u, b)'
    BY <1>0, <2>0, <2>4, HoldsFrame
  <2>6. ASSUME NEW g \in Granules, mem'[g] = o
        PROVE  o \in lost' \/ \E b \in Bases : Holds(o, b)' /\ g \in Cells(b)
    <3>1. mem[g] = o /\ g \notin Cells(e.ss)
      BY <2>1, <2>3, <2>6, MainAssumption
    <3>2. CASE o \notin lost
      <4>1. PICK b \in Bases : Holds(o, b) /\ g \in Cells(b)
        BY <2>1, <3>1, <3>2, OwnedIsHeld
      <4>2. b = e.ss
        BY <1>0, <2>0, <2>1, <4>1 DEF Holds, Standing
      <4>3. QED
        BY <3>1, <4>1, <4>2
    <3>3. QED
      BY <1>0, <3>2
  <2>7. \A g \in Granules : mem'[g] = mem[g] \/ mem'[g] \in {Free, o}
    BY <2>3
  <2>8. (\A g \in Granules : mem[g] \in Threads \cup {Free}) /\ lost \subseteq lost'
    BY <1>0 DEF IInv, TypeOK
  <2>9. QED
    BY <2>5, <2>6, <2>7, <2>8, LeakFrame
<1>3. QED
  BY <1>1, <1>2

LEMMA NextDoesNotLeak ==
  ASSUME NoLeak, IInv, [Next]_vars
  PROVE  NoLeak'
<1>1. CASE UNCHANGED vars
  BY <1>1, HoldsFrame, LeakQuiet DEF vars, exits, tables
<1>2. CASE \E t \in Threads : ThreadStep(t)
  BY <1>2, CreateAndExitDoNotLeak, QuietStepsDoNotLeak, InitMapDoesNotLeak, RerandAllocDoesNotLeak,
     RerandMoveDoesNotLeak, AddStoreDoesNotLeak, ReleaseGivesUpDoesNotLeak DEF ThreadStep
<1>3. CASE (\E i \in Slots : Expire(i)) \/ CleanerAction
  BY <1>3, TimeDoesNotLeak, CleanerStepDoesNotLeak DEF CleanerAction
<1>4. QED
  BY <1>1, <1>2, <1>3 DEF Next

\* Every mapped page belongs to a live stack, to a move under way or to an entry of
\* the table, unless its thread's region never got into the table.
THEOREM NothingLeaks == Spec => []NoLeak
<1>1. Init => NoLeak
  BY DEF Init, NoLeak
<1>2. NoLeak /\ IInv /\ [Next]_vars => NoLeak'
  BY NextDoesNotLeak
<1>3. QED
  BY <1>1, <1>2, Inductive, PTL DEF Spec

-----------------------------------------------------------------------------
(* The refinement of ShadowOwners.  It needs one more invariant: a thread   *)
(* has no page besides the stack of its gs and the region of a move, also   *)
(* when its region was dropped, so that exactly its stack is retired.       *)

\* Where the pages of a thread may be.
Room(t) ==
    IF pc[t] \in {"init", "setgs"} THEN Cells(loc[t].new)
    ELSE IF pc[t] = "move" THEN Cells(gs[t]) \cup Cells(loc[t].new)
    ELSE IF pc[t] \in Standing THEN Cells(gs[t])
    ELSE IF pc[t] = "gone" THEN Granules ELSE {}

Confined(t) == \A g \in Granules : mem[g] = t => g \in Room(t)
AllConfined == \A t \in Threads : Confined(t)

LEMMA ConfinedFrame ==
  ASSUME NEW u \in Threads, Confined(u), pc'[u] = pc[u], gs'[u] = gs[u], loc'[u] = loc[u],
         \A g \in Granules : mem'[g] = u => mem[g] = u
  PROVE  Confined(u)'
BY DEF Confined, Room

LEMMA StackOfFrame ==
  ASSUME NEW u \in Threads, pc'[u] = pc[u], gs'[u] = gs[u], loc'[u] = loc[u]
  PROVE  StackOf(u)' = StackOf(u)
BY DEF StackOf

\* Threads outside the library's stack are not part of the promise.
LEMMA StackOfNone ==
  ASSUME NEW u \in Threads, pc[u] \in {"none", "new", "init", "gone"}
  PROVE  StackOf(u) = {}
BY DEF StackOf, Standing, Pcs

LEMMA StackOfStanding ==
  ASSUME NEW u \in Threads, pc[u] \in Standing
  PROVE  StackOf(u) = Cells(gs[u])
BY DEF StackOf, Standing, Pcs

\* The stack of a thread is made of pages that the thread owns.
LEMMA StackOfOwned ==
  ASSUME IInv, NEW u \in Threads, NEW g \in StackOf(u)
  PROVE  g \in Granules /\ mem[g] = u
BY CellsInGranules DEF IInv, StackInv, StackOf, Owns, Standing, Pcs

LEMMA RetiredPagesDef ==
  ASSUME NEW g
  PROVE  g \in RetiredPages <=>
           \/ \E i \in Slots : info[i].valid /\ pc[info[i].tid] = "gone" /\ g \in Cells(info[i].ss)
           \/ g \in Granules /\ mem[g] \in lost /\ pc[mem[g]] = "gone"
BY DEF RetiredPages

\* Retired pages are those of threads that are gone.
LEMMA RetiredOwned ==
  ASSUME IInv, NEW g \in RetiredPages
  PROVE  g \in Granules /\ mem[g] \in Threads /\ pc[mem[g]] = "gone"
<1>1. CASE \E i \in Slots : info[i].valid /\ pc[info[i].tid] = "gone" /\ g \in Cells(info[i].ss)
  <2>1. PICK i \in Slots : info[i].valid /\ pc[info[i].tid] = "gone" /\ g \in Cells(info[i].ss)
    BY <1>1
  <2>2. Owns(info[i].tid, info[i].ss) /\ info[i].tid \in Threads
    BY <2>1, FieldTypes DEF IInv, TypeOK, EntryInv
  <2>3. QED
    BY <2>1, <2>2, CellsInGranules DEF Owns
<1>2. CASE g \in Granules /\ mem[g] \in lost /\ pc[mem[g]] = "gone"
  BY <1>2 DEF IInv, TypeOK
<1>3. QED
  BY <1>1, <1>2, RetiredPagesDef

\* What has been retired stays retired as long as its threads' pages and entries do.
LEMMA RetiredFrame ==
  ASSUME IInv, NEW t \in Threads, pc[t] # "gone", pc'[t] # "gone",
         \A u \in Threads \ {t} : pc'[u] = "gone" <=> pc[u] = "gone",
         \A g \in Granules : mem'[g] = mem[g] \/ (mem[g] \in {Free, t} /\ mem'[g] \in {Free, t}),
         \A u \in Threads \ {t} : u \in lost' <=> u \in lost,
         lost' \subseteq Threads,
         \A i \in Slots : info'[i] = info[i] \/ (~info[i].valid /\ info'[i].tid = t)
  PROVE  RetiredPages' = RetiredPages
<1>1. \A i \in Slots : info[i].tid \in Threads
  BY FieldTypes DEF IInv, TypeOK
<1>2. \A i \in Slots : (info'[i].valid /\ pc'[info'[i].tid] = "gone")
                       <=> (info[i].valid /\ pc[info[i].tid] = "gone" /\ info'[i] = info[i])
  BY <1>1
<1>3. \A g \in Granules : (mem'[g] \in lost' /\ pc'[mem'[g]] = "gone")
                          <=> (mem[g] \in lost /\ pc[mem[g]] = "gone")
  <2>1. lost \subseteq Threads /\ Free \notin Threads
    BY MainAssumption DEF IInv, TypeOK
  <2>2. QED
    BY <2>1
<1>4. ASSUME NEW g PROVE g \in RetiredPages' <=> g \in RetiredPages
  <2>1. g \in RetiredPages' <=>
           \/ \E i \in Slots : info'[i].valid /\ pc'[info'[i].tid] = "gone" /\ g \in Cells(info'[i].ss)
           \/ g \in Granules /\ mem'[g] \in lost' /\ pc'[mem'[g]] = "gone"
    BY DEF RetiredPages
  <2>2. (\E i \in Slots : info'[i].valid /\ pc'[info'[i].tid] = "gone" /\ g \in Cells(info'[i].ss))
        <=> (\E i \in Slots : info[i].valid /\ pc[info[i].tid] = "gone" /\ g \in Cells(info[i].ss))
    BY <1>2
  <2>3. QED
    BY <1>3, <2>1, <2>2, RetiredPagesDef
<1>5. QED
  BY <1>4

\* The region that a thread has just got overlaps no stack and no retired page.
LEMMA NewIsFresh ==
  ASSUME IInv, NEW t \in Threads, pc[t] \in {"init", "move"}
  PROVE  Cells(loc[t].new) \in Owners!Fresh
<1> DEFINE new == loc[t].new
<1>1. Owns(t, new) /\ (pc[t] = "move" => Cells(gs[t]) \cap Cells(new) = {})
  BY DEF IInv, StackInv
<1>2. Cells(new) \subseteq Granules /\ Cells(new) # {} /\ \A g \in Cells(new) : mem[g] = t
  BY <1>1, CellsInGranules DEF Owns
<1>3. \A g \in Cells(new) : g \notin RetiredPages
  BY <1>2, RetiredOwned
<1>4. ASSUME NEW u \in Threads, NEW g \in Cells(new) PROVE g \notin StackOf(u)
  <2>1. CASE u # t
    BY <1>2, <2>1, StackOfOwned
  <2>2. CASE u = t /\ pc[t] = "init"
    BY <2>2, StackOfNone
  <2>3. CASE u = t /\ pc[t] = "move"
    BY <1>1, <2>3, StackOfStanding DEF Standing, Pcs
  <2>4. QED
    BY <2>1, <2>2, <2>3
<1>5. QED
  BY <1>2, <1>3, <1>4 DEF Owners!Fresh, Owners!Used


\* The actions of ShadowOwners, in the terms of this module.
LEMMA OwnersStutter ==
  ASSUME \A u \in Threads : StackOf(u)' = StackOf(u), RetiredPages' = RetiredPages
  PROVE  UNCHANGED Owners!vars
BY DEF Owners!vars

LEMMA OwnersGive ==
  ASSUME NEW t \in Threads, NEW S \in Owners!Fresh, StackOf(t) = {}, StackOf(t)' = S,
         \A u \in Threads \ {t} : StackOf(u)' = StackOf(u), RetiredPages' = RetiredPages
  PROVE  Owners!Next
BY DEF Owners!Next, Owners!Give

LEMMA OwnersMove ==
  ASSUME NEW t \in Threads, NEW S \in Owners!Fresh, StackOf(t) # {}, StackOf(t)' = S,
         \A u \in Threads \ {t} : StackOf(u)' = StackOf(u), RetiredPages' = RetiredPages
  PROVE  Owners!Next
BY DEF Owners!Next, Owners!Move

LEMMA OwnersRetire ==
  ASSUME NEW t \in Threads, StackOf(t) # {}, StackOf(t)' = {},
         \A u \in Threads \ {t} : StackOf(u)' = StackOf(u),
         RetiredPages' = RetiredPages \cup StackOf(t)
  PROVE  Owners!Next
BY DEF Owners!Next, Owners!Retire

LEMMA OwnersReclaim ==
  ASSUME NEW S \in SUBSET RetiredPages, S # {}, RetiredPages' = RetiredPages \ S,
         \A u \in Threads : StackOf(u)' = StackOf(u)
  PROVE  Owners!Next
BY DEF Owners!Next, Owners!Reclaim


\* The threads that do not act keep their pages and their stacks; one may be created.
LEMMA OthersMap ==
  ASSUME IInv, AllConfined, NEW t \in Threads,
         \A u \in Threads \ {t} : \/ pc'[u] = pc[u] /\ gs'[u] = gs[u] /\ loc'[u] = loc[u]
                                  \/ pc[u] = "none" /\ pc'[u] = "new",
         \A u \in Threads \ {t}, g \in Granules : mem'[g] = u => mem[g] = u
  PROVE  \A u \in Threads \ {t} : /\ Confined(u)' /\ StackOf(u)' = StackOf(u)
                                  /\ pc'[u] = "gone" <=> pc[u] = "gone"
<1>1. SUFFICES ASSUME NEW u \in Threads \ {t}
               PROVE  /\ Confined(u)' /\ StackOf(u)' = StackOf(u)
                      /\ pc'[u] = "gone" <=> pc[u] = "gone"
  OBVIOUS
<1>2. CASE pc'[u] = pc[u] /\ gs'[u] = gs[u] /\ loc'[u] = loc[u]
  BY <1>1, <1>2, ConfinedFrame, StackOfFrame DEF AllConfined
<1>3. CASE pc[u] = "none" /\ pc'[u] = "new"
  <2>1. StackOf(u) = {} /\ StackOf(u)' = {}
    BY <1>3 DEF StackOf, Standing, Pcs
  <2>2. \A g \in Granules : mem[g] # u
    BY <1>1, <1>3 DEF AllConfined, Confined, Room, Standing, Pcs
  <2>3. \A g \in Granules : mem'[g] # u
    BY <1>1, <2>2
  <2>4. QED
    BY <1>3, <2>1, <2>3 DEF Confined
<1>4. QED
  BY <1>1, <1>2, <1>3

\* A step on a standing stack that leaves gs and the pages alone.
LEMMA StandingMaps ==
  ASSUME IInv, AllConfined, NEW t \in Threads,
         pc[t] \in Standing \ {"move"}, pc'[t] \in Standing \ {"move"},
         gs'[t] = gs[t], mem' = mem,
         \A u \in Threads \ {t} : \/ pc'[u] = pc[u] /\ gs'[u] = gs[u] /\ loc'[u] = loc[u]
                                  \/ pc[u] = "none" /\ pc'[u] = "new",
         lost \subseteq lost', lost' \subseteq lost \cup {t},
         \A i \in Slots : info'[i] = info[i] \/ (~info[i].valid /\ info'[i].tid = t)
  PROVE  AllConfined' /\ UNCHANGED Owners!vars
<1>1. \A u \in Threads \ {t} : /\ Confined(u)' /\ StackOf(u)' = StackOf(u)
                               /\ pc'[u] = "gone" <=> pc[u] = "gone"
  BY OthersMap
<1>2. Confined(t)' /\ StackOf(t)' = StackOf(t)
  BY DEF AllConfined, Confined, Room, StackOf, Standing, Pcs
<1>3. RetiredPages' = RetiredPages
  <2>1. pc[t] # "gone" /\ pc'[t] # "gone"
    BY DEF Standing
  <2>2. lost' \subseteq Threads /\ \A u \in Threads \ {t} : u \in lost' <=> u \in lost
    BY DEF IInv, TypeOK
  <2>3. QED
    BY <1>1, <2>1, <2>2, RetiredFrame
<1>4. QED
  BY <1>1, <1>2, <1>3, OwnersStutter DEF AllConfined

\* A thread that reads or writes through an unmapped pointer changes nothing else.
LEMMA CrashMaps ==
  ASSUME AllConfined, NEW why, Crash(why)
  PROVE  AllConfined' /\ UNCHANGED Owners!vars
<1>1. UNCHANGED <<mem, gs, loc, pc, info, lost>>
  BY DEF Crash, tables
<1>2. \A u \in Threads : Confined(u)' /\ StackOf(u)' = StackOf(u)
  BY <1>1, ConfinedFrame, StackOfFrame DEF AllConfined
<1>3. RetiredPages' = RetiredPages
  BY <1>1 DEF RetiredPages
<1>4. QED
  BY <1>2, <1>3, OwnersStutter DEF AllConfined

LEMMA CreateAndExitMap ==
  ASSUME IInv, AllConfined, NEW t \in Threads,
         CreateEnter(t) \/ CreateHook(t) \/ CreateClone(t) \/ ThreadReturn(t) \/ CleanupHandler(t)
           \/ EndRound(t)
  PROVE  AllConfined' /\ UNCHANGED Owners!vars
<1>1. mem' = mem /\ lost' = lost /\ info' = info /\ loc' = loc /\ gs' = gs
  BY DEF CreateEnter, CreateHook, CreateClone, ThreadReturn, CleanupHandler, EndRound, tables
<1>2. pc[t] \in Standing \ {"move"} /\ pc'[t] \in Standing \ {"move"}
  BY DEF CreateEnter, CreateHook, CreateClone, ThreadReturn, CleanupHandler, EndRound, Goto, NextOfCreate,
         Standing, Pcs, IInv, TypeOK
<1>3. \A u \in Threads \ {t} : pc'[u] = pc[u] \/ (pc[u] = "none" /\ pc'[u] = "new")
  BY DEF CreateEnter, CreateHook, CreateClone, ThreadReturn, CleanupHandler, EndRound, Goto, IInv, TypeOK
<1>4. QED
  BY <1>1, <1>2, <1>3, StandingMaps

LEMMA RerandStepsMap ==
  ASSUME IInv, AllConfined, NEW t \in Threads, RerandBegin(t) \/ RerandFinish(t)
  PROVE  AllConfined' /\ UNCHANGED Owners!vars
<1>1. CASE \E why : Crash(why)
  BY <1>1, CrashMaps
<1>2. CASE ~\E why : Crash(why)
  <2>1. mem' = mem /\ gs' = gs /\ info' = info /\ lost' = lost
    BY <1>2 DEF RerandBegin, RerandFinish, tables
  <2>2. pc[t] \in Standing \ {"move"} /\ pc'[t] \in Standing \ {"move"}
    BY <1>2 DEF RerandBegin, RerandFinish, InAppCode, Goto, CallerOf, Standing, Pcs, IInv, TypeOK
  <2>3. \A u \in Threads \ {t} : pc'[u] = pc[u] /\ loc'[u] = loc[u]
    BY <1>2 DEF RerandBegin, RerandFinish, Goto, IInv, TypeOK
  <2>4. QED
    BY <2>1, <2>2, <2>3, StandingMaps
<1>3. QED
  BY <1>1, <1>2

LEMMA ReleaseStepsMap ==
  ASSUME IInv, AllConfined, NEW t \in Threads,
         ReleaseGivesUp(t) \/ ReleaseLock(t) \/ AddFind(t) \/ AddStore(t)
  PROVE  AllConfined' /\ UNCHANGED Owners!vars
<1>1. CASE \E why : Crash(why)
  BY <1>1, CrashMaps
<1>2. CASE ~\E why : Crash(why)
  <2>1. mem' = mem /\ gs' = gs
    BY <1>2 DEF ReleaseGivesUp, ReleaseLock, AddFind, AddStore
  <2>2. pc[t] \in Standing \ {"move"} /\ pc'[t] \in Standing \ {"move"}
    BY <1>2 DEF ReleaseGivesUp, ReleaseLock, AddFind, AddStore, Goto, Standing, Pcs, IInv, TypeOK
  <2>3. \A u \in Threads \ {t} : pc'[u] = pc[u] /\ loc'[u] = loc[u]
    BY <1>2 DEF ReleaseGivesUp, ReleaseLock, AddFind, AddStore, Goto, IInv, TypeOK
  <2>4. lost \subseteq lost' /\ lost' \subseteq lost \cup {t}
    BY <1>2 DEF ReleaseGivesUp, ReleaseLock, AddFind, AddStore, tables
  <2>5. ASSUME NEW i \in Slots PROVE info'[i] = info[i] \/ (~info[i].valid /\ info'[i].tid = t)
    <3>1. CASE AddStore(t) /\ i = loc[t].slot
      <4>1. ~info[i].valid
        BY <3>1, Zeros DEF AddStore, IInv, LockInv
      <4>2. info'[i] = Entry(TRUE, loc[t].old, t, FALSE)
        BY <3>1, Zeros DEF AddStore, IInv, TypeOK
      <4>3. QED
        BY <4>1, <4>2 DEF Entry
    <3>2. CASE ~(AddStore(t) /\ i = loc[t].slot)
      BY <1>2, <3>2 DEF ReleaseGivesUp, ReleaseLock, AddFind, AddStore, tables, IInv, TypeOK
    <3>3. QED
      BY <3>1, <3>2
  <2>6. QED
    BY <2>1, <2>2, <2>3, <2>4, <2>5, StandingMaps
<1>3. QED
  BY <1>1, <1>2


\* do_init_shadow_stack maps a region: no stack yet.
LEMMA InitMapMaps ==
  ASSUME IInv, AllConfined, NEW t \in Threads, InitMap(t)
  PROVE  AllConfined' /\ UNCHANGED Owners!vars
<1>1. PICK n \in Bases : MapStack(t, n) /\ loc' = [loc EXCEPT ![t] = Locals(NoBase, NoBase, n, 0)]
  BY DEF InitMap
<1>2. /\ pc[t] = "new" /\ pc' = [pc EXCEPT ![t] = "init"] /\ UNCHANGED <<gs, info, lost>>
  BY DEF InitMap, Goto, tables
<1>3. \A g \in Granules : /\ mem'[g] = IF g \in Cells(n) THEN t ELSE mem[g]
                          /\ g \in Cells(n) => mem[g] = Free
  BY <1>1, LabelFacts DEF MapStack, Unused
<1>4. pc'[t] = "init" /\ \A u \in Threads \ {t} : pc'[u] = pc[u] /\ loc'[u] = loc[u]
  BY <1>1, <1>2 DEF IInv, TypeOK
<1>5. \A u \in Threads \ {t} : /\ Confined(u)' /\ StackOf(u)' = StackOf(u)
                               /\ pc'[u] = "gone" <=> pc[u] = "gone"
  BY <1>2, <1>3, <1>4, OthersMap
<1>6. Confined(t)'
  <2>1. loc'[t].new = n
    BY <1>1 DEF IInv, TypeOK, Locals
  <2>2. \A g \in Granules : mem[g] # t
    BY <1>2 DEF AllConfined, Confined, Room, Standing, Pcs
  <2>3. QED
    BY <1>3, <1>4, <2>1, <2>2 DEF Confined, Room
<1>7. StackOf(t)' = StackOf(t)
  BY <1>2, <1>4 DEF StackOf, Standing, Pcs
<1>8. RetiredPages' = RetiredPages
  BY <1>2, <1>3, <1>4, <1>5, RetiredFrame DEF IInv, TypeOK
<1>9. QED
  BY <1>5, <1>6, <1>7, <1>8, OwnersStutter DEF AllConfined

\* ... and gs then leads to it.
LEMMA InitPublishMaps ==
  ASSUME IInv, AllConfined, NEW t \in Threads, InitPublish(t)
  PROVE  AllConfined' /\ [Owners!Next]_Owners!vars
<1>1. CASE Crash("prctl")
  BY <1>1, CrashMaps
<1>2. CASE ~Crash("prctl")
  <2>1. /\ pc[t] = "init" /\ pc'[t] = "run" /\ gs'[t] = loc[t].new
        /\ UNCHANGED <<mem, info, lost>>
    BY <1>2 DEF InitPublish, Goto, tables, IInv, TypeOK
  <2>2. \A u \in Threads \ {t} : pc'[u] = pc[u] /\ loc'[u] = loc[u] /\ gs'[u] = gs[u]
    BY <1>2 DEF InitPublish, Goto, IInv, TypeOK
  <2>3. \A u \in Threads \ {t} : /\ Confined(u)' /\ StackOf(u)' = StackOf(u)
                                 /\ pc'[u] = "gone" <=> pc[u] = "gone"
    BY <2>1, <2>2, OthersMap
  <2>4. Confined(t)' /\ StackOf(t) = {} /\ StackOf(t)' = Cells(loc[t].new)
    BY <2>1 DEF AllConfined, Confined, Room, StackOf, Standing, Pcs
  <2>5. RetiredPages' = RetiredPages
    BY <2>1, <2>3, RetiredFrame DEF IInv, TypeOK
  <2>6. Cells(loc[t].new) \in Owners!Fresh
    BY <2>1, NewIsFresh
  <2>7. Owners!Next
    BY <2>3, <2>4, <2>5, <2>6, OwnersGive
  <2>8. QED
    BY <2>3, <2>4, <2>7 DEF AllConfined
<1>3. QED
  BY <1>1, <1>2

LEMMA RerandAllocMaps ==
  ASSUME IInv, AllConfined, NEW t \in Threads, RerandAlloc(t)
  PROVE  AllConfined' /\ UNCHANGED Owners!vars
<1>0. pc[t] = "alloc" /\ UNCHANGED <<gs, info, lost>>
  BY DEF RerandAlloc, tables
<1>1. CASE Goto(t, "finish") /\ UNCHANGED <<mem, loc>>
  <2>1. pc'[t] = "finish" /\ \A u \in Threads \ {t} : pc'[u] = pc[u]
    BY <1>1 DEF Goto, IInv, TypeOK
  <2>2. QED
    BY <1>0, <1>1, <2>1, StandingMaps DEF Standing, Pcs
<1>2. ASSUME NEW n \in Bases, MapStack(t, n), Goto(t, "move"),
             loc' = [loc EXCEPT ![t] = Locals(@.ptr, NoBase, n, 0)]
      PROVE  AllConfined' /\ UNCHANGED Owners!vars
  <2>1. \A g \in Granules : /\ mem'[g] = IF g \in Cells(n) THEN t ELSE mem[g]
                            /\ g \in Cells(n) => mem[g] = Free
    BY <1>2, LabelFacts DEF MapStack, Unused
  <2>2. pc'[t] = "move" /\ \A u \in Threads \ {t} : pc'[u] = pc[u] /\ loc'[u] = loc[u]
    BY <1>2 DEF Goto, IInv, TypeOK
  <2>3. \A u \in Threads \ {t} : /\ Confined(u)' /\ StackOf(u)' = StackOf(u)
                                 /\ pc'[u] = "gone" <=> pc[u] = "gone"
    BY <1>0, <2>1, <2>2, OthersMap
  <2>4. Confined(t)'
    <3>1. loc'[t].new = n
      BY <1>2 DEF IInv, TypeOK, Locals
    <3>2. \A g \in Granules : mem[g] = t => g \in Cells(gs[t])
      BY <1>0 DEF AllConfined, Confined, Room, Standing, Pcs
    <3>3. QED
      BY <1>0, <2>1, <2>2, <3>1, <3>2 DEF Confined, Room
  <2>5. StackOf(t)' = StackOf(t)
    BY <1>0, <2>2 DEF StackOf, Standing, Pcs
  <2>6. RetiredPages' = RetiredPages
    BY <1>0, <2>1, <2>2, <2>3, RetiredFrame DEF IInv, TypeOK
  <2>7. QED
    BY <2>3, <2>4, <2>5, <2>6, OwnersStutter DEF AllConfined
<1>3. QED
  BY <1>1, <1>2 DEF RerandAlloc

\* gs follows the stack, which has moved before.
LEMMA RerandSetGsMaps ==
  ASSUME IInv, AllConfined, NEW t \in Threads, RerandSetGs(t)
  PROVE  AllConfined' /\ UNCHANGED Owners!vars
<1>0. pc[t] = "setgs" /\ StackInv(t)
  BY DEF RerandSetGs, IInv
<1>1. pc[t] = "setgs" /\ ~CanTouch(t, loc[t].ptr) /\ meta[loc[t].new].diff = loc[t].new
  BY <1>0 DEF StackInv, Moving, CanTouch, Metadata
<1>2. CASE \E why : Crash(why)
  BY <1>2, CrashMaps
<1>3. CASE ~\E why : Crash(why)
  <2>1. pc'[t] = "finish" /\ gs'[t] = loc[t].new /\ UNCHANGED <<mem, info, lost>>
    BY <1>1, <1>3 DEF RerandSetGs, Goto, tables, IInv, TypeOK
  <2>2. \A u \in Threads \ {t} : pc'[u] = pc[u] /\ loc'[u] = loc[u] /\ gs'[u] = gs[u]
    BY <1>1, <1>3 DEF RerandSetGs, Goto, IInv, TypeOK
  <2>3. \A u \in Threads \ {t} : /\ Confined(u)' /\ StackOf(u)' = StackOf(u)
                                 /\ pc'[u] = "gone" <=> pc[u] = "gone"
    BY <2>1, <2>2, OthersMap
  <2>4. Confined(t)' /\ StackOf(t)' = StackOf(t)
    BY <1>1, <2>1 DEF AllConfined, Confined, Room, StackOf, Standing, Pcs
  <2>5. RetiredPages' = RetiredPages
    BY <1>1, <2>1, <2>3, RetiredFrame DEF IInv, TypeOK
  <2>6. QED
    BY <2>3, <2>4, <2>5, OwnersStutter DEF AllConfined
<1>4. QED
  BY <1>2, <1>3


\* mremap replaces the whole stack by the fresh region, or leaves it where it is.
LEMMA RerandMoveMaps ==
  ASSUME IInv, AllConfined, NEW t \in Threads, RerandMove(t)
  PROVE  AllConfined' /\ [Owners!Next]_Owners!vars
<1> DEFINE old == gs[t]
           new == loc[t].new
<1>0. /\ old \in Bases /\ new \in Bases /\ Owns(t, old) /\ Owns(t, new)
      /\ Cells(old) \cap Cells(new) = {} /\ pc[t] = "move" /\ CanTouch(t, loc[t].ptr)
  BY RerandMoveStart
<1>1. UNCHANGED <<gs, info, lost>>
  BY <1>0 DEF RerandMove, tables
<1> DEFINE Moves == /\ mem' = Label(Label(mem, old, Free), new, t)
                    /\ loc' = [loc EXCEPT ![t] = Locals(old, old, new, 0)]
                    /\ pc'  = [pc EXCEPT ![t] = "setgs"]
           Stays == /\ mem' = Label(mem, new, Free)
                    /\ loc' = loc
                    /\ pc'  = [pc EXCEPT ![t] = "finish"]
<1>2. /\ pc'[t] \in {"setgs", "finish"} /\ loc'[t].new = new
      /\ \A u \in Threads \ {t} : pc'[u] = pc[u] /\ loc'[u] = loc[u]
      /\ \A g \in Granules :
           mem'[g] = IF pc'[t] = "finish" THEN IF g \in Cells(new) THEN Free ELSE mem[g]
                     ELSE IF g \in Cells(new) THEN t ELSE IF g \in Cells(old) THEN Free ELSE mem[g]
  <2>1. Moves \/ Stays
    BY RerandMoveEffect
  <2>2. CASE Moves
    <3>1. pc'[t] = "setgs" /\ loc'[t] = Locals(old, old, new, 0)
      BY <2>2 DEF IInv, TypeOK
    <3>2. \A g \in Granules : mem'[g] = IF g \in Cells(new) THEN t
                                        ELSE IF g \in Cells(old) THEN Free ELSE mem[g]
      BY <2>2, LabelFacts
    <3>3. \A u \in Threads \ {t} : pc'[u] = pc[u] /\ loc'[u] = loc[u]
      BY <2>2 DEF IInv, TypeOK
    <3>4. QED
      BY <3>1, <3>2, <3>3 DEF Locals
  <2>3. CASE Stays
    <3>1. pc'[t] = "finish"
      BY <2>3 DEF IInv, TypeOK
    <3>2. \A g \in Granules : mem'[g] = IF g \in Cells(new) THEN Free ELSE mem[g]
      BY <2>3, LabelFacts
    <3>3. \A u \in Threads \ {t} : pc'[u] = pc[u] /\ loc'[u] = loc[u]
      BY <2>3 DEF IInv, TypeOK
    <3>4. QED
      BY <2>3, <3>1, <3>2, <3>3
  <2>4. QED
    BY <2>1, <2>2, <2>3
<1>3. \A g \in Cells(old) \cup Cells(new) : g \in Granules /\ mem[g] = t
  BY <1>0, CellsInGranules DEF Owns
<1>4. \A g \in Granules : mem'[g] = mem[g] \/ (mem[g] \in {Free, t} /\ mem'[g] \in {Free, t})
  BY <1>2, <1>3
<1>5. \A u \in Threads \ {t} : /\ Confined(u)' /\ StackOf(u)' = StackOf(u)
                               /\ pc'[u] = "gone" <=> pc[u] = "gone"
  BY <1>1, <1>2, <1>4, OthersMap, MainAssumption
<1>6. RetiredPages' = RetiredPages
  BY <1>0, <1>1, <1>2, <1>4, <1>5, RetiredFrame DEF IInv, TypeOK
<1>7. \A g \in Granules : mem[g] = t => g \in Cells(old) \cup Cells(new)
  BY <1>0 DEF AllConfined, Confined, Room
<1>8. StackOf(t) = Cells(old) /\ Cells(old) # {}
  BY <1>0, StackOfStanding, CellsInGranules DEF Standing, Pcs
<1>9. CASE pc'[t] = "setgs"
  <2>1. Confined(t)'
    BY <1>2, <1>7, <1>9, MainAssumption DEF Confined, Room
  <2>2. StackOf(t)' = Cells(new)
    BY <1>2, <1>9 DEF StackOf
  <2>3. Cells(new) \in Owners!Fresh
    BY <1>0, NewIsFresh
  <2>4. Owners!Next
    BY <1>5, <1>6, <1>8, <2>2, <2>3, OwnersMove
  <2>5. QED
    BY <1>5, <2>1, <2>4 DEF AllConfined
<1>10. CASE pc'[t] = "finish"
  <2>1. Confined(t)'
    BY <1>1, <1>2, <1>7, <1>10, MainAssumption DEF Confined, Room, Standing, Pcs
  <2>2. StackOf(t)' = StackOf(t)
    BY <1>1, <1>8, <1>10 DEF StackOf, Standing, Pcs
  <2>3. QED
    BY <1>5, <1>6, <2>1, <2>2, OwnersStutter DEF AllConfined
<1>11. QED
  BY <1>2, <1>9, <1>10

\* What the table records for a thread that still runs is the stack of its gs.
LEMMA EntryIsStack ==
  ASSUME IInv, AllConfined, NEW t \in Threads, pc[t] \in Standing \ {"move"},
         NEW b \in Bases, Owns(t, b)
  PROVE  b = gs[t]
<1>1. \A g \in Cells(b) : g \in Cells(gs[t])
  BY CellsInGranules DEF AllConfined, Confined, Room, Owns, Standing, Pcs
<1>2. gs[t] \in Bases
  BY DEF IInv, StackInv, Owns
<1>3. QED
  BY <1>1, <1>2 DEF Cells, Bases

\* The end of a thread retires its stack, the whole of it and nothing else.
LEMMA ThreadEndMaps ==
  ASSUME IInv, NoLeak, AllConfined, NEW t \in Threads, ThreadEnd(t)
  PROVE  AllConfined' /\ Owners!Next
<1> DEFINE old == gs[t]
<1>0. /\ pc[t] = "end" /\ pc'[t] = "gone" /\ UNCHANGED <<mem, loc, info, lost>>
      /\ \A u \in Threads \ {t} : pc'[u] = pc[u] /\ gs'[u] = gs[u]
  BY DEF ThreadEnd, Goto, tables, IInv, TypeOK
<1>1. \A u \in Threads \ {t} : /\ Confined(u)' /\ StackOf(u)' = StackOf(u)
                               /\ pc'[u] = "gone" <=> pc[u] = "gone"
  BY <1>0, OthersMap
<1>2. Confined(t)'
  BY <1>0 DEF Confined, Room, Standing, Pcs
<1>3. /\ old \in Bases /\ Owns(t, old) /\ StackOf(t) = Cells(old) /\ StackOf(t)' = {}
      /\ Cells(old) # {}
  BY <1>0, StackOfStanding, CellsInGranules DEF IInv, StackInv, StackOf, Standing, Pcs, Owns
<1>4. \A g \in Granules : mem[g] = t <=> g \in Cells(old)
  BY <1>0, <1>3, CellsInGranules DEF AllConfined, Confined, Room, Owns, Standing, Pcs
<1>5. \A i \in Slots : info[i].valid => Owns(info[i].tid, info[i].ss) /\ info[i].ss \in Bases
  BY DEF IInv, EntryInv, Owns
<1>6. \A i \in Slots : info[i].valid /\ info[i].tid = t => info[i].ss = old
  BY <1>0, <1>5, EntryIsStack DEF Standing, Pcs
<1>7. t \in lost \/ \E i \in Slots : info[i].valid /\ info[i].tid = t
  <2>1. CASE t \notin lost
    <3>1. old \in Granules /\ mem[old] = t
      BY <1>3, CellsInGranules DEF Owns
    <3>2. \E b \in Bases : Holds(t, b)
      BY <2>1, <3>1, OwnedIsHeld
    <3>3. Released(t)
      BY <1>0, TsdAssumption DEF IInv, TsdInv, Released
    <3>4. QED
      BY <1>0, <3>2, <3>3 DEF Holds
  <2>2. QED
    BY <2>1
<1>8. RetiredPages' = RetiredPages \cup Cells(old)
  <2>1. ASSUME NEW g
        PROVE  g \in RetiredPages' <=>
                 \/ \E i \in Slots : info[i].valid /\ pc'[info[i].tid] = "gone" /\ g \in Cells(info[i].ss)
                 \/ g \in Granules /\ mem[g] \in lost /\ pc'[mem[g]] = "gone"
    BY <1>0 DEF RetiredPages
  <2>2. \A i \in Slots : info[i].tid \in Threads
    BY FieldTypes DEF IInv, TypeOK
  <2>3. ASSUME NEW g \in RetiredPages' PROVE g \in RetiredPages \/ g \in Cells(old)
    <3>1. CASE \E i \in Slots : info[i].valid /\ pc'[info[i].tid] = "gone" /\ g \in Cells(info[i].ss)
      <4>1. PICK i \in Slots : info[i].valid /\ pc'[info[i].tid] = "gone" /\ g \in Cells(info[i].ss)
        BY <3>1
      <4>2. CASE info[i].tid = t
        BY <1>6, <4>1, <4>2
      <4>3. CASE info[i].tid # t
        BY <1>0, <2>2, <4>1, <4>3, RetiredPagesDef
      <4>4. QED
        BY <4>2, <4>3
    <3>2. CASE g \in Granules /\ mem[g] \in lost /\ pc'[mem[g]] = "gone"
      <4>1. mem[g] \in Threads
        BY <3>2 DEF IInv, TypeOK
      <4>2. QED
        BY <1>0, <1>4, <3>2, <4>1, RetiredPagesDef
    <3>3. QED
      BY <2>1, <2>3, <3>1, <3>2
  <2>4. ASSUME NEW g \in RetiredPages PROVE g \in RetiredPages'
    <3>1. \A u \in Threads : pc[u] = "gone" => pc'[u] = "gone"
      BY <1>0
    <3>2. lost \subseteq Threads
      BY DEF IInv, TypeOK
    <3>3. QED
      BY <2>1, <2>2, <2>4, <3>1, <3>2, RetiredPagesDef
  <2>5. ASSUME NEW g \in Cells(old) PROVE g \in RetiredPages'
    <3>1. g \in Granules /\ mem[g] = t
      BY <1>3, CellsInGranules DEF Owns
    <3>2. QED
      BY <1>0, <1>6, <1>7, <2>1, <2>5, <3>1
  <2>6. QED
    BY <2>3, <2>4, <2>5
<1>9. Owners!Next
  BY <1>1, <1>3, <1>8, OwnersRetire
<1>10. QED
  BY <1>1, <1>2, <1>9 DEF AllConfined

\* Time passes, and the cleaner takes the mutex and gives it back.
LEMMA TimeMaps ==
  ASSUME IInv, AllConfined, CleanerLock \/ CleanerUnlock \/ (\E i \in Slots : Expire(i)) \/ UNCHANGED vars
  PROVE  AllConfined' /\ UNCHANGED Owners!vars
<1>1. UNCHANGED <<mem, gs, loc, pc, lost>>
  BY DEF CleanerLock, CleanerUnlock, Expire, vars, tables
<1>2. \A i \in Slots : /\ info'[i].valid = info[i].valid /\ info'[i].ss = info[i].ss
                       /\ info'[i].tid = info[i].tid
  <2>1. ASSUME NEW j \in Slots, Expire(j)
        PROVE  \A i \in Slots : /\ info'[i].valid = info[i].valid /\ info'[i].ss = info[i].ss
                                /\ info'[i].tid = info[i].tid
    <3>1. info' = [info EXCEPT ![j] = Entry(TRUE, info[j].ss, info[j].tid, TRUE)] /\ info[j].valid = TRUE
      BY <2>1, FieldTypes DEF Expire, IInv, TypeOK
    <3>2. QED
      BY <3>1 DEF Entry, IInv, TypeOK
  <2>2. CASE info' = info
    BY <2>2
  <2>3. QED
    BY <2>1, <2>2 DEF CleanerLock, CleanerUnlock, vars, tables
<1>3. RetiredPages' = RetiredPages
  <2>1. ASSUME NEW g PROVE g \in RetiredPages' <=> g \in RetiredPages
    BY <1>1, <1>2 DEF RetiredPages
  <2>2. QED
    BY <2>1
<1>4. \A u \in Threads : Confined(u)' /\ StackOf(u)' = StackOf(u)
  BY <1>1, ConfinedFrame, StackOfFrame DEF AllConfined
<1>5. QED
  BY <1>3, <1>4, OwnersStutter DEF AllConfined

\* The munmap of the cleaner gives back the pages of one entry, all of them retired.
LEMMA CleanerStepMaps ==
  ASSUME IInv, AllConfined, CleanerStep
  PROVE  AllConfined' /\ [Owners!Next]_Owners!vars
<1> DEFINE e == info[scan]
           S == Cells(e.ss)
<1>0. scan \in Slots /\ UNCHANGED <<gs, loc, pc, lost>>
  BY DEF CleanerStep
<1>1. CASE ~Due(e)
  <2>1. mem' = mem /\ info' = info
    BY <1>1 DEF CleanerStep
  <2>2. \A u \in Threads : Confined(u)' /\ StackOf(u)' = StackOf(u)
    BY <1>0, <2>1, ConfinedFrame, StackOfFrame DEF AllConfined
  <2>3. RetiredPages' = RetiredPages
    BY <1>0, <2>1 DEF RetiredPages
  <2>4. QED
    BY <2>2, <2>3, OwnersStutter DEF AllConfined
<1>2. CASE Due(e)
  <2>1. /\ e.valid /\ e.tid \in Threads /\ Owns(e.tid, e.ss) /\ pc[e.tid] = "gone"
        /\ \A j \in Slots : info[j].valid /\ info[j].tid = e.tid => j = scan
    BY <1>0, <1>2, FieldTypes DEF Due, IInv, TypeOK, EntryInv
  <2>2. mem' = Label(mem, e.ss, Free) /\ info' = [info EXCEPT ![scan] = NoEntry]
    BY <1>2 DEF CleanerStep, Cleared
  <2>3. \A g \in Granules : mem'[g] = IF g \in S THEN Free ELSE mem[g]
    BY <2>2, LabelFacts
  <2>4. ~info'[scan].valid /\ \A i \in Slots : i # scan => info'[i] = info[i]
    BY <1>0, <2>2, ConstantRecords DEF IInv, TypeOK
  <2>5. \A u \in Threads : Confined(u)' /\ StackOf(u)' = StackOf(u)
    BY <1>0, <2>3, ConfinedFrame, StackOfFrame, MainAssumption DEF AllConfined
  <2>6. S # {} /\ S \subseteq RetiredPages
    BY <1>0, <2>1, CellsInGranules, RetiredPagesDef DEF Owns
  <2>7. ASSUME NEW g
        PROVE  g \in RetiredPages' <=>
                 \/ \E i \in Slots : info'[i].valid /\ pc[info'[i].tid] = "gone" /\ g \in Cells(info'[i].ss)
                 \/ g \in Granules /\ mem'[g] \in lost /\ pc[mem'[g]] = "gone"
    BY <1>0 DEF RetiredPages
  <2>8. ASSUME NEW g \in RetiredPages' PROVE g \in RetiredPages \ S
    <3>1. CASE \E i \in Slots : info'[i].valid /\ pc[info'[i].tid] = "gone" /\ g \in Cells(info'[i].ss)
      <4>1. PICK i \in Slots : info'[i].valid /\ pc[info'[i].tid] = "gone" /\ g \in Cells(info'[i].ss)
        BY <3>1
      <4>2. i # scan /\ info'[i] = info[i]
        BY <2>4, <4>1
      <4>3. Owns(info[i].tid, info[i].ss) /\ info[i].tid # e.tid
        BY <2>1, <4>1, <4>2 DEF IInv, EntryInv
      <4>4. g \notin S
        BY <2>1, <4>1, <4>2, <4>3, OwnersDiffer
      <4>5. QED
        BY <4>1, <4>2, <4>4, RetiredPagesDef
    <3>2. CASE g \in Granules /\ mem'[g] \in lost /\ pc[mem'[g]] = "gone"
      <4>1. mem'[g] # Free
        BY <3>2, MainAssumption DEF IInv, TypeOK
      <4>2. QED
        BY <2>3, <3>2, <4>1, RetiredPagesDef
    <3>3. QED
      BY <2>7, <2>8, <3>1, <3>2
  <2>9. ASSUME NEW g \in RetiredPages, g \notin S PROVE g \in RetiredPages'
    BY <2>3, <2>4, <2>7, <2>9, RetiredPagesDef
  <2>10. RetiredPages' = RetiredPages \ S
    BY <2>8, <2>9
  <2>11. Owners!Next
    BY <2>5, <2>6, <2>10, OwnersReclaim
  <2>12. QED
    BY <2>5, <2>11 DEF AllConfined
<1>3. QED
  BY <1>1, <1>2

LEMMA NextMaps ==
  ASSUME IInv, NoLeak, AllConfined, [Next]_vars
  PROVE  AllConfined' /\ [Owners!Next]_Owners!vars
<1>1. CASE \E t \in Threads : ThreadStep(t)
  BY <1>1, InitMapMaps, InitPublishMaps, CreateAndExitMap, RerandStepsMap, RerandAllocMaps, RerandMoveMaps,
     RerandSetGsMaps, ThreadEndMaps, ReleaseStepsMap DEF ThreadStep
<1>2. CASE (\E i \in Slots : Expire(i)) \/ CleanerAction \/ UNCHANGED vars
  BY <1>2, TimeMaps, CleanerStepMaps DEF CleanerAction
<1>3. QED
  BY <1>1, <1>2 DEF Next

\* The run-time library gives out, moves, retires and unmaps shadow stacks only as
\* ShadowOwners allows: a page never serves two threads, and what is unmapped is
\* what a thread that has ended has left (gs.rsp.c 209-239, 361-388, 515-645).
THEOREM OwnersKept == Spec => ImplementsOwners
<1>1. Init => AllConfined /\ Owners!Init
  <2>1. ASSUME Init PROVE AllConfined
    BY <2>1, MainAssumption DEF Init, AllConfined, Confined
  <2>2. ASSUME Init PROVE \A t \in Threads : StackOf(t) = {}
    BY <2>2, StackOfNone DEF Init
  <2>3. ASSUME Init PROVE RetiredPages = {}
    <3>1. ASSUME NEW g PROVE g \notin RetiredPages
      BY <2>3, ConstantRecords, RetiredPagesDef DEF Init
    <3>2. QED
      BY <3>1
  <2>4. QED
    BY <2>1, <2>2, <2>3 DEF Owners!Init
<1>2. IInv /\ NoLeak /\ AllConfined /\ [Next]_vars => AllConfined' /\ [Owners!Next]_Owners!vars
  BY NextMaps
<1>3. QED
  BY <1>1, <1>2, Inductive, NothingLeaks, PTL DEF Spec, ImplementsOwners, Owners!Spec


\* No page is in the shadow stacks of two threads, or in a stack and in what waits to
\* be unmapped (gs.rsp.c 209-239 and 581-597).
THEOREM PagesApart == Spec => []Owners!Disjoint
<1>1. ASSUME IInv PROVE Owners!Disjoint
  <2>1. \A t \in Threads : \A g \in StackOf(t) : mem[g] = t
    BY <1>1, StackOfOwned
  <2>2. \A t \in Threads : \A g \in StackOf(t) : pc[t] # "gone"
    BY StackOfNone
  <2>3. \A g \in RetiredPages : pc[mem[g]] = "gone"
    BY <1>1, RetiredOwned
  <2>4. QED
    BY <2>1, <2>2, <2>3 DEF Owners!Disjoint
<1>2. QED
  BY <1>1, Inductive, PTL
=============================================================================
