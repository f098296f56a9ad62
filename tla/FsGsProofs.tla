---------------------------- MODULE FsGsProofs ----------------------------
(***************************************************************************)
(* Theorems about FsGsRuntime, for any number of threads, regions, table   *)
(* entries, destructor rounds and handlers, and any period of the moves.   *)
(* Handlers run in the guarded places: elsewhere the code does not keep    *)
(* what the theorems say (README).                                         *)
(*                                                                         *)
(* IInv is inductive.  A step of one thread leaves the pages, the          *)
(* variables and the entries of the others alone (Local), and so what is   *)
(* said of them (Undisturbed); what is left of each action is its thread.  *)
(* The refinement of ShadowOwners takes the same lemmas.                   *)
(***************************************************************************)
EXTENDS MCFsGsRuntime, TLAPS

-----------------------------------------------------------------------------
(* The inductive invariant.                                                  *)

\* The program counters at which a handler finds the library refusing its call, or
\* its thread with metadata that are whole and a pointer that nobody else uses, or that
\* is used only to close the page.
GuardedPlaces == {"run", "exit", "info", "period", "mapmeta", "maparea", "copy", "remap",
                  "unmap", "clear", "protect"}

FrameType == [pc : Pcs, ptr : Regions, new : MaybeRegion, area : MaybeRegion]
EntryType == [valid : BOOLEAN, meta : MaybeRegion, area : MaybeRegion,
              tid : Threads \cup {None}, ripe : BOOLEAN]
LocType == [meta : MaybeRegion, area : MaybeRegion, slot : {0}]

\* The calls below the innermost one have cleared is_randomizing, and a handler keeps
\* them from the mprotect that follows.
CallsWait(t) ==
    /\ call[t] \in Seq(FrameType)
    /\ \A i \in 1 .. Len(call[t]) - 1 : call[t][i].pc = "protect"
    /\ Len(call[t]) > 1 => "protect" \in SignalPlaces

Types ==
    /\ own \in [Regions -> Threads \cup {None}] /\ ro \subseteq Regions
    /\ meta \in [Regions -> MetaType]
    /\ gs \in [Threads -> MaybeRegion]
    /\ base \in [Threads -> Bases]
    /\ loc \in [Threads -> LocType]
    /\ info \in [Slots -> EntryType]
    /\ lost \subseteq Threads
    /\ DOMAIN call = Threads
    /\ \A t \in Threads : CallsWait(t)

Counters ==
    /\ round \in [Threads -> 0 .. Iterations]
    /\ lock \in Threads \cup {None, "cleaner"} /\ scan \in 0 .. Capacity + 1
    /\ signals \in 0 .. MaxSignals
    /\ {hook, fault} \subseteq BOOLEAN

Inside(t) == call[t] # <<>>
Guarded == {"period", "mapmeta", "maparea", "copy", "remap", "setgs", "unmap", "clear"}
Mapping == {"maparea", "copy", "remap", "setgs"}
Owns(t, r) == r \in Regions /\ own[r] = t /\ r \notin ro

\* Below the handlers: the locals lead to mappings of the thread.
BaseOK(t) ==
    /\ base[t] = "area" => Owns(t, loc[t].meta)
    /\ base[t] = "publish" => /\ Owns(t, loc[t].meta) /\ Owns(t, loc[t].area)
                              /\ loc[t].meta # loc[t].area
    /\ base[t] = "info" => loc[t].meta = gs[t] /\ gs[t] \notin ro
    /\ base[t] = "store" => loc[t].meta = gs[t] /\ loc[t].area = meta[gs[t]].area
    /\ base[t] \in {"release", "store", "end"} => round[t] = Iterations
    /\ Inside(t) => base[t] \in {"run", "exit"}

\* gs leads to metadata that tell what the thread is doing.
MetaOK(t) ==
    Standing(t) =>
        /\ gs[t] \in Regions /\ own[gs[t]] = t /\ meta[gs[t]].self = gs[t]
        /\ meta[gs[t]].ready <=> base[t] # "info"
        /\ meta[gs[t]].busy <=> (Inside(t) /\ Top(t).pc \in Guarded)

\* ... and they to a stack, but between mremap and ARCH_SET_GS.
StackOK(t) ==
    Standing(t) /\ ~At(t, "setgs") =>
        /\ Owns(t, meta[gs[t]].area) /\ meta[gs[t]].diff = meta[gs[t]].area
        /\ meta[gs[t]].area # gs[t]

\* A call in flight: what it holds is its thread's, and the new metadata are those of
\* the new stack before gs leads to them.
PtrOK(t) ==
    LET f == Top(t) IN
    /\ f.pc \notin {"unmap", "protect"} => f.ptr = gs[t]
    /\ f.pc = "protect" => f.ptr = gs[t] \/ "protect" \in SignalPlaces
    /\ f.pc \notin {"unprotect", "protect"} => gs[t] \notin ro
    /\ f.pc = "unmap" => /\ f.new = gs[t] /\ f.ptr \in Regions /\ own[f.ptr] = t
                         /\ f.ptr \notin {gs[t], meta[gs[t]].area}
NewOK(t) ==
    LET f == Top(t) IN
    /\ f.pc \in Mapping => Owns(t, f.new) /\ f.new # gs[t]
    /\ f.pc \in Mapping \ {"setgs"} => f.new # meta[gs[t]].area
    /\ f.pc \in {"copy", "remap", "setgs"} => Owns(t, f.area) /\ f.area \notin {gs[t], f.new}
    /\ f.pc \in {"copy", "remap"} => f.area # meta[gs[t]].area
CopyOK(t) ==
    LET f == Top(t) IN
    f.pc \in {"remap", "setgs"} =>
        /\ meta[f.new].self = f.new /\ meta[f.new].diff = f.area
        /\ meta[f.new].busy /\ meta[f.new].ready
        /\ f.pc = "setgs" => meta[f.new].area = f.area
FrameOK(t) == Inside(t) => PtrOK(t) /\ NewOK(t) /\ CopyOK(t)

\* The mappings a thread answers for; nothing else is mapped for it.
Started(t) ==
    CASE base[t] = "area" -> {loc[t].meta}
      [] base[t] = "publish" -> {loc[t].meta, loc[t].area}
      [] OTHER -> {}
Moving(t) ==
    IF ~Inside(t) THEN {}
    ELSE CASE Top(t).pc = "maparea" -> {Top(t).new}
           [] Top(t).pc \in {"copy", "remap", "setgs"} -> {Top(t).new, Top(t).area}
           [] Top(t).pc = "unmap" -> {Top(t).ptr}
           [] OTHER -> {}
Current(t) ==
    IF ~Standing(t) THEN {}
    ELSE IF At(t, "setgs") THEN {gs[t]} ELSE {gs[t], meta[gs[t]].area}
Recorded(t) ==
    IF base[t] = "gone"
    THEN UNION {{info[i].meta, info[i].area} : i \in {j \in Slots : info[j].valid /\ info[j].tid = t}}
    ELSE {}
Mine(t) == Started(t) \cup Moving(t) \cup Current(t) \cup Recorded(t)
Accounted(t) ==
    ~(base[t] = "gone" /\ t \in lost) => \A r \in Regions : own[r] = t => r \in Mine(t)

ThreadOK(t) == BaseOK(t) /\ MetaOK(t) /\ StackOK(t) /\ FrameOK(t) /\ Accounted(t)

\* An entry describes the stack of a thread that is past its destructors.
EntryOK(i) ==
    LET e == info[i] IN
    IF ~e.valid THEN e = NoEntry
    ELSE /\ e.tid \in Threads /\ {e.meta, e.area} \subseteq Regions
         /\ own[e.meta] = e.tid /\ own[e.area] = e.tid
         /\ base[e.tid] \in {"end", "gone"}
         /\ base[e.tid] = "end" => e.meta = gs[e.tid] /\ e.area = meta[gs[e.tid]].area
         /\ e.ripe => base[e.tid] = "gone"
OneEntry == \A i, j \in Slots : info[i].valid /\ info[j].valid /\ i # j => info[i].tid # info[j].tid
EndRecorded(t) ==
    base[t] = "end" /\ t \notin lost => \E i \in Slots : info[i].valid /\ info[i].tid = t
LostOK(t) ==
    t \in lost => /\ base[t] \in {"end", "gone"}
                  /\ \A i \in Slots : info[i].valid => info[i].tid # t
Table == /\ \A i \in Slots : EntryOK(i)
         /\ OneEntry
         /\ \A t \in Threads : EndRecorded(t) /\ LostOK(t)

IInv ==
    /\ Types /\ Counters /\ ClosedInUse
    /\ \A t \in Threads : ThreadOK(t)
    /\ Table

-----------------------------------------------------------------------------
(* The operators of the model.                                               *)

LEMMA RecordFacts ==
  /\ \A s, d, a, b, y, r : /\ Metadata(s, d, a, b, y, r).self = s
                           /\ Metadata(s, d, a, b, y, r).diff = d
                           /\ Metadata(s, d, a, b, y, r).area = a
                           /\ Metadata(s, d, a, b, y, r).busy = b
                           /\ Metadata(s, d, a, b, y, r).ready = y
  /\ \A p, q, n, a : /\ Frame(p, q, n, a).pc = p /\ Frame(p, q, n, a).ptr = q
                     /\ Frame(p, q, n, a).new = n /\ Frame(p, q, n, a).area = a
  /\ NoLocals.meta = None /\ NoLocals.area = None /\ ~NoEntry.valid
BY DEF Metadata, Frame, NoLocals, NoEntry

LEMMA RecordTypes ==
  /\ \A p \in Pcs : \A q \in Regions : \A n, a \in MaybeRegion : Frame(p, q, n, a) \in FrameType
  /\ \A a, b \in MaybeRegion : [meta |-> a, area |-> b, slot |-> 0] \in LocType
  /\ NoLocals \in LocType /\ NoEntry \in EntryType
BY DEF Frame, FrameType, LocType, NoLocals, NoEntry, EntryType, MaybeRegion

LEMMA MetaTypes ==
  /\ \A p, a \in MaybeRegion : Metadata(p, a, a, FALSE, FALSE, Ratio) \in MetaType
  /\ ZeroMeta \in MetaType
BY FsGsConstants DEF FsGsAssumption, Metadata, ZeroMeta, MetaType, MaybeRegion

\* What the code writes into metadata leaves them metadata, and what it does not name
\* as it was.
LEMMA MetaEdits ==
  ASSUME NEW m \in MetaType
  PROVE  /\ \A b \in BOOLEAN : /\ [m EXCEPT !.busy = b] \in MetaType
                               /\ [m EXCEPT !.ready = b] \in MetaType
         /\ TooEarly(m) \in MetaType
         /\ [m EXCEPT !.ratio = Ratio] \in MetaType
         /\ m.ratio > 1 => [m EXCEPT !.ratio = @ - 1] \in MetaType
         /\ \A n, a \in MaybeRegion : /\ Copied(m, n, a) \in MetaType
                                      /\ AreaAfter(m, a) \in MetaType
<1>1. \A b \in BOOLEAN : /\ [m EXCEPT !.busy = b] \in MetaType
                         /\ [m EXCEPT !.ready = b] \in MetaType
  BY DEF MetaType
<1>2. TooEarly(m) \in MetaType
  BY DEF MetaType, TooEarly
<1>3. Ratio \in 0 .. Ratio /\ (m.ratio > 1 => m.ratio - 1 \in 0 .. Ratio)
  BY FsGsConstants DEF FsGsAssumption, MetaType
<1>4. [m EXCEPT !.ratio = Ratio] \in MetaType
  BY <1>3 DEF MetaType
<1>5. m.ratio > 1 => [m EXCEPT !.ratio = @ - 1] \in MetaType
  BY <1>3 DEF MetaType
<1>6. \A n, a \in MaybeRegion : Copied(m, n, a) \in MetaType
  BY DEF Copied, MetaType, MaybeRegion
<1>7. \A a \in MaybeRegion : AreaAfter(m, a) \in MetaType
  BY DEF AreaAfter, MetaType
<1> QED
  BY <1>1, <1>2, <1>4, <1>5, <1>6, <1>7

\* A step of a call writes the innermost frame.
LEMMA InsideFacts ==
  ASSUME NEW t \in Threads, Types, Inside(t)
  PROVE  Top(t) \in FrameType /\ Len(call[t]) \in Nat \ {0} /\ call[t] \in Seq(FrameType)
<1>1. call[t] \in Seq(FrameType) /\ call[t] # <<>>
  BY DEF Types, CallsWait, Inside
<1>2. Len(call[t]) \in Nat \ {0}
  BY <1>1
<1> QED
  BY <1>1, <1>2 DEF Top

\* The beginning of a sequence.
LEMMA Beginning ==
  ASSUME NEW S, NEW c \in Seq(S), NEW n \in 0 .. Len(c)
  PROVE  /\ SubSeq(c, 1, n) \in Seq(S) /\ Len(SubSeq(c, 1, n)) = n
         /\ \A i \in 1 .. n : SubSeq(c, 1, n)[i] = c[i]
OBVIOUS

LEMMA ReplaceLast ==
  ASSUME NEW c \in Seq(FrameType), c # <<>>, NEW g \in FrameType
  PROVE  LET d == SubSeq(c, 1, Len(c) - 1) \o <<g>> IN
         /\ d \in Seq(FrameType) /\ Len(d) = Len(c) /\ d[Len(c)] = g /\ d # <<>>
         /\ \A i \in 1 .. Len(c) - 1 : d[i] = c[i]
<1> DEFINE b == SubSeq(c, 1, Len(c) - 1)
<1>1. c \in Seq(FrameType) /\ Len(c) \in Nat \ {0}
  OBVIOUS
<1>2. /\ b \in Seq(FrameType) /\ Len(b) = Len(c) - 1
      /\ \A i \in 1 .. Len(c) - 1 : b[i] = c[i]
  <2> DEFINE n == Len(c) - 1
  <2>1. n \in 0 .. Len(c)
    BY <1>1
  <2> HIDE DEF n
  <2>2. /\ SubSeq(c, 1, n) \in Seq(FrameType) /\ Len(SubSeq(c, 1, n)) = n
        /\ \A i \in 1 .. n : SubSeq(c, 1, n)[i] = c[i]
    BY <2>1, Beginning, Zenon
  <2> QED
    BY <2>2, Zenon DEF n
<1> HIDE DEF b
<1>3. <<g>> \in Seq(FrameType) /\ Len(<<g>>) = 1 /\ <<g>>[1] = g
  OBVIOUS
<1>4. /\ b \o <<g>> \in Seq(FrameType) /\ Len(b \o <<g>>) = Len(c)
      /\ (b \o <<g>>)[Len(c)] = g
      /\ \A i \in 1 .. Len(c) - 1 : (b \o <<g>>)[i] = c[i]
  BY <1>1, <1>2, <1>3
<1> QED
  BY <1>1, <1>4 DEF b

LEMMA StepFacts ==
  ASSUME NEW t \in Threads, Types, Inside(t), NEW f \in FrameType, Step(t, f)
  PROVE  /\ Inside(t)' /\ Top(t)' = f /\ CallsWait(t)'
         /\ DOMAIN call' = Threads
         /\ \A u \in Threads \ {t} : call'[u] = call[u]
<1> DEFINE d == SubSeq(call[t], 1, Len(call[t]) - 1) \o <<f>>
<1>1. call' = [call EXCEPT ![t] = d]
  BY DEF Step
<1>2. call[t] \in Seq(FrameType) /\ call[t] # <<>> /\ CallsWait(t)
  BY DEF Types, CallsWait, Inside
<1>3. /\ d \in Seq(FrameType) /\ Len(d) = Len(call[t]) /\ d[Len(call[t])] = f /\ d # <<>>
      /\ \A i \in 1 .. Len(call[t]) - 1 : d[i] = call[t][i]
  BY <1>2, ReplaceLast
<1>4. call'[t] = d
  BY <1>1 DEF Types
<1> HIDE DEF d
<1>5. Inside(t)' /\ Top(t)' = f
  BY <1>3, <1>4 DEF Inside, Top
<1>6. CallsWait(t)'
  BY <1>2, <1>3, <1>4 DEF CallsWait
<1> QED
  BY <1>1, <1>5, <1>6 DEF Types

\* What a call returns to is another that waits in front of the mprotect.
LEMMA PopFacts ==
  ASSUME NEW t \in Threads, Types, Inside(t), Pop(t)
  PROVE  /\ Inside(t)' => Top(t)'.pc = "protect" /\ "protect" \in SignalPlaces
         /\ CallsWait(t)'
         /\ DOMAIN call' = Threads
         /\ \A u \in Threads \ {t} : call'[u] = call[u]
<1> DEFINE d == SubSeq(call[t], 1, Len(call[t]) - 1)
<1>1. call' = [call EXCEPT ![t] = d]
  BY DEF Pop
<1>2. call[t] \in Seq(FrameType) /\ call[t] # <<>> /\ CallsWait(t) /\ Len(call[t]) \in Nat \ {0}
  BY InsideFacts DEF Types, CallsWait, Inside
<1>3. /\ d \in Seq(FrameType) /\ Len(d) = Len(call[t]) - 1
      /\ \A i \in 1 .. Len(call[t]) - 1 : d[i] = call[t][i]
  BY <1>2
<1>4. call'[t] = d
  BY <1>1 DEF Types
<1> HIDE DEF d
<1>5. CallsWait(t)'
  BY <1>2, <1>3, <1>4 DEF CallsWait
<1>6. ASSUME Inside(t)'  PROVE Top(t)'.pc = "protect" /\ "protect" \in SignalPlaces
  <2>1. Len(d) \in 1 .. Len(call[t]) - 1 /\ Len(call[t]) > 1
    BY <1>2, <1>3, <1>4, <1>6 DEF Inside
  <2>2. Top(t)' = call[t][Len(d)]
    BY <1>3, <1>4, <2>1 DEF Top
  <2> QED
    BY <1>2, <2>1, <2>2 DEF CallsWait
<1> QED
  BY <1>1, <1>5, <1>6 DEF Types

LEMMA PushFacts ==
  ASSUME NEW t \in Threads, Types, NEW f \in FrameType,
         Inside(t) => Top(t).pc = "protect" /\ "protect" \in SignalPlaces,
         call' = [call EXCEPT ![t] = Append(@, f)]
  PROVE  /\ Inside(t)' /\ Top(t)' = f /\ CallsWait(t)'
         /\ DOMAIN call' = Threads
         /\ \A u \in Threads \ {t} : call'[u] = call[u]
<1> DEFINE c == call[t]
<1> DEFINE d == Append(call[t], f)
<1>1. c \in Seq(FrameType) /\ CallsWait(t) /\ Len(c) \in Nat
  BY DEF Types, CallsWait
<1>2. call'[t] = d
  BY DEF Types
<1>3. /\ d \in Seq(FrameType) /\ Len(d) = Len(c) + 1 /\ d[Len(c) + 1] = f /\ d # <<>>
      /\ \A i \in 1 .. Len(c) : d[i] = c[i]
  BY <1>1
<1>4. \A i \in 1 .. Len(c) : c[i].pc = "protect"
  BY <1>1 DEF CallsWait, Inside, Top
<1>5. Len(c) > 0 => "protect" \in SignalPlaces
  BY <1>1 DEF Inside
<1> HIDE DEF c, d
<1>6. Inside(t)' /\ Top(t)' = f
  BY <1>1, <1>2, <1>3 DEF Inside, Top
<1>7. CallsWait(t)'
  BY <1>1, <1>2, <1>3, <1>4, <1>5 DEF CallsWait
<1> QED
  BY <1>6, <1>7 DEF Types

LEMMA AtInside ==
  ASSUME NEW t \in Threads, NEW pc
  PROVE  At(t, pc) <=> Inside(t) /\ Top(t).pc = pc
BY DEF At, Inside

\* The frame lemma.  A step of u that leaves the pages, the variables and the entries
\* of t alone leaves what is said of t.
Keeps(t) ==
    \A r \in Regions : /\ own'[r] = t <=> own[r] = t
                       /\ own[r] = t => meta'[r] = meta[r] /\ (r \in ro' => r \in ro)
Idle(t) == /\ base'[t] = base[t] /\ gs'[t] = gs[t] /\ loc'[t] = loc[t]
           /\ round'[t] = round[t] /\ call'[t] = call[t]
SameEntries(t) ==
    /\ t \in lost' <=> t \in lost
    /\ \A i \in Slots :
          /\ info'[i].valid /\ info'[i].tid = t <=> info[i].valid /\ info[i].tid = t
          /\ info[i].valid /\ info[i].tid = t =>
                info'[i].meta = info[i].meta /\ info'[i].area = info[i].area

LEMMA Undisturbed ==
  ASSUME NEW t \in Threads, Types, ThreadOK(t), Keeps(t), Idle(t), SameEntries(t)
  PROVE  ThreadOK(t)'
<1>1. /\ Inside(t)' <=> Inside(t)
      /\ Top(t)' = Top(t) /\ Standing(t)' = Standing(t)
      /\ \A pc : At(t, pc)' <=> At(t, pc)
  BY DEF Idle, Inside, Top, Standing, At
<1>2. BaseOK(t)'
  <2>1. BaseOK(t) /\ MetaOK(t) /\ StackOK(t) /\ (base[t] = "store" => ~Inside(t))
    BY DEF ThreadOK, BaseOK
  <2> QED
    BY <1>1, <2>1, AtInside DEF BaseOK, MetaOK, StackOK, Keeps, Idle, Owns, Standing
<1>3. MetaOK(t)' /\ StackOK(t)'
  BY <1>1 DEF ThreadOK, MetaOK, StackOK, Keeps, Idle, Owns
<1>4. Standing(t) => meta'[gs'[t]] = meta[gs[t]]
  BY DEF ThreadOK, MetaOK, Keeps, Idle
<1>5. Inside(t) => Standing(t)
  BY DEF ThreadOK, BaseOK, Standing
<1>6. FrameOK(t)'
  <2> SUFFICES ASSUME Inside(t)
               PROVE  PtrOK(t)' /\ NewOK(t)' /\ CopyOK(t)'
    BY <1>1 DEF FrameOK
  <2>1. PtrOK(t) /\ NewOK(t) /\ CopyOK(t) /\ MetaOK(t) /\ Standing(t)
    BY <1>5 DEF ThreadOK, FrameOK
  <2>2. meta'[gs'[t]] = meta[gs[t]] /\ gs[t] \in Regions /\ own[gs[t]] = t /\ gs'[t] = gs[t]
    BY <1>4, <2>1 DEF MetaOK, Idle
  <2>3. PtrOK(t)'
    BY <1>1, <2>1, <2>2 DEF PtrOK, Keeps
  <2>4. NewOK(t)'
    BY <1>1, <2>1, <2>2 DEF NewOK, Keeps, Owns
  <2>5. CopyOK(t)'
    BY <1>1, <2>1, <2>2 DEF CopyOK, NewOK, Mapping, Keeps, Owns
  <2> QED
    BY <2>3, <2>4, <2>5
<1>7. Accounted(t)'
  <2>1. Started(t)' = Started(t) /\ Moving(t)' = Moving(t)
    BY <1>1 DEF Started, Moving, Idle
  <2>2. Current(t)' = Current(t)
    BY <1>1, <1>4 DEF Current, Idle
  <2>3. Recorded(t)' = Recorded(t)
    BY DEF Recorded, SameEntries, Idle
  <2>4. Mine(t)' = Mine(t)
    BY <2>1, <2>2, <2>3 DEF Mine
  <2> QED
    BY <2>4 DEF ThreadOK, Accounted, Keeps, SameEntries, Idle
<1> QED
  BY <1>2, <1>3, <1>6, <1>7 DEF ThreadOK

\* The table does not see what a thread does before its entry is written.
LEMMA TableUndisturbed ==
  ASSUME Types, Table, UNCHANGED <<info, lost>>,
         \A t \in Threads :
            /\ base'[t] = "end" <=> base[t] = "end"
            /\ base[t] = "gone" => base'[t] = "gone"
            /\ base'[t] = "gone" => base[t] = "gone"
            /\ base[t] \in {"end", "gone"} => gs'[t] = gs[t] /\ Keeps(t),
         \A t \in Threads : base[t] = "end" => gs[t] \in Regions /\ own[gs[t]] = t
  PROVE  Table'
<1>1. ASSUME NEW i \in Slots  PROVE EntryOK(i)'
  <2>1. EntryOK(i)
    BY DEF Table
  <2> QED
    BY <2>1 DEF EntryOK, Keeps
<1>2. OneEntry'
  BY DEF Table, OneEntry
<1>3. ASSUME NEW t \in Threads  PROVE EndRecorded(t)' /\ LostOK(t)'
  <2>1. EndRecorded(t) /\ LostOK(t)
    BY DEF Table
  <2> QED
    BY <2>1 DEF EndRecorded, LostOK
<1> QED
  BY <1>1, <1>2, <1>3 DEF Table

\* A step of u that concerns u only, and is not about its entry.
Local(u) ==
    /\ \A t \in Threads \ {u} : Keeps(t) /\ Idle(t)
    /\ UNCHANGED <<info, lost>>
    /\ base[u] \notin {"end", "gone"} /\ base'[u] \notin {"end", "gone"}

LEMMA LocalStep ==
  ASSUME IInv, NEW u \in Threads, Local(u)
  PROVE  /\ \A t \in Threads \ {u} : ThreadOK(t)'
         /\ Table'
<1>1. ASSUME NEW t \in Threads \ {u}  PROVE ThreadOK(t)'
  <2>1. Types /\ ThreadOK(t) /\ Keeps(t) /\ Idle(t)
    BY DEF IInv, Local
  <2>2. SameEntries(t)
    BY DEF SameEntries, Local
  <2> QED
    BY <2>1, <2>2, Undisturbed
<1>2. Table'
  <2>1. Types /\ Table
    BY DEF IInv
  <2>2. UNCHANGED <<info, lost>>
    BY DEF Local
  <2>3. \A t \in Threads :
            /\ base'[t] = "end" <=> base[t] = "end"
            /\ base[t] = "gone" => base'[t] = "gone"
            /\ base'[t] = "gone" => base[t] = "gone"
            /\ base[t] \in {"end", "gone"} => gs'[t] = gs[t] /\ Keeps(t)
    BY DEF Local, Idle
  <2>4. \A t \in Threads : base[t] = "end" => gs[t] \in Regions /\ own[gs[t]] = t
    BY DEF IInv, ThreadOK, MetaOK, Standing
  <2> QED
    BY <2>1, <2>2, <2>3, <2>4, TableUndisturbed
<1> QED
  BY <1>1, <1>2

\* ... and so keeps the invariant when it keeps the part of u.
LEMMA LocalInv ==
  ASSUME IInv, NEW u \in Threads, Local(u), Types', Counters', ClosedInUse',
         ThreadOK(u)'
  PROVE  IInv' /\ Local(u)
BY LocalStep DEF IInv

LEMMA Rest ==
  ASSUME IInv
  PROVE  /\ Types /\ Counters /\ ClosedInUse /\ Table
         /\ \A t \in Threads : ThreadOK(t)
BY DEF IInv

-----------------------------------------------------------------------------
(* A thread begins.                                                          *)

\* What mmap returns belongs to nobody, so to nobody else, and is writable.
LEMMA MappedFacts ==
  ASSUME IInv, NEW t \in Threads, NEW r \in Regions, Mapped(t, r)
  PROVE  /\ own' \in [Regions -> Threads \cup {None}] /\ own'[r] = t
         /\ r \notin ro
         /\ \A q \in Regions \ {r} : own'[q] = own[q]
         /\ \A q \in Regions : own[q] # None => q # r
         /\ None \notin Threads /\ None \notin Regions
<1>1. None \notin Threads /\ None \notin Regions
  BY FsGsConstants DEF FsGsAssumption
<1> QED
  BY <1>1 DEF IInv, Types, ClosedInUse, Mapped

LEMMA KeepsReadOnly ==
  ASSUME IInv, UNCHANGED <<ro, meta>>, \A r \in Regions : own[r] # None => own'[r] # None
  PROVE  ClosedInUse'
BY DEF IInv, Types, ClosedInUse


LEMMA KeepsCounters ==
  ASSUME IInv, UNCHANGED <<round, lock, scan, hook, signals, fault>>
  PROVE  Counters'
BY DEF IInv, Counters

\* A thread that is in no call.
LEMMA Outside ==
  ASSUME NEW t \in Threads, IInv, ~Inside(t)
  PROVE  /\ call[t] = <<>> /\ Moving(t) = {} /\ FrameOK(t) /\ \A pc : ~At(t, pc)
         /\ CallsWait(t)
<1>1. CallsWait(t)
  BY DEF IInv, Types
<1> QED
  BY <1>1 DEF Inside, Moving, FrameOK, At

LEMMA OutsideNext ==
  ASSUME NEW t \in Threads, ~Inside(t)'
  PROVE  /\ Moving(t)' = {} /\ FrameOK(t)' /\ \A pc : ~At(t, pc)'
         /\ CallsWait(t)'
<1>1. call'[t] = <<>>
  BY DEF Inside
<1>2. CallsWait(t)'
  BY <1>1 DEF CallsWait
<1> QED
  BY <1>1, <1>2 DEF Inside, Moving, FrameOK, At

LEMMA SameCalls ==
  ASSUME NEW t \in Threads, Types, UNCHANGED call
  PROVE  /\ DOMAIN call' = Threads /\ \A u \in Threads : CallsWait(u)'
         /\ Inside(t)' = Inside(t) /\ Top(t)' = Top(t)
BY DEF Types, CallsWait, Inside, Top

LEMMA InitMetaStep ==
  ASSUME IInv, NEW t \in Threads, InitMeta(t)
  PROVE  IInv' /\ Local(t)
<1>1. PICK r \in Regions : Mapped(t, r) /\ loc' = [loc EXCEPT ![t].meta = r]
  BY DEF InitMeta
<1>2. /\ base[t] = "new" /\ ~Inside(t) /\ base' = [base EXCEPT ![t] = "area"]
      /\ UNCHANGED <<ro, meta, gs, call, round, info, lock, scan, lost, hook, signals, fault>>
  BY DEF InitMeta, InBase, Goto, Inside, tables, closed
<1>3. /\ own' \in [Regions -> Threads \cup {None}] /\ own'[r] = t
      /\ r \notin ro
      /\ \A q \in Regions \ {r} : own'[q] = own[q]
      /\ \A q \in Regions : own[q] # None => q # r
      /\ None \notin Threads /\ None \notin Regions
  BY <1>1, MappedFacts
<1>4. Types /\ ThreadOK(t)
  BY Rest
<1>5. Local(t)
  BY <1>1, <1>2, <1>3, <1>4 DEF Local, Keeps, Idle, Types
<1>6. Types'
  <2>1. loc' \in [Threads -> LocType]
    BY <1>1, <1>4 DEF Types, LocType, MaybeRegion
  <2>2. base' \in [Threads -> Bases]
    BY <1>2, <1>4 DEF Types, Bases
  <2> QED
    BY <1>2, <1>3, <1>4, <2>1, <2>2, SameCalls DEF Types
<1>7. Counters'
  BY <1>2, KeepsCounters
<1>8. ClosedInUse'
  BY <1>2, <1>3, KeepsReadOnly
<1>9. ThreadOK(t)'
  <2>1. base'[t] = "area" /\ loc'[t].meta = r /\ ~Inside(t)'
    BY <1>1, <1>2, <1>4 DEF Types, LocType, Inside
  <2>2. BaseOK(t)' /\ MetaOK(t)' /\ StackOK(t)'
    BY <1>2, <1>3, <2>1 DEF BaseOK, MetaOK, StackOK, Owns, Standing
  <2>3. \A q \in Regions : own[q] # t
    BY <1>2, <1>4, Outside DEF ThreadOK, Accounted, Mine, Started, Current, Recorded, Standing
  <2>4. Accounted(t)'
    BY <1>3, <2>1, <2>3 DEF Accounted, Mine, Started
  <2> QED
    BY <2>1, <2>2, <2>4, OutsideNext DEF ThreadOK
<1> QED
  BY <1>5, <1>6, <1>7, <1>8, <1>9, LocalInv

LEMMA InitAreaStep ==
  ASSUME IInv, NEW t \in Threads, InitArea(t)
  PROVE  IInv' /\ Local(t)
<1>1. PICK r \in Regions : Mapped(t, r) /\ loc' = [loc EXCEPT ![t].area = r]
  BY DEF InitArea
<1>2. /\ base[t] = "area" /\ ~Inside(t) /\ base' = [base EXCEPT ![t] = "publish"]
      /\ UNCHANGED <<ro, meta, gs, call, round, info, lock, scan, lost, hook, signals, fault>>
  BY DEF InitArea, InBase, Goto, Inside, tables, closed
<1>3. /\ own' \in [Regions -> Threads \cup {None}] /\ own'[r] = t
      /\ r \notin ro
      /\ \A q \in Regions \ {r} : own'[q] = own[q]
      /\ \A q \in Regions : own[q] # None => q # r
      /\ None \notin Threads /\ None \notin Regions
  BY <1>1, MappedFacts
<1>4. Types /\ ThreadOK(t)
  BY Rest
<1>5. Local(t)
  BY <1>1, <1>2, <1>3, <1>4 DEF Local, Keeps, Idle, Types
<1>6. Types'
  <2>1. loc' \in [Threads -> LocType]
    BY <1>1, <1>4 DEF Types, LocType, MaybeRegion
  <2>2. base' \in [Threads -> Bases]
    BY <1>2, <1>4 DEF Types, Bases
  <2> QED
    BY <1>2, <1>3, <1>4, <2>1, <2>2, SameCalls DEF Types
<1>7. Counters'
  BY <1>2, KeepsCounters
<1>8. ClosedInUse'
  BY <1>2, <1>3, KeepsReadOnly
<1>9. ThreadOK(t)'
  <2>1. base'[t] = "publish" /\ loc'[t].meta = loc[t].meta /\ loc'[t].area = r /\ ~Inside(t)'
    BY <1>1, <1>2, <1>4 DEF Types, LocType, Inside
  <2>2. Owns(t, loc[t].meta)
    BY <1>2, <1>4 DEF ThreadOK, BaseOK
  <2>3. BaseOK(t)' /\ MetaOK(t)' /\ StackOK(t)'
    BY <1>2, <1>3, <2>1, <2>2 DEF BaseOK, MetaOK, StackOK, Owns, Standing
  <2>4. \A q \in Regions : own[q] = t => q = loc[t].meta
    BY <1>2, <1>4, Outside DEF ThreadOK, Accounted, Mine, Started, Current, Recorded, Standing
  <2>5. Accounted(t)'
    BY <1>3, <2>1, <2>4 DEF Accounted, Mine, Started
  <2> QED
    BY <2>1, <2>3, <2>5, OutsideNext DEF ThreadOK
<1> QED
  BY <1>5, <1>6, <1>7, <1>8, <1>9, LocalInv

LEMMA InitPublishStep ==
  ASSUME IInv, NEW t \in Threads, InitPublish(t)
  PROVE  IInv' /\ Local(t)
<1> DEFINE p == loc[t].meta
<1> DEFINE a == loc[t].area
<1>1. /\ meta' = [meta EXCEPT ![p] = Metadata(p, a, a, FALSE, FALSE, Ratio)]
      /\ gs' = [gs EXCEPT ![t] = p]
      /\ base[t] = "publish" /\ ~Inside(t) /\ base' = [base EXCEPT ![t] = "info"]
      /\ UNCHANGED <<own, ro, call, loc, round, info, lock, scan, lost, hook, signals, fault>>
  BY DEF InitPublish, InBase, Goto, Inside, tables, closed
<1>2. Types /\ ThreadOK(t) /\ ClosedInUse
  BY Rest
<1>3. Owns(t, p) /\ Owns(t, a) /\ p # a
  BY <1>1, <1>2 DEF ThreadOK, BaseOK
<1> HIDE DEF p, a
<1>4. Local(t)
  BY <1>1, <1>2, <1>3 DEF Local, Keeps, Idle, Types, Owns
<1>5. Types'
  <2>1. Metadata(p, a, a, FALSE, FALSE, Ratio) \in MetaType
    BY <1>3, MetaTypes DEF Owns, MaybeRegion
  <2>2. meta' \in [Regions -> MetaType]
    BY <1>1, <1>2, <2>1 DEF Types
  <2>3. base' \in [Threads -> Bases]
    BY <1>1, <1>2 DEF Types, Bases
  <2>4. gs' \in [Threads -> MaybeRegion]
    BY <1>1, <1>2, <1>3 DEF Types, Owns, MaybeRegion
  <2> QED
    BY <1>1, <1>2, <2>2, <2>3, <2>4, SameCalls DEF Types
<1>6. Counters'
  BY <1>1, KeepsCounters
<1>7. ClosedInUse'
  BY <1>1, <1>2, <1>3 DEF ClosedInUse, Types, Owns
<1>8. ThreadOK(t)'
  <2>1. /\ base'[t] = "info" /\ loc'[t] = loc[t] /\ ~Inside(t)' /\ gs'[t] = p
        /\ meta'[p].self = p /\ meta'[p].diff = a /\ meta'[p].area = a
        /\ ~meta'[p].busy /\ ~meta'[p].ready
    <3>1. meta'[p] = Metadata(p, a, a, FALSE, FALSE, Ratio)
      BY <1>1, <1>2, <1>3 DEF Types, Owns
    <3>2. /\ meta'[p].self = p /\ meta'[p].diff = a /\ meta'[p].area = a
          /\ ~meta'[p].busy /\ ~meta'[p].ready
      BY <3>1 DEF Metadata
    <3> QED
      BY <1>1, <1>2, <1>3, <3>2 DEF Types, Inside, Owns
  <2>6. /\ p \in Regions /\ own'[p] = t /\ p \notin ro'
        /\ a \in Regions /\ own'[a] = t /\ a \notin ro' /\ a # p
    BY <1>1, <1>3 DEF Owns
  <2>7. loc'[t].meta = p
    BY <2>1 DEF p
  <2>2. BaseOK(t)'
    BY <2>1, <2>6, <2>7 DEF BaseOK
  <2>8. MetaOK(t)'
    BY <2>1, <2>6 DEF MetaOK
  <2>9. StackOK(t)'
    BY <2>1, <2>6 DEF StackOK, Owns
  <2>3. \A q \in Regions : own[q] = t => q \in {p, a}
    BY <1>1, <1>2, Outside
       DEF ThreadOK, Accounted, Mine, Started, Current, Recorded, Standing, p, a
  <2>4. Current(t)' = {p, a}
    BY <2>1, OutsideNext DEF Current, Standing
  <2>5. Accounted(t)'
    BY <1>1, <2>3, <2>4 DEF Accounted, Mine
  <2> QED
    BY <2>1, <2>2, <2>5, <2>8, <2>9, OutsideNext DEF ThreadOK
<1> QED
  BY <1>4, <1>5, <1>6, <1>7, <1>8, LocalInv

LEMMA InitInfoStep ==
  ASSUME IInv, NEW t \in Threads, InitInfo(t)
  PROVE  IInv' /\ Local(t)
<1> DEFINE p == loc[t].meta
<1>1. base[t] = "info" /\ ~Inside(t)
  BY DEF InitInfo, InBase, Inside
<1>2. Types /\ ThreadOK(t) /\ ClosedInUse
  BY Rest
<1>3. /\ gs[t] = p /\ p \notin ro /\ p \in Regions /\ own[p] = t /\ meta[p].self = p
      /\ ~meta[p].ready /\ ~meta[p].busy
      /\ Owns(t, meta[p].area) /\ meta[p].diff = meta[p].area /\ meta[p].area # p
  BY <1>1, <1>2 DEF ThreadOK, BaseOK, MetaOK, StackOK, Standing, At, Inside
<1>6. /\ meta' = [meta EXCEPT ![p].ready = TRUE]
      /\ round' = [round EXCEPT ![t] = IF t = Main THEN 0 ELSE 1]
      /\ loc' = [loc EXCEPT ![t] = NoLocals]
      /\ base' = [base EXCEPT ![t] = "run"]
      /\ UNCHANGED <<own, ro, gs, call, info, lock, scan, lost, hook, signals, fault>>
  BY DEF InitInfo, Goto, tables, closed
<1> HIDE DEF p
<1>7. Local(t)
  BY <1>1, <1>2, <1>3, <1>6 DEF Local, Keeps, Idle, Types
<1>8. meta[p] \in MetaType /\ meta'[p] = [meta[p] EXCEPT !.ready = TRUE]
  BY <1>2, <1>3, <1>6 DEF Types
<1>9. Types'
  <2>1. meta' \in [Regions -> MetaType]
    BY <1>2, <1>6, <1>8, MetaEdits DEF Types
  <2>2. base' \in [Threads -> Bases]
    BY <1>2, <1>6 DEF Types, Bases
  <2>3. loc' \in [Threads -> LocType]
    BY <1>2, <1>6, RecordTypes DEF Types
  <2> QED
    BY <1>2, <1>6, <2>1, <2>2, <2>3, SameCalls DEF Types
<1>10. Counters'
  <2>1. {0, 1} \subseteq 0 .. Iterations
    BY FsGsConstants DEF FsGsAssumption
  <2>2. Counters
    BY Rest
  <2>3. round' \in [Threads -> 0 .. Iterations]
    BY <1>6, <2>1, <2>2 DEF Counters
  <2> QED
    BY <1>6, <2>2, <2>3 DEF Counters
<1>11. ClosedInUse'
  BY <1>2, <1>3, <1>6 DEF ClosedInUse, Types
<1>12. ThreadOK(t)'
  <2>1. /\ base'[t] = "run" /\ ~Inside(t)' /\ gs'[t] = p
        /\ meta'[p].self = p /\ meta'[p].diff = meta[p].area /\ meta'[p].area = meta[p].area
        /\ ~meta'[p].busy /\ meta'[p].ready
    BY <1>1, <1>2, <1>3, <1>6, <1>8 DEF Types, Inside, MetaType
  <2>2. BaseOK(t)' /\ MetaOK(t)' /\ StackOK(t)'
    BY <1>3, <1>6, <2>1 DEF BaseOK, MetaOK, StackOK, Owns, Standing
  <2>3. \A q \in Regions : own[q] = t => q \in {p, meta[p].area}
    BY <1>1, <1>2, <1>3, Outside
       DEF ThreadOK, Accounted, Mine, Started, Current, Recorded, Standing
  <2>4. Current(t)' = {p, meta[p].area}
    BY <2>1, OutsideNext DEF Current, Standing
  <2>5. Accounted(t)'
    BY <1>6, <2>3, <2>4 DEF Accounted, Mine
  <2> QED
    BY <2>1, <2>2, <2>5, OutsideNext DEF ThreadOK
<1> QED
  BY <1>7, <1>9, <1>10, <1>11, <1>12, LocalInv

LEMMA CreateStep ==
  ASSUME IInv, NEW t \in Threads, Create(t)
  PROVE  IInv' /\ \E c \in Threads : base[c] = "none" /\ base'[c] = "new" /\ Local(c)
<1>1. PICK c \in Threads : base[c] = "none" /\ Goto(c, "new") /\ gs' = [gs EXCEPT ![c] = gs[t]]
  BY DEF Create
<1>2. /\ hook' = TRUE /\ base' = [base EXCEPT ![c] = "new"]
      /\ UNCHANGED <<own, ro, meta, call, loc, round, info, lock, scan, lost, signals, fault>>
  BY <1>1 DEF Create, Goto, memory, closed, tables
<1>3. Types /\ ThreadOK(c) /\ Counters /\ ClosedInUse
  BY Rest
<1>4. ~Inside(c)
  BY <1>1, <1>3 DEF ThreadOK, BaseOK
<1>5. base'[c] = "new" /\ \A u \in Threads \ {c} : base'[u] = base[u] /\ gs'[u] = gs[u]
  BY <1>1, <1>2, <1>3 DEF Types
<1>6. Local(c)
  BY <1>1, <1>2, <1>5 DEF Local, Keeps, Idle
<1>7. Types'
  <2>1. base' \in [Threads -> Bases] /\ gs' \in [Threads -> MaybeRegion]
    BY <1>1, <1>2, <1>3 DEF Types, Bases
  <2> QED
    BY <1>2, <1>3, <2>1, SameCalls DEF Types
<1>8. Counters' /\ ClosedInUse'
  BY <1>2, <1>3 DEF Counters, ClosedInUse
<1>9. ThreadOK(c)'
  <2>1. ~Inside(c)'
    BY <1>2, <1>4 DEF Inside
  <2>2. BaseOK(c)' /\ MetaOK(c)' /\ StackOK(c)'
    BY <1>5, <2>1 DEF BaseOK, MetaOK, StackOK, Standing
  <2>3. \A q \in Regions : own[q] # c
    BY <1>1, <1>3, <1>4, Outside DEF ThreadOK, Accounted, Mine, Started, Current, Recorded, Standing
  <2>4. Accounted(c)'
    BY <1>2, <2>3 DEF Accounted
  <2> QED
    BY <2>1, <2>2, <2>4, OutsideNext DEF ThreadOK
<1> QED
  BY <1>1, <1>5, <1>6, <1>7, <1>8, <1>9, LocalInv

-----------------------------------------------------------------------------
(* A call moves the stack.                                                   *)

\* The pages stay in order, and those of the other threads as they are.
PagesOK(t) ==
    /\ own' \in [Regions -> Threads \cup {None}] /\ ro' \subseteq Regions
    /\ meta' \in [Regions -> MetaType]
    /\ ClosedInUse'
    /\ \A u \in Threads \ {t} : Keeps(u)
CallsOK(t) ==
    /\ CallsWait(t)' /\ DOMAIN call' = Threads
    /\ \A u \in Threads \ {t} : call'[u] = call[u]
GsOK(t) ==
    gs' \in [Threads -> MaybeRegion] /\ \A u \in Threads \ {t} : gs'[u] = gs[u]

LEMMA CallInv ==
  ASSUME IInv, NEW t \in Threads, base[t] \in {"run", "exit"},
         UNCHANGED <<base, loc, round, tables, hook, fault>>, signals' \in 0 .. MaxSignals,
         PagesOK(t), CallsOK(t), GsOK(t),
         MetaOK(t)', StackOK(t)', FrameOK(t)',
         \A r \in Regions : own'[r] = t => r \in Moving(t)' \cup Current(t)'
  PROVE  IInv' /\ Local(t)
<1>1. Types /\ Counters
  BY Rest
<1>2. Local(t)
  BY DEF Local, Idle, PagesOK, CallsOK, GsOK, tables
<1>3. Types'
  <2>1. \A u \in Threads \ {t} : CallsWait(u)'
    BY <1>1 DEF Types, CallsWait, CallsOK
  <2> QED
    BY <1>1, <2>1 DEF Types, PagesOK, CallsOK, GsOK, tables
<1>4. Counters'
  BY <1>1 DEF Counters, tables
<1>5. BaseOK(t)'
  BY DEF BaseOK
<1>6. Accounted(t)'
  BY DEF Accounted, Mine
<1> QED
  BY <1>2, <1>3, <1>4, <1>5, <1>6, LocalInv DEF ThreadOK, PagesOK

LEMMA SamePages ==
  ASSUME IInv, NEW t \in Threads, UNCHANGED <<own, meta>>, ro' \subseteq ro
  PROVE  PagesOK(t)
BY DEF IInv, Types, PagesOK, Keeps, ClosedInUse

\* Metadata are written in a page of the thread.
LEMMA WritePage ==
  ASSUME IInv, NEW t \in Threads, NEW q \in Regions, own[q] = t, NEW m \in MetaType,
         meta' = [meta EXCEPT ![q] = m], UNCHANGED <<own, ro>>, q \notin ro
  PROVE  PagesOK(t) /\ meta'[q] = m /\ \A r \in Regions \ {q} : meta'[r] = meta[r]
BY DEF IInv, Types, PagesOK, Keeps, ClosedInUse

LEMMA MapPage ==
  ASSUME IInv, NEW t \in Threads, NEW q \in Regions, Mapped(t, q), UNCHANGED <<ro, meta>>
  PROVE  PagesOK(t)
<1>1. Types /\ None \notin Threads
  BY Rest, FsGsConstants DEF FsGsAssumption
<1>2. own' = [own EXCEPT ![q] = t] /\ own[q] = None
  BY DEF Mapped
<1>3. \A r \in Regions : own[r] # None => own'[r] # None
  BY <1>1, <1>2 DEF Types
<1>4. ClosedInUse'
  BY <1>3, KeepsReadOnly
<1> QED
  BY <1>1, <1>2, <1>4 DEF Types, PagesOK, Keeps

\* What is known of a thread in a call.
LEMMA InCall ==
  ASSUME IInv, NEW t \in Threads, Inside(t)
  PROVE  /\ base[t] \in {"run", "exit"} /\ Standing(t) /\ Top(t) \in FrameType
         /\ gs[t] \in Regions /\ own[gs[t]] = t /\ meta[gs[t]].self = gs[t]
         /\ meta[gs[t]] \in MetaType
         /\ meta[gs[t]].ready /\ (meta[gs[t]].busy <=> Top(t).pc \in Guarded)
         /\ PtrOK(t) /\ NewOK(t) /\ CopyOK(t)
         /\ None \notin Regions /\ signals \in 0 .. MaxSignals
<1>1. Types /\ ThreadOK(t) /\ Counters
  BY Rest
<1>2. base[t] \in {"run", "exit"} /\ Standing(t)
  BY <1>1 DEF ThreadOK, BaseOK, Standing
<1>3. PtrOK(t) /\ NewOK(t) /\ CopyOK(t)
  BY <1>1 DEF ThreadOK, FrameOK
<1>4. Top(t) \in FrameType
  BY <1>1, InsideFacts
<1>5. /\ gs[t] \in Regions /\ own[gs[t]] = t /\ meta[gs[t]].self = gs[t]
      /\ meta[gs[t]].ready /\ (meta[gs[t]].busy <=> Top(t).pc \in Guarded)
  BY <1>1, <1>2 DEF ThreadOK, MetaOK
<1> QED
  BY <1>1, <1>2, <1>3, <1>4, <1>5, FsGsConstants DEF FsGsAssumption, Types, Counters

LEMMA InCallStack ==
  ASSUME IInv, NEW t \in Threads, Inside(t), Top(t).pc # "setgs"
  PROVE  /\ Owns(t, meta[gs[t]].area) /\ meta[gs[t]].diff = meta[gs[t]].area
         /\ meta[gs[t]].area # gs[t]
BY InCall DEF IInv, ThreadOK, StackOK, At

LEMMA InCallMine ==
  ASSUME IInv, NEW t \in Threads, Inside(t), NEW r \in Regions, own[r] = t
  PROVE  r \in Moving(t) \cup Current(t)
<1>1. base[t] \in {"run", "exit"} /\ Accounted(t)
  BY InCall DEF IInv, ThreadOK
<1> QED
  BY <1>1 DEF Accounted, Mine, Started, Recorded

LEMMA FrameEdits ==
  ASSUME NEW f \in FrameType
  PROVE  /\ \A pc \in Pcs : [f EXCEPT !.pc = pc] \in FrameType
         /\ \A pc : /\ [f EXCEPT !.pc = pc].pc = pc /\ [f EXCEPT !.pc = pc].ptr = f.ptr
                    /\ [f EXCEPT !.pc = pc].new = f.new /\ [f EXCEPT !.pc = pc].area = f.area
BY DEF FrameType

\* The frame moves on.
LEMMA ProceedFacts ==
  ASSUME IInv, NEW t \in Threads, Inside(t), NEW pc \in Pcs, Proceed(t, pc)
  PROVE  /\ CallsOK(t) /\ Inside(t)'
         /\ Top(t)'.pc = pc /\ Top(t)'.ptr = Top(t).ptr
         /\ Top(t)'.new = Top(t).new /\ Top(t)'.area = Top(t).area
<1> DEFINE g == [Top(t) EXCEPT !.pc = pc]
<1>1. Types /\ Top(t) \in FrameType
  BY Rest, InCall
<1>2. g \in FrameType /\ g.pc = pc /\ g.ptr = Top(t).ptr /\ g.new = Top(t).new /\ g.area = Top(t).area
  BY <1>1, FrameEdits
<1>3. Step(t, g)
  BY DEF Proceed
<1> HIDE DEF g
<1>4. /\ Inside(t)' /\ Top(t)' = g /\ CallsWait(t)' /\ DOMAIN call' = Threads
      /\ \A u \in Threads \ {t} : call'[u] = call[u]
  BY <1>1, <1>2, <1>3, StepFacts
<1> QED
  BY <1>2, <1>4 DEF CallsOK

LEMMA SameGs ==
  ASSUME IInv, NEW t \in Threads, UNCHANGED gs
  PROVE  GsOK(t)
BY DEF IInv, Types, GsOK

\* Whoever calls a hooked function, the thread or a handler in a guarded place, finds its
\* thread with a stack.
LEMMA CallEnters ==
  ASSUME SignalPlaces \subseteq GuardedPlaces, IInv, NEW t \in Threads,
         HookedCall(t) \/ Signal(t)
  PROVE  /\ Enter(t) /\ base[t] \in {"info", "run", "exit"} /\ signals' \in 0 .. MaxSignals
         /\ Inside(t) => \/ Top(t).pc \in Guarded \ {"setgs"}
                         \/ Top(t).pc = "protect" /\ "protect" \in SignalPlaces
<1>1. CASE HookedCall(t)
  <2>1. ThreadOK(t) /\ Counters /\ ~Inside(t)
    BY <1>1, Rest DEF HookedCall, Inside
  <2>2. base[t] # "end"
    <3>1. base[t] = "end" => round[t] = Iterations
      BY <2>1 DEF ThreadOK, BaseOK
    <3>2. base[t] = "end" => round[t] < Iterations
      BY <1>1 DEF HookedCall
    <3> QED
      BY <3>1, <3>2, FsGsConstants DEF FsGsAssumption
  <2> QED
    BY <1>1, <2>1, <2>2 DEF HookedCall, Counters
<1>2. CASE Signal(t)
  <2>1. Place(t) \in GuardedPlaces /\ Enter(t)
    BY <1>2 DEF Signal
  <2>2. signals' \in 0 .. MaxSignals
    <3>1. signals \in 0 .. MaxSignals /\ signals < MaxSignals /\ signals' = signals + 1
      BY <1>2, Rest DEF Signal, Counters
    <3> QED
      BY <3>1, FsGsConstants DEF FsGsAssumption
  <2>3. CASE Inside(t)
    <3>1. Top(t).pc \in GuardedPlaces /\ base[t] \in {"run", "exit"} /\ Top(t) \in FrameType
      BY <2>1, <2>3, InCall DEF Place, Inside
    <3>2. \/ Top(t).pc \in Guarded \ {"setgs"}
          \/ Top(t).pc = "protect" /\ "protect" \in SignalPlaces
      BY <1>2, <2>3, <3>1 DEF GuardedPlaces, Guarded, FrameType, Pcs, Signal, Place, Inside
    <3> QED
      BY <2>1, <2>2, <3>1, <3>2
  <2>4. CASE ~Inside(t)
    <3>1. base[t] \in GuardedPlaces /\ base[t] \in Bases
      BY <2>1, <2>4, Rest DEF Place, Inside, Types
    <3>2. base[t] \in {"info", "run", "exit"}
      BY <3>1 DEF GuardedPlaces, Bases
    <3> QED
      BY <2>1, <2>2, <2>4, <3>2
  <2> QED
    BY <2>3, <2>4
<1> QED
  BY <1>1, <1>2

\* ... and a call that goes on finds nothing under way, but calls that wait.
LEMMA EnterFacts ==
  ASSUME IInv, NEW t \in Threads, Enter(t), base[t] \in {"info", "run", "exit"},
         Inside(t) => \/ Top(t).pc \in Guarded \ {"setgs"}
                      \/ Top(t).pc = "protect" /\ "protect" \in SignalPlaces
  PROVE  /\ UNCHANGED <<own, closed, meta, gs, base, loc, round, info, lock, scan, lost, hook,
                         fault>>
         /\ base[t] \in {"run", "exit"} /\ ~At(t, "setgs") /\ ~meta[gs[t]].busy /\ Moving(t) = {}
         /\ CallsOK(t) /\ Inside(t)'
         /\ Top(t)'.pc = "unprotect" /\ Top(t)'.ptr = gs[t]
<1> DEFINE p == gs[t]
<1>1. Types /\ ThreadOK(t) /\ Standing(t) /\ ~At(t, "setgs") /\ None \notin Regions
  BY Rest, AtInside, FsGsConstants DEF FsGsAssumption, Standing, Guarded
<1>2. /\ p \in Regions /\ own[p] = t /\ meta[p].self = p
      /\ meta[p].ready <=> base[t] # "info"
      /\ meta[p].busy <=> (Inside(t) /\ Top(t).pc \in Guarded)
      /\ Owns(t, meta[p].area) /\ meta[p].diff = meta[p].area
  BY <1>1 DEF ThreadOK, MetaOK, StackOK
<1>3. Readable(t, p) /\ Readable(t, meta[p].diff)
  BY <1>1, <1>2 DEF Readable, Owns
<1> DEFINE g == Frame("unprotect", p, None, None)
<1>4. /\ MayEnter(meta[p]) /\ call' = [call EXCEPT ![t] = Append(@, g)]
      /\ UNCHANGED <<own, closed, meta, gs, base, loc, round, info, lock, scan, lost, hook, fault>>
  BY <1>2, <1>3 DEF Enter, memory, tables
<1>5. /\ base[t] \in {"run", "exit"} /\ ~meta[p].busy
      /\ Inside(t) => Top(t).pc = "protect" /\ "protect" \in SignalPlaces
      /\ Moving(t) = {}
  BY <1>2, <1>4 DEF MayEnter, Moving
<1>6. g \in FrameType /\ g.pc = "unprotect" /\ g.ptr = p
  <2>1. "unprotect" \in Pcs /\ None \in MaybeRegion
    BY DEF Pcs, MaybeRegion
  <2>2. g \in FrameType
    BY <1>2, <2>1, RecordTypes
  <2> QED
    BY <2>2 DEF Frame
<1> HIDE DEF g
<1>7. Inside(t)' /\ Top(t)' = g /\ CallsOK(t)
  BY <1>1, <1>4, <1>5, <1>6, PushFacts DEF CallsOK
<1> QED
  BY <1>1, <1>4, <1>5, <1>6, <1>7

LEMMA CallStep ==
  ASSUME SignalPlaces \subseteq GuardedPlaces, IInv, NEW t \in Threads,
         HookedCall(t) \/ Signal(t)
  PROVE  IInv' /\ Local(t)
<1> DEFINE p == gs[t]
<1>1. /\ UNCHANGED <<own, ro, meta, gs, base, loc, round, info, lock, scan, lost, hook, fault>>
      /\ base[t] \in {"run", "exit"} /\ ~At(t, "setgs") /\ ~meta[p].busy /\ Moving(t) = {}
      /\ CallsOK(t) /\ Inside(t)' /\ Top(t)'.pc = "unprotect" /\ Top(t)'.ptr = p
      /\ signals' \in 0 .. MaxSignals
  BY CallEnters, EnterFacts DEF closed
<1>2. Types /\ ThreadOK(t) /\ Standing(t)
  BY <1>1, Rest DEF Standing
<1>3. /\ p \in Regions /\ own[p] = t /\ meta[p].self = p /\ meta[p].ready
      /\ Owns(t, meta[p].area) /\ meta[p].diff = meta[p].area /\ meta[p].area # p
  BY <1>1, <1>2 DEF ThreadOK, MetaOK, StackOK
<1>4. PagesOK(t) /\ GsOK(t)
  BY <1>1, SamePages, SameGs
<1>5. MetaOK(t)'
  BY <1>1, <1>3 DEF MetaOK, Guarded
<1>6. StackOK(t)'
  BY <1>1, <1>3 DEF StackOK, Owns
<1>7. FrameOK(t)'
  BY <1>1 DEF FrameOK, PtrOK, NewOK, CopyOK, Mapping
<1>8. ASSUME NEW r \in Regions, own'[r] = t  PROVE r \in Moving(t)' \cup Current(t)'
  <2>1. r \in Current(t)
    BY <1>1, <1>2, <1>8 DEF ThreadOK, Accounted, Mine, Started, Recorded
  <2>2. ~At(t, "setgs")' /\ Standing(t)'
    BY <1>1, <1>2 DEF At, Inside, Standing
  <2>3. Current(t)' = Current(t)
    BY <1>1, <1>2, <2>2 DEF Current
  <2> QED
    BY <2>1, <2>3
<1> QED
  BY <1>1, <1>4, <1>5, <1>6, <1>7, <1>8, CallInv DEF tables

LEMMA UnprotectStep ==
  ASSUME IInv, NEW t \in Threads, Unprotect(t)
  PROVE  IInv' /\ Local(t)
<1> DEFINE p == gs[t]
<1>1. /\ Inside(t) /\ Top(t).pc = "unprotect" /\ Proceed(t, "setbusy")
      /\ ro' = ro \ {Top(t).ptr}
      /\ UNCHANGED <<own, meta, gs, base, loc, round, info, lock, scan, lost, hook, signals, fault>>
  BY AtInside DEF Unprotect, tables
<1>2. /\ base[t] \in {"run", "exit"} /\ Standing(t) /\ Top(t).ptr = p
      /\ p \in Regions /\ own[p] = t /\ meta[p].self = p /\ meta[p].ready /\ ~meta[p].busy
      /\ signals \in 0 .. MaxSignals
  BY <1>1, InCall DEF PtrOK, Guarded
<1>3. Owns(t, meta[p].area) /\ meta[p].diff = meta[p].area /\ meta[p].area # p
  BY <1>1, InCallStack
<1>4. /\ CallsOK(t) /\ Inside(t)' /\ Top(t)'.pc = "setbusy" /\ Top(t)'.ptr = p
  BY <1>1, <1>2, ProceedFacts DEF Pcs
<1>5. PagesOK(t) /\ GsOK(t)
  BY <1>1, SamePages, SameGs
<1>6. MetaOK(t)' /\ StackOK(t)'
  BY <1>1, <1>2, <1>3, <1>4 DEF MetaOK, StackOK, Guarded, Owns
<1>7. FrameOK(t)'
  BY <1>1, <1>2, <1>4 DEF FrameOK, PtrOK, NewOK, CopyOK, Mapping
<1>8. ASSUME NEW r \in Regions, own'[r] = t  PROVE r \in Moving(t)' \cup Current(t)'
  <2>1. r \in {p, meta[p].area}
    BY <1>1, <1>8, InCallMine DEF Moving, Current
  <2>2. Current(t)' = {p, meta[p].area}
    BY <1>1, <1>2, <1>4 DEF Current, Standing, At
  <2> QED
    BY <2>1, <2>2
<1> QED
  BY <1>1, <1>2, <1>4, <1>5, <1>6, <1>7, <1>8, CallInv DEF tables

LEMMA SetBusyStep ==
  ASSUME IInv, NEW t \in Threads, SetBusy(t)
  PROVE  IInv' /\ Local(t)
<1> DEFINE p == gs[t]
<1>1. Inside(t) /\ Top(t).pc = "setbusy"
  BY AtInside DEF SetBusy
<1>2. /\ base[t] \in {"run", "exit"} /\ Standing(t) /\ Top(t).ptr = p /\ p \notin ro
      /\ p \in Regions /\ own[p] = t /\ meta[p].self = p /\ meta[p].ready
      /\ signals \in 0 .. MaxSignals /\ None \notin Regions /\ meta[p] \in MetaType
  BY <1>1, InCall DEF PtrOK
<1>3. Owns(t, meta[p].area) /\ meta[p].diff = meta[p].area /\ meta[p].area # p
  BY <1>1, InCallStack
<1> DEFINE m == [meta[p] EXCEPT !.busy = TRUE]
<1>5. /\ Proceed(t, "period") /\ meta' = [meta EXCEPT ![p] = m]
      /\ UNCHANGED <<own, ro, gs, base, loc, round, info, lock, scan, lost, hook, signals, fault>>
  BY <1>1, <1>2, AtInside DEF SetBusy, tables, closed
<1>6. /\ CallsOK(t) /\ Inside(t)' /\ Top(t)'.pc = "period" /\ Top(t)'.ptr = p
  BY <1>1, <1>2, <1>5, ProceedFacts DEF Pcs
<1>7. /\ m \in MetaType /\ m.self = p /\ m.ready /\ m.busy /\ m.area = meta[p].area
      /\ m.diff = meta[p].area
  BY <1>2, <1>3, MetaEdits DEF MetaType
<1> HIDE DEF m
<1>8. PagesOK(t) /\ GsOK(t) /\ meta'[p] = m
  <2>1. p \in Regions /\ own[p] = t /\ p \notin ro /\ m \in MetaType
    BY <1>2, <1>7
  <2>2. meta' = [meta EXCEPT ![p] = m] /\ UNCHANGED <<own, ro>>
    BY <1>5
  <2>3. PagesOK(t) /\ meta'[p] = m
    BY <2>1, <2>2, WritePage, ZenonT(30)
  <2> QED
    BY <1>5, <2>3, SameGs
<1>9. MetaOK(t)' /\ StackOK(t)'
  BY <1>2, <1>3, <1>5, <1>6, <1>7, <1>8 DEF MetaOK, StackOK, Guarded, Owns
<1>10. FrameOK(t)'
  BY <1>2, <1>5, <1>6 DEF FrameOK, PtrOK, NewOK, CopyOK, Mapping
<1>11. ASSUME NEW r \in Regions, own'[r] = t  PROVE r \in Moving(t)' \cup Current(t)'
  <2>1. r \in {p, meta[p].area}
    BY <1>1, <1>5, <1>11, InCallMine DEF Moving, Current
  <2>2. Current(t)' = {p, meta[p].area}
    BY <1>2, <1>5, <1>6, <1>7, <1>8 DEF Current, Standing, At
  <2> QED
    BY <2>1, <2>2
<1> QED
  BY <1>2, <1>5, <1>6, <1>8, <1>9, <1>10, <1>11, CallInv DEF tables

\* Three outcomes: too early, not this time, a move.
LEMMA PeriodStep ==
  ASSUME IInv, NEW t \in Threads, Period(t)
  PROVE  IInv' /\ Local(t)
<1> DEFINE p == gs[t]
<1>1. /\ Inside(t) /\ Top(t).pc = "period"
      /\ UNCHANGED <<own, ro, gs, base, loc, round, info, lock, scan, lost, hook, signals, fault>>
  BY AtInside DEF Period, tables
<1>2. /\ base[t] \in {"run", "exit"} /\ Standing(t) /\ Top(t).ptr = p /\ p \notin ro
      /\ p \in Regions /\ own[p] = t /\ meta[p].self = p /\ meta[p].ready /\ meta[p].busy
      /\ signals \in 0 .. MaxSignals /\ meta[p] \in MetaType
  BY <1>1, InCall DEF PtrOK, Guarded
<1>3. Owns(t, meta[p].area) /\ meta[p].diff = meta[p].area /\ meta[p].area # p
  BY <1>1, InCallStack
<1>4. \A r \in Regions : own[r] = t => r \in {p, meta[p].area}
  BY <1>1, InCallMine DEF Moving, Current
<1>5. PICK m \in MetaType :
        /\ meta' = [meta EXCEPT ![p] = m]
        /\ m.self = p /\ m.ready /\ m.area = meta[p].area /\ m.diff = meta[p].area
        /\ \/ ~m.busy /\ Pop(t)
           \/ m.busy /\ \E pc \in {"clear", "mapmeta"} : Proceed(t, pc)
  <2>1. CASE meta' = [meta EXCEPT ![p] = TooEarly(@)] /\ Pop(t)
    <3>1. /\ TooEarly(meta[p]) \in MetaType
          /\ TooEarly(meta[p]).self = p /\ TooEarly(meta[p]).ready
          /\ TooEarly(meta[p]).area = meta[p].area /\ TooEarly(meta[p]).diff = meta[p].area
          /\ ~TooEarly(meta[p]).busy
      BY <1>2, <1>3, MetaEdits DEF TooEarly, MetaType
    <3>2. meta' = [meta EXCEPT ![p] = TooEarly(meta[p])]
      BY <2>1
    <3> QED
      BY <2>1, <3>1, <3>2
  <2>2. CASE /\ meta[p].ratio > 1 /\ meta' = [meta EXCEPT ![p].ratio = @ - 1]
             /\ Proceed(t, "clear")
    <3> DEFINE m == [meta[p] EXCEPT !.ratio = @ - 1]
    <3>1. m \in MetaType
      BY <1>2, <2>2, MetaEdits
    <3>2. /\ m.self = p /\ m.ready /\ m.area = meta[p].area /\ m.diff = meta[p].area /\ m.busy
      BY <1>2, <1>3 DEF MetaType
    <3>3. meta' = [meta EXCEPT ![p] = m]
      BY <2>2
    <3> HIDE DEF m
    <3> QED
      BY <2>2, <3>1, <3>2, <3>3
  <2>3. CASE meta' = [meta EXCEPT ![p].ratio = Ratio] /\ Proceed(t, "mapmeta")
    <3> DEFINE m == [meta[p] EXCEPT !.ratio = Ratio]
    <3>1. m \in MetaType
      BY <1>2, MetaEdits
    <3>2. /\ m.self = p /\ m.ready /\ m.area = meta[p].area /\ m.diff = meta[p].area /\ m.busy
      BY <1>2, <1>3 DEF MetaType
    <3>3. meta' = [meta EXCEPT ![p] = m]
      BY <2>3
    <3> HIDE DEF m
    <3> QED
      BY <2>3, <3>1, <3>2, <3>3
  <2> QED
    BY <1>2, <2>1, <2>2, <2>3 DEF Period
<1>6. PagesOK(t) /\ GsOK(t) /\ meta'[p] = m
  <2>1. p \in Regions /\ own[p] = t /\ p \notin ro /\ m \in MetaType
    BY <1>2
  <2>2. meta' = [meta EXCEPT ![p] = m] /\ UNCHANGED <<own, ro>>
    BY <1>1, <1>5
  <2> HIDE DEF p
  <2>3. PagesOK(t) /\ meta'[p] = m
    BY <2>1, <2>2, WritePage
  <2> QED
    BY <1>1, <2>3, SameGs
<1>7. Standing(t)' /\ gs'[t] = p /\ meta'[p].area = meta[p].area
  BY <1>1, <1>2, <1>5, <1>6 DEF Standing
<1>8. StackOK(t)'
  BY <1>1, <1>2, <1>3, <1>5, <1>6, <1>7 DEF StackOK, Owns
<1>9. CASE ~m.busy /\ Pop(t)
  <2>1. CallsOK(t) /\ (Inside(t)' => Top(t)'.pc = "protect" /\ "protect" \in SignalPlaces)
    BY <1>1, <1>9, Rest, PopFacts DEF CallsOK
  <2>2. MetaOK(t)'
    BY <1>1, <1>2, <1>5, <1>6, <1>9, <2>1 DEF MetaOK, Guarded
  <2>3. FrameOK(t)'
    BY <2>1 DEF FrameOK, PtrOK, NewOK, CopyOK, Mapping
  <2>4. ASSUME NEW r \in Regions, own'[r] = t  PROVE r \in Moving(t)' \cup Current(t)'
    BY <1>1, <1>4, <1>7, <2>1, <2>4 DEF Current, At, Inside
  <2> QED
    BY <1>1, <1>2, <1>6, <1>8, <2>1, <2>2, <2>3, <2>4, CallInv DEF tables
<1>10. ASSUME m.busy, NEW pc \in {"clear", "mapmeta"}, Proceed(t, pc)  PROVE IInv' /\ Local(t)
  <2>1. pc \in Pcs
    BY DEF Pcs
  <2>2. /\ CallsOK(t) /\ Inside(t)' /\ Top(t)'.pc = pc /\ Top(t)'.ptr = p
    BY <1>1, <1>2, <1>10, <2>1, ProceedFacts
  <2>3. MetaOK(t)'
    BY <1>1, <1>2, <1>5, <1>6, <1>10, <2>2 DEF MetaOK, Guarded
  <2>4. FrameOK(t)'
    BY <1>1, <1>2, <2>2 DEF FrameOK, PtrOK, NewOK, CopyOK, Mapping
  <2>5. ASSUME NEW r \in Regions, own'[r] = t  PROVE r \in Moving(t)' \cup Current(t)'
    BY <1>1, <1>4, <1>7, <2>2, <2>5 DEF Current, At
  <2> QED
    BY <1>1, <1>2, <1>6, <1>8, <2>2, <2>3, <2>4, <2>5, CallInv DEF tables
<1> QED
  BY <1>5, <1>9, <1>10

LEMMA MapMetaStep ==
  ASSUME IInv, NEW t \in Threads, MapMeta(t)
  PROVE  IInv' /\ Local(t)
<1> DEFINE p == gs[t]
<1>1. /\ Inside(t) /\ Top(t).pc = "mapmeta"
      /\ UNCHANGED <<ro, meta, gs, base, loc, round, info, lock, scan, lost, hook, signals, fault>>
  BY AtInside DEF MapMeta, tables, closed
<1>2. PICK q \in Regions : Mapped(t, q) /\ Step(t, [Top(t) EXCEPT !.pc = "maparea", !.new = q])
  BY DEF MapMeta
<1>3. /\ base[t] \in {"run", "exit"} /\ Standing(t) /\ Top(t).ptr = p /\ p \notin ro
      /\ p \in Regions /\ own[p] = t /\ meta[p].self = p /\ meta[p].ready /\ meta[p].busy
      /\ signals \in 0 .. MaxSignals /\ Top(t) \in FrameType
  BY <1>1, InCall DEF PtrOK, Guarded
<1>4. Owns(t, meta[p].area) /\ meta[p].diff = meta[p].area /\ meta[p].area # p
  BY <1>1, InCallStack
<1>5. /\ own' \in [Regions -> Threads \cup {None}] /\ own'[q] = t
      /\ q \notin ro
      /\ \A r \in Regions \ {q} : own'[r] = own[r]
      /\ \A r \in Regions : own[r] # None => r # q
      /\ None \notin Threads /\ None \notin Regions
  BY <1>2, MappedFacts
<1> DEFINE g == [Top(t) EXCEPT !.pc = "maparea", !.new = q]
<1>6. g \in FrameType /\ g.pc = "maparea" /\ g.new = q /\ g.ptr = p
  BY <1>3 DEF FrameType, Pcs, MaybeRegion
<1>7. Step(t, g)
  BY <1>2
<1> HIDE DEF g
<1>8. CallsOK(t) /\ Inside(t)' /\ Top(t)' = g
  BY <1>1, <1>6, <1>7, Rest, StepFacts DEF CallsOK
<1>9. PagesOK(t) /\ GsOK(t)
  BY <1>1, <1>2, MapPage, SameGs
<1>10. MetaOK(t)' /\ StackOK(t)'
  BY <1>1, <1>3, <1>4, <1>5, <1>6, <1>8 DEF MetaOK, StackOK, Guarded, Owns
<1>11. FrameOK(t)'
  BY <1>1, <1>3, <1>4, <1>5, <1>6, <1>8 DEF FrameOK, PtrOK, NewOK, CopyOK, Mapping, Owns
<1>12. ASSUME NEW r \in Regions, own'[r] = t  PROVE r \in Moving(t)' \cup Current(t)'
  <2>1. r \in {p, meta[p].area, q}
    BY <1>1, <1>5, <1>12, InCallMine DEF Moving, Current
  <2>2. Current(t)' = {p, meta[p].area} /\ Moving(t)' = {q}
    BY <1>1, <1>3, <1>6, <1>8 DEF Current, Moving, Standing, At
  <2> QED
    BY <2>1, <2>2
<1> QED
  BY <1>1, <1>3, <1>8, <1>9, <1>10, <1>11, <1>12, CallInv DEF tables

LEMMA MapAreaStep ==
  ASSUME IInv, NEW t \in Threads, MapArea(t)
  PROVE  IInv' /\ Local(t)
<1> DEFINE p == gs[t]
<1> DEFINE f == Top(t)
<1>1. /\ Inside(t) /\ Top(t).pc = "maparea"
      /\ UNCHANGED <<ro, meta, gs, base, loc, round, info, lock, scan, lost, hook, signals, fault>>
  BY AtInside DEF MapArea, tables, closed
<1>2. PICK q \in Regions : Mapped(t, q) /\ Step(t, [Top(t) EXCEPT !.pc = "copy", !.area = q])
  BY DEF MapArea
<1>3. /\ base[t] \in {"run", "exit"} /\ Standing(t) /\ f.ptr = p /\ p \notin ro
      /\ p \in Regions /\ own[p] = t /\ meta[p].self = p /\ meta[p].ready /\ meta[p].busy
      /\ signals \in 0 .. MaxSignals /\ f \in FrameType
      /\ Owns(t, f.new) /\ f.new # p /\ f.new # meta[p].area
  BY <1>1, InCall DEF PtrOK, NewOK, Guarded, Mapping
<1>4. Owns(t, meta[p].area) /\ meta[p].diff = meta[p].area /\ meta[p].area # p
  BY <1>1, InCallStack
<1>5. /\ own' \in [Regions -> Threads \cup {None}] /\ own'[q] = t
      /\ q \notin ro
      /\ \A r \in Regions \ {q} : own'[r] = own[r]
      /\ \A r \in Regions : own[r] # None => r # q
      /\ None \notin Threads /\ None \notin Regions
  BY <1>2, MappedFacts
<1> DEFINE g == [Top(t) EXCEPT !.pc = "copy", !.area = q]
<1>6. g \in FrameType /\ g.pc = "copy" /\ g.new = f.new /\ g.ptr = p /\ g.area = q
  BY <1>3 DEF FrameType, Pcs, MaybeRegion
<1>7. Step(t, g)
  BY <1>2
<1>13. \A r \in Regions : own[r] = t => r \in {p, meta[p].area, f.new}
  BY <1>1, InCallMine DEF Moving, Current
<1> HIDE DEF g
<1>8. CallsOK(t) /\ Inside(t)' /\ Top(t)' = g
  BY <1>1, <1>6, <1>7, Rest, StepFacts DEF CallsOK
<1> HIDE DEF f
<1>9. PagesOK(t) /\ GsOK(t)
  BY <1>1, <1>2, MapPage, SameGs
<1>10. MetaOK(t)' /\ StackOK(t)'
  BY <1>1, <1>3, <1>4, <1>5, <1>6, <1>8 DEF MetaOK, StackOK, Guarded, Owns
<1>11. FrameOK(t)'
  BY <1>1, <1>3, <1>4, <1>5, <1>6, <1>8 DEF FrameOK, PtrOK, NewOK, CopyOK, Mapping, Owns
<1>12. ASSUME NEW r \in Regions, own'[r] = t  PROVE r \in Moving(t)' \cup Current(t)'
  <2>1. r \in {p, meta[p].area, f.new, q}
    BY <1>5, <1>12, <1>13
  <2>2. Current(t)' = {p, meta[p].area} /\ Moving(t)' = {f.new, q}
    BY <1>1, <1>3, <1>6, <1>8 DEF Current, Moving, Standing, At
  <2> QED
    BY <2>1, <2>2
<1> QED
  BY <1>1, <1>3, <1>8, <1>9, <1>10, <1>11, <1>12, CallInv DEF tables

\* The new metadata name themselves and the new stack before gs leads to them.
LEMMA CopyStep ==
  ASSUME IInv, NEW t \in Threads, Copy(t)
  PROVE  IInv' /\ Local(t)
<1> DEFINE p == gs[t]
<1> DEFINE f == Top(t)
<1> DEFINE m == Copied(meta[p], f.new, f.area)
<1>1. /\ Inside(t) /\ f.pc = "copy" /\ Proceed(t, "remap")
      /\ meta' = [meta EXCEPT ![f.new] = Copied(meta[f.ptr], f.new, f.area)]
      /\ UNCHANGED <<own, ro, gs, base, loc, round, info, lock, scan, lost, hook, signals, fault>>
  BY AtInside DEF Copy, tables, closed
<1>2. /\ base[t] \in {"run", "exit"} /\ Standing(t) /\ f.ptr = p /\ p \notin ro
      /\ p \in Regions /\ own[p] = t /\ meta[p].self = p /\ meta[p].ready /\ meta[p].busy
      /\ signals \in 0 .. MaxSignals /\ f \in FrameType /\ meta[p] \in MetaType
      /\ Owns(t, f.new) /\ f.new # p /\ f.new # meta[p].area
      /\ Owns(t, f.area) /\ f.area \notin {p, f.new} /\ f.area # meta[p].area
  BY <1>1, InCall DEF PtrOK, NewOK, Guarded, Mapping
<1>3. Owns(t, meta[p].area) /\ meta[p].diff = meta[p].area /\ meta[p].area # p
  BY <1>1, InCallStack
<1>4. \A r \in Regions : own[r] = t => r \in {p, meta[p].area, f.new, f.area}
  BY <1>1, InCallMine DEF Moving, Current
<1>5. /\ CallsOK(t) /\ Inside(t)' /\ Top(t)'.pc = "remap" /\ Top(t)'.ptr = p
      /\ Top(t)'.new = f.new /\ Top(t)'.area = f.area
  BY <1>1, <1>2, ProceedFacts DEF Pcs
<1>6. /\ m \in MetaType /\ m.self = f.new /\ m.diff = f.area /\ m.busy /\ m.ready
  <2>1. f.new \in MaybeRegion /\ f.area \in MaybeRegion
    BY <1>2 DEF FrameType
  <2> QED
    BY <1>2, <1>3, <2>1, MetaEdits DEF Copied, MetaType
<1>7. meta' = [meta EXCEPT ![f.new] = m]
  BY <1>1, <1>2
<1> HIDE DEF m, f
<1>8. PagesOK(t) /\ meta'[f.new] = m /\ meta'[p] = meta[p]
  <2>1. f.new \in Regions /\ own[f.new] = t /\ f.new \notin ro /\ p \in Regions \ {f.new}
    BY <1>2 DEF Owns
  <2>2. UNCHANGED <<own, ro>>
    BY <1>1
  <2> DEFINE q == f.new
  <2>3. q \in Regions /\ own[q] = t /\ q \notin ro /\ meta' = [meta EXCEPT ![q] = m]
    BY <1>7, <2>1
  <2> HIDE DEF q
  <2>4. PagesOK(t) /\ meta'[q] = m /\ \A r \in Regions \ {q} : meta'[r] = meta[r]
    BY <1>6, <2>2, <2>3, WritePage
  <2> QED
    BY <2>1, <2>4 DEF q
<1>9. GsOK(t)
  BY <1>1, SameGs
<1>10. MetaOK(t)' /\ StackOK(t)'
  BY <1>1, <1>2, <1>3, <1>5, <1>8 DEF MetaOK, StackOK, Guarded, Owns
<1>11. FrameOK(t)'
  BY <1>1, <1>2, <1>3, <1>5, <1>6, <1>8 DEF FrameOK, PtrOK, NewOK, CopyOK, Mapping, Owns
<1>12. ASSUME NEW r \in Regions, own'[r] = t  PROVE r \in Moving(t)' \cup Current(t)'
  <2>1. r \in {p, meta[p].area, f.new, f.area}
    BY <1>1, <1>4, <1>12
  <2>2. Current(t)' = {p, meta[p].area} /\ Moving(t)' = {f.new, f.area}
    BY <1>1, <1>2, <1>5, <1>8 DEF Current, Moving, Standing, At
  <2> QED
    BY <2>1, <2>2
<1> QED
  BY <1>1, <1>2, <1>5, <1>8, <1>9, <1>10, <1>11, <1>12, CallInv DEF tables

\* mremap: the old stack is gone, gs still leads to the old metadata.
LEMMA RemapStep ==
  ASSUME IInv, NEW t \in Threads, Remap(t)
  PROVE  IInv' /\ Local(t)
<1> DEFINE p == gs[t]
<1> DEFINE f == Top(t)
<1> DEFINE a == meta[p].area
<1> DEFINE m == AreaAfter(meta[f.new], f.area)
<1>1. /\ Inside(t) /\ f.pc = "remap" /\ Proceed(t, "setgs")
      /\ own' = [own EXCEPT ![meta[f.ptr].area] = None]
      /\ meta' = [meta EXCEPT ![f.new] = m]
      /\ ro' = Remapped(ro, meta[f.ptr].area, f.area)
      /\ UNCHANGED <<gs, base, loc, round, info, lock, scan, lost, hook, signals, fault>>
  BY AtInside DEF Remap, tables
<1>2. /\ base[t] \in {"run", "exit"} /\ Standing(t) /\ f.ptr = p /\ p \notin ro
      /\ p \in Regions /\ own[p] = t /\ meta[p].self = p /\ meta[p].ready /\ meta[p].busy
      /\ signals \in 0 .. MaxSignals /\ f \in FrameType /\ None \notin Regions
      /\ Owns(t, f.new) /\ f.new # p /\ f.new # a
      /\ Owns(t, f.area) /\ f.area \notin {p, f.new} /\ f.area # a
      /\ meta[f.new].self = f.new /\ meta[f.new].diff = f.area
      /\ meta[f.new].busy /\ meta[f.new].ready
  BY <1>1, InCall DEF PtrOK, NewOK, CopyOK, Guarded, Mapping
<1>3. Owns(t, a) /\ a # p
  BY <1>1, InCallStack
<1>4. \A r \in Regions : own[r] = t => r \in {p, a, f.new, f.area}
  BY <1>1, InCallMine DEF Moving, Current
<1>5. /\ CallsOK(t) /\ Inside(t)' /\ Top(t)'.pc = "setgs" /\ Top(t)'.ptr = p
      /\ Top(t)'.new = f.new /\ Top(t)'.area = f.area
  BY <1>1, <1>2, ProceedFacts DEF Pcs
<1>6. Types /\ ClosedInUse /\ None \notin Threads
  BY Rest, FsGsConstants DEF FsGsAssumption
<1>7. /\ m \in MetaType /\ m.self = f.new /\ m.diff = f.area /\ m.busy /\ m.ready
      /\ m.area = f.area
  <2>1. f.area \in MaybeRegion /\ meta[f.new] \in MetaType
    BY <1>2, <1>6 DEF FrameType, Types, Owns
  <2> QED
    BY <1>2, <2>1, MetaEdits DEF AreaAfter, MetaType
<1>8. own' = [own EXCEPT ![a] = None] /\ ro' = ro
  BY <1>1, <1>2, <1>3 DEF Remapped, Owns
<1> HIDE DEF m, f, a
<1>9. /\ own'[a] = None /\ \A r \in Regions \ {a} : own'[r] = own[r]
      /\ meta'[f.new] = m /\ \A r \in Regions \ {f.new} : meta'[r] = meta[r]
      /\ ro' = ro /\ base' = base /\ gs' = gs
  BY <1>1, <1>2, <1>3, <1>6, <1>8 DEF Types, Owns
<1>10. PagesOK(t)
  <2>1. own' \in [Regions -> Threads \cup {None}] /\ meta' \in [Regions -> MetaType]
    BY <1>1, <1>6, <1>7, <1>8 DEF Types
  <2>2. ClosedInUse'
    BY <1>2, <1>3, <1>6, <1>9 DEF ClosedInUse, Types, Owns
  <2>3. \A u \in Threads \ {t} : Keeps(u)
    BY <1>2, <1>3, <1>6, <1>9 DEF Keeps, Owns
  <2> QED
    BY <1>6, <1>9, <2>1, <2>2, <2>3 DEF PagesOK, Types
<1>11. GsOK(t)
  BY <1>1, SameGs
<1>12. MetaOK(t)'
  BY <1>1, <1>2, <1>3, <1>5, <1>9 DEF MetaOK, Guarded
<1>13. StackOK(t)'
  BY <1>5 DEF StackOK, At, Inside
<1>14. FrameOK(t)'
  BY <1>2, <1>3, <1>5, <1>7, <1>9 DEF FrameOK, PtrOK, NewOK, CopyOK, Mapping, Owns
<1>15. ASSUME NEW r \in Regions, own'[r] = t  PROVE r \in Moving(t)' \cup Current(t)'
  <2>1. r \in {p, f.new, f.area}
    BY <1>4, <1>6, <1>9, <1>15
  <2>2. Current(t)' = {p} /\ Moving(t)' = {f.new, f.area}
    BY <1>1, <1>2, <1>5 DEF Current, Moving, Standing, At, Inside
  <2> QED
    BY <2>1, <2>2
<1> QED
  BY <1>1, <1>2, <1>5, <1>10, <1>11, <1>12, <1>13, <1>14, <1>15, CallInv DEF tables

\* ARCH_SET_GS: gs leads to metadata and a stack that are ready for it.
LEMMA SetGsStep ==
  ASSUME IInv, NEW t \in Threads, SetGs(t)
  PROVE  IInv' /\ Local(t)
<1> DEFINE p == gs[t]
<1> DEFINE f == Top(t)
<1>1. /\ Inside(t) /\ f.pc = "setgs" /\ Proceed(t, "unmap")
      /\ gs' = [gs EXCEPT ![t] = f.new]
      /\ UNCHANGED <<own, ro, meta, base, loc, round, info, lock, scan, lost, hook, signals, fault>>
  BY AtInside DEF SetGs, memory, closed, tables
<1>2. /\ base[t] \in {"run", "exit"} /\ Standing(t) /\ f.ptr = p /\ p \notin ro
      /\ p \in Regions /\ own[p] = t
      /\ signals \in 0 .. MaxSignals /\ f \in FrameType
      /\ Owns(t, f.new) /\ f.new # p
      /\ Owns(t, f.area) /\ f.area \notin {p, f.new}
      /\ meta[f.new].self = f.new /\ meta[f.new].diff = f.area
      /\ meta[f.new].busy /\ meta[f.new].ready /\ meta[f.new].area = f.area
  BY <1>1, InCall DEF PtrOK, NewOK, CopyOK, Guarded, Mapping
<1>3. \A r \in Regions : own[r] = t => r \in {p, f.new, f.area}
  BY <1>1, <1>2, InCallMine DEF Moving, Current, At, Inside
<1>4. /\ CallsOK(t) /\ Inside(t)' /\ Top(t)'.pc = "unmap" /\ Top(t)'.ptr = p
      /\ Top(t)'.new = f.new
  BY <1>1, <1>2, ProceedFacts DEF Pcs
<1> HIDE DEF f
<1>5. PagesOK(t)
  BY <1>1, SamePages
<1>6. GsOK(t) /\ gs'[t] = f.new
  BY <1>1, <1>2, Rest DEF GsOK, Types, Owns, MaybeRegion
<1>7. MetaOK(t)' /\ StackOK(t)'
  BY <1>1, <1>2, <1>4, <1>6 DEF MetaOK, StackOK, Guarded, Owns
<1>8. FrameOK(t)'
  BY <1>1, <1>2, <1>4, <1>6 DEF FrameOK, PtrOK, NewOK, CopyOK, Mapping, Owns
<1>9. ASSUME NEW r \in Regions, own'[r] = t  PROVE r \in Moving(t)' \cup Current(t)'
  <2>1. r \in {p, f.new, f.area}
    BY <1>1, <1>3, <1>9
  <2>2. Current(t)' = {f.new, f.area} /\ Moving(t)' = {p}
    BY <1>1, <1>2, <1>4, <1>6 DEF Current, Moving, Standing, At
  <2> QED
    BY <2>1, <2>2
<1> QED
  BY <1>1, <1>2, <1>4, <1>5, <1>6, <1>7, <1>8, <1>9, CallInv DEF tables

LEMMA UnmapStep ==
  ASSUME IInv, NEW t \in Threads, Unmap(t)
  PROVE  IInv' /\ Local(t)
<1> DEFINE p == gs[t]
<1> DEFINE f == Top(t)
<1> DEFINE g == [f EXCEPT !.pc = "clear", !.ptr = f.new]
<1>1. /\ Inside(t) /\ f.pc = "unmap" /\ Step(t, g)
      /\ own' = [own EXCEPT ![f.ptr] = None]
      /\ ro' = ro \ {f.ptr}
      /\ meta' = [meta EXCEPT ![f.ptr] = ZeroMeta]
      /\ UNCHANGED <<gs, base, loc, round, info, lock, scan, lost, hook, signals, fault>>
  BY AtInside DEF Unmap, PtrAfter, tables
<1>2. /\ base[t] \in {"run", "exit"} /\ Standing(t) /\ f.new = p /\ p \notin ro
      /\ p \in Regions /\ own[p] = t /\ meta[p].self = p /\ meta[p].ready /\ meta[p].busy
      /\ f.ptr \in Regions /\ own[f.ptr] = t /\ f.ptr \notin {p, meta[p].area}
      /\ signals \in 0 .. MaxSignals /\ f \in FrameType
  BY <1>1, InCall DEF PtrOK, Guarded
<1>3. Owns(t, meta[p].area) /\ meta[p].diff = meta[p].area /\ meta[p].area # p
  BY <1>1, InCallStack
<1>4. \A r \in Regions : own[r] = t => r \in {p, meta[p].area, f.ptr}
  BY <1>1, InCallMine DEF Moving, Current
<1>5. g \in FrameType /\ g.pc = "clear" /\ g.ptr = p
  BY <1>2 DEF FrameType, Pcs, MaybeRegion
<1>6. Types /\ ClosedInUse /\ None \notin Threads
  BY Rest, FsGsConstants DEF FsGsAssumption
<1> HIDE DEF g
<1>7. CallsOK(t) /\ Inside(t)' /\ Top(t)' = g
  BY <1>1, <1>5, <1>6, StepFacts DEF CallsOK
<1> HIDE DEF f
<1>8. /\ own'[f.ptr] = None /\ \A r \in Regions \ {f.ptr} : own'[r] = own[r] /\ meta'[r] = meta[r]
  BY <1>1, <1>2, <1>6 DEF Types
<1>9. PagesOK(t)
  <2>1. own' \in [Regions -> Threads \cup {None}] /\ meta' \in [Regions -> MetaType]
    BY <1>1, <1>6, MetaTypes DEF Types
  <2>2. ClosedInUse'
    BY <1>1, <1>6, <1>8 DEF ClosedInUse, Types
  <2>3. \A u \in Threads \ {t} : Keeps(u)
    BY <1>1, <1>2, <1>6, <1>8 DEF Keeps
  <2> QED
    BY <1>1, <1>6, <2>1, <2>2, <2>3 DEF PagesOK, Types
<1>10. GsOK(t)
  BY <1>1, SameGs
<1>11. MetaOK(t)' /\ StackOK(t)'
  BY <1>1, <1>2, <1>3, <1>5, <1>7, <1>8 DEF MetaOK, StackOK, Guarded, Owns
<1>12. FrameOK(t)'
  BY <1>1, <1>2, <1>5, <1>7 DEF FrameOK, PtrOK, NewOK, CopyOK, Mapping
<1>13. ASSUME NEW r \in Regions, own'[r] = t  PROVE r \in Moving(t)' \cup Current(t)'
  <2>1. r \in {p, meta[p].area}
    BY <1>4, <1>6, <1>8, <1>13
  <2>2. Current(t)' = {p, meta[p].area}
    BY <1>1, <1>2, <1>5, <1>7, <1>8 DEF Current, Standing, At
  <2> QED
    BY <2>1, <2>2
<1> QED
  BY <1>1, <1>2, <1>7, <1>9, <1>10, <1>11, <1>12, <1>13, CallInv DEF tables

LEMMA ClearStep ==
  ASSUME IInv, NEW t \in Threads, Clear(t)
  PROVE  IInv' /\ Local(t)
<1> DEFINE p == gs[t]
<1>1. Inside(t) /\ Top(t).pc = "clear"
  BY AtInside DEF Clear
<1>2. /\ base[t] \in {"run", "exit"} /\ Standing(t) /\ Top(t).ptr = p /\ p \notin ro
      /\ p \in Regions /\ own[p] = t /\ meta[p].self = p /\ meta[p].ready
      /\ signals \in 0 .. MaxSignals /\ None \notin Regions /\ meta[p] \in MetaType
  BY <1>1, InCall DEF PtrOK
<1>3. Owns(t, meta[p].area) /\ meta[p].diff = meta[p].area /\ meta[p].area # p
  BY <1>1, InCallStack
<1> DEFINE m == [meta[p] EXCEPT !.busy = FALSE]
<1>5. /\ Proceed(t, "protect") /\ meta' = [meta EXCEPT ![p] = m]
      /\ UNCHANGED <<own, ro, gs, base, loc, round, info, lock, scan, lost, hook, signals, fault>>
  BY <1>1, <1>2, AtInside DEF Clear, tables, closed
<1>6. /\ CallsOK(t) /\ Inside(t)' /\ Top(t)'.pc = "protect" /\ Top(t)'.ptr = p
  BY <1>1, <1>2, <1>5, ProceedFacts DEF Pcs
<1>7. /\ m \in MetaType /\ m.self = p /\ m.ready /\ ~m.busy /\ m.area = meta[p].area
      /\ m.diff = meta[p].area
  BY <1>2, <1>3, MetaEdits DEF MetaType
<1> HIDE DEF m
<1>8. PagesOK(t) /\ GsOK(t) /\ meta'[p] = m
  <2>1. p \in Regions /\ own[p] = t /\ p \notin ro /\ m \in MetaType
    BY <1>2, <1>7
  <2>2. meta' = [meta EXCEPT ![p] = m] /\ UNCHANGED <<own, ro>>
    BY <1>5
  <2>3. PagesOK(t) /\ meta'[p] = m
    BY <2>1, <2>2, WritePage, ZenonT(30)
  <2> QED
    BY <1>5, <2>3, SameGs
<1>9. MetaOK(t)' /\ StackOK(t)'
  BY <1>2, <1>3, <1>5, <1>6, <1>7, <1>8 DEF MetaOK, StackOK, Guarded, Owns
<1>10. FrameOK(t)'
  BY <1>2, <1>5, <1>6 DEF FrameOK, PtrOK, NewOK, CopyOK, Mapping
<1>11. ASSUME NEW r \in Regions, own'[r] = t  PROVE r \in Moving(t)' \cup Current(t)'
  <2>1. r \in {p, meta[p].area}
    BY <1>1, <1>5, <1>11, InCallMine DEF Moving, Current
  <2>2. Current(t)' = {p, meta[p].area}
    BY <1>2, <1>5, <1>6, <1>7, <1>8 DEF Current, Standing, At
  <2> QED
    BY <2>1, <2>2
<1> QED
  BY <1>2, <1>5, <1>6, <1>8, <1>9, <1>10, <1>11, CallInv DEF tables

LEMMA ProtectStep ==
  ASSUME IInv, NEW t \in Threads, Protect(t)
  PROVE  IInv' /\ Local(t)
<1> DEFINE p == gs[t]
<1>1. /\ Inside(t) /\ Top(t).pc = "protect" /\ Pop(t)
      /\ \/ Top(t).ptr = p /\ ro' = ro \cup {r \in {Top(t).ptr} : own[r] # None}
         \/ ro' = ro
      /\ UNCHANGED <<own, meta, gs, base, loc, round, info, lock, scan, lost, hook, signals, fault>>
  BY AtInside DEF Protect, ProtectedBy, tables
<1>2. /\ base[t] \in {"run", "exit"} /\ Standing(t)
      /\ p \in Regions /\ own[p] = t /\ meta[p].self = p /\ meta[p].ready /\ ~meta[p].busy
      /\ signals \in 0 .. MaxSignals
  BY <1>1, InCall DEF Guarded
<1>3. Owns(t, meta[p].area) /\ meta[p].diff = meta[p].area /\ meta[p].area # p
  BY <1>1, InCallStack
<1>4. Types /\ ClosedInUse /\ None \notin Threads
  BY Rest, FsGsConstants DEF FsGsAssumption
<1>5. ro' = ro \cup {p} \/ ro' = ro
  BY <1>1, <1>2, <1>4
<1>6. CallsOK(t) /\ (Inside(t)' => Top(t)'.pc = "protect" /\ "protect" \in SignalPlaces)
  BY <1>1, <1>4, PopFacts DEF CallsOK
<1>7. PagesOK(t)
  BY <1>1, <1>2, <1>4, <1>5 DEF PagesOK, ClosedInUse, Keeps, Types
<1>8. GsOK(t)
  BY <1>1, SameGs
<1>9. MetaOK(t)' /\ StackOK(t)'
  BY <1>1, <1>2, <1>3, <1>5, <1>6 DEF MetaOK, StackOK, Owns, Guarded
<1>11. FrameOK(t)'
  BY <1>6 DEF FrameOK, PtrOK, NewOK, CopyOK, Mapping
<1>10. ASSUME NEW r \in Regions, own'[r] = t  PROVE r \in Moving(t)' \cup Current(t)'
  <2>1. r \in {p, meta[p].area}
    BY <1>1, <1>10, InCallMine DEF Moving, Current
  <2>2. Current(t)' = {p, meta[p].area}
    BY <1>1, <1>2, <1>6 DEF Current, Standing, At, Inside
  <2> QED
    BY <2>1, <2>2
<1> QED
  BY <1>1, <1>2, <1>6, <1>7, <1>8, <1>9, <1>10, <1>11, CallInv DEF tables

-----------------------------------------------------------------------------
(* Exit, the table and the cleaner.                                          *)

\* The end of a thread's routine and the rounds of destructors write no page.
LEMMA ExitLocal ==
  ASSUME IInv, NEW t \in Threads, ~Inside(t),
         base[t] \in {"run", "exit", "release"}, base'[t] \in {"exit", "release", "store"},
         base' \in [Threads -> Bases], \A u \in Threads \ {t} : base'[u] = base[u],
         UNCHANGED <<memory, gs, call, info, lost>>,
         loc' \in [Threads -> LocType], \A u \in Threads \ {t} : loc'[u] = loc[u],
         \A u \in Threads \ {t} : round'[u] = round[u],
         base'[t] \in {"release", "store"} => round'[t] = Iterations,
         base'[t] = "store" => loc'[t].meta = gs[t] /\ loc'[t].area = meta[gs[t]].area,
         Counters'
  PROVE  IInv' /\ Local(t)
<1>1. Types /\ ThreadOK(t) /\ ClosedInUse
  BY Rest
<1>2. Standing(t) /\ Standing(t)' /\ Current(t)' = Current(t) /\ ~Inside(t)'
  BY DEF Standing, Current, At, Inside, memory, closed
<1>3. Local(t)
  BY DEF Local, Keeps, Idle, memory, closed
<1>4. Types'
  BY <1>1, SameCalls DEF Types, memory, closed
<1>5. ClosedInUse'
  BY <1>1 DEF ClosedInUse, memory, closed
<1>6. ThreadOK(t)'
  <2>1. BaseOK(t)'
    BY <1>2 DEF BaseOK, memory, closed
  <2>2. MetaOK(t)'
    BY <1>1, <1>2 DEF ThreadOK, MetaOK, memory, closed
  <2>3. StackOK(t)'
    BY <1>1, <1>2 DEF ThreadOK, StackOK, memory, closed, Owns, At, Inside
  <2>4. \A r \in Regions : own[r] = t => r \in Current(t)
    BY <1>1, Outside DEF ThreadOK, Accounted, Mine, Started, Recorded
  <2>5. Accounted(t)'
    BY <1>2, <2>4 DEF Accounted, Mine, memory, closed
  <2> QED
    BY <1>2, <2>1, <2>2, <2>3, <2>5, OutsideNext DEF ThreadOK
<1> QED
  BY <1>3, <1>4, <1>5, <1>6, LocalInv

LEMMA ThreadReturnStep ==
  ASSUME IInv, NEW t \in Threads, ThreadReturn(t)
  PROVE  IInv' /\ Local(t)
<1>1. /\ base[t] = "run" /\ ~Inside(t) /\ base' = [base EXCEPT ![t] = "exit"]
      /\ UNCHANGED <<memory, gs, call, loc, round, info, lock, scan, lost, hook, signals, fault>>
  BY DEF ThreadReturn, InBase, Goto, Inside, tables
<1>2. Types
  BY Rest
<1>3. base' \in [Threads -> Bases] /\ base'[t] = "exit"
      /\ \A u \in Threads \ {t} : base'[u] = base[u]
  BY <1>1, <1>2 DEF Types, Bases
<1>4. loc' \in [Threads -> LocType]
  BY <1>1, <1>2 DEF Types
<1>5. Counters'
  BY <1>1, KeepsCounters
<1> QED
  BY <1>1, <1>3, <1>4, <1>5, ExitLocal

LEMMA CleanupHandlerStep ==
  ASSUME IInv, NEW t \in Threads, CleanupHandler(t)
  PROVE  IInv' /\ Local(t)
<1>1. /\ base[t] = "exit" /\ ~Inside(t)
      /\ UNCHANGED <<memory, gs, call, loc, info, lock, scan, lost, hook, signals, fault>>
  BY DEF CleanupHandler, InBase, Inside, tables
<1>2. Types /\ Counters
  BY Rest
<1>3. loc' \in [Threads -> LocType] /\ \A u \in Threads \ {t} : loc'[u] = loc[u]
  BY <1>1, <1>2 DEF Types
<1>4. CASE Rearm(round[t])
  <2>1. round' = [round EXCEPT ![t] = @ + 1] /\ base' = base
    BY <1>4 DEF CleanupHandler
  <2>2. round[t] + 1 \in 0 .. Iterations
    BY <1>2, <1>4, FsGsConstants DEF Rearm, Counters, FsGsAssumption
  <2>3. Counters' /\ \A u \in Threads \ {t} : round'[u] = round[u]
    BY <1>1, <1>2, <2>1, <2>2 DEF Counters
  <2>4. base' \in [Threads -> Bases] /\ base'[t] = "exit"
        /\ \A u \in Threads \ {t} : base'[u] = base[u]
    BY <1>1, <1>2, <2>1 DEF Types
  <2> QED
    BY <1>1, <1>3, <2>3, <2>4, ExitLocal
<1>5. CASE ~Rearm(round[t])
  <2>1. round' = round /\ base' = [base EXCEPT ![t] = "release"]
    BY <1>5 DEF CleanupHandler, Goto
  <2>2. round[t] = Iterations
    BY <1>2, <1>5, FsGsConstants DEF Rearm, Counters, FsGsAssumption
  <2>3. Counters'
    BY <1>1, <2>1, KeepsCounters
  <2>4. base' \in [Threads -> Bases] /\ base'[t] = "release"
        /\ \A u \in Threads \ {t} : base'[u] = base[u]
    BY <1>2, <2>1 DEF Types, Bases
  <2> QED
    BY <1>1, <1>3, <2>1, <2>2, <2>3, <2>4, ExitLocal
<1> QED
  BY <1>4, <1>5

LEMMA ReleaseStep ==
  ASSUME IInv, NEW t \in Threads, Release(t)
  PROVE  IInv' /\ Local(t)
<1> DEFINE p == gs[t]
<1>1. base[t] = "release" /\ ~Inside(t)
  BY DEF Release, InBase, Inside
<1>2. Types /\ Counters /\ ThreadOK(t) /\ None \notin Regions
  BY Rest, FsGsConstants DEF FsGsAssumption
<1>3. p \in Regions /\ own[p] = t /\ meta[p].self = p /\ round[t] = Iterations
      /\ Owns(t, meta[p].area)
  BY <1>1, <1>2, AtInside DEF ThreadOK, BaseOK, MetaOK, StackOK, Standing
<1>4. Readable(t, p)
  BY <1>2, <1>3 DEF Readable
<1> DEFINE l == [meta |-> meta[p].self, area |-> meta[p].area, slot |-> 0]
<1>5. /\ lock' = t /\ loc' = [loc EXCEPT ![t] = l] /\ base' = [base EXCEPT ![t] = "store"]
      /\ UNCHANGED <<memory, gs, call, round, info, scan, lost, hook, signals, fault>>
  BY <1>4 DEF Release, Goto
<1>6. l \in LocType /\ l.meta = p /\ l.area = meta[p].area
  BY <1>3 DEF LocType, MaybeRegion, Owns
<1> HIDE DEF l
<1>7. loc' \in [Threads -> LocType] /\ loc'[t] = l /\ \A u \in Threads \ {t} : loc'[u] = loc[u]
  BY <1>2, <1>5, <1>6 DEF Types
<1>8. base' \in [Threads -> Bases] /\ base'[t] = "store"
      /\ \A u \in Threads \ {t} : base'[u] = base[u]
  BY <1>2, <1>5 DEF Types, Bases
<1>9. Counters'
  BY <1>2, <1>5 DEF Counters
<1> QED
  BY <1>1, <1>3, <1>5, <1>6, <1>7, <1>8, <1>9, ExitLocal

\* A thread that is past its calls and its exit says no more than what it is charged for.
LEMMA GoneOK ==
  ASSUME NEW t \in Threads, ~Inside(t)', base'[t] = "gone", Accounted(t)'
  PROVE  ThreadOK(t)'
<1>1. BaseOK(t)' /\ MetaOK(t)' /\ StackOK(t)'
  BY DEF BaseOK, MetaOK, StackOK, Standing
<1> QED
  BY <1>1, OutsideNext DEF ThreadOK

LEMMA EntryFacts ==
  ASSUME IInv, NEW i \in Slots, info[i].valid
  PROVE  /\ info[i].tid \in Threads /\ info[i].meta \in Regions /\ info[i].area \in Regions
         /\ own[info[i].meta] = info[i].tid /\ own[info[i].area] = info[i].tid
         /\ base[info[i].tid] \in {"end", "gone"}
         /\ base[info[i].tid] = "end" =>
               info[i].meta = gs[info[i].tid] /\ info[i].area = meta[gs[info[i].tid]].area
         /\ info[i].ripe => base[info[i].tid] = "gone"
         /\ \A j \in Slots : info[j].valid /\ i # j => info[i].tid # info[j].tid
<1>1. EntryOK(i) /\ OneEntry
  BY Rest DEF Table
<1> QED
  BY <1>1 DEF EntryOK, OneEntry

\* The thread's mappings go from it to its entry, or the table is full.
LEMMA StoreStep ==
  ASSUME IInv, NEW t \in Threads, Store(t)
  PROVE  IInv'
<1>1. /\ base[t] = "store" /\ ~Inside(t) /\ base' = [base EXCEPT ![t] = "end"]
      /\ lock' = None /\ loc' = [loc EXCEPT ![t] = NoLocals]
      /\ UNCHANGED <<memory, gs, call, round, scan, hook, signals, fault>>
  BY DEF Store, InBase, Goto, Inside
<1>2. Types /\ Counters /\ ThreadOK(t) /\ ClosedInUse /\ Table
  BY Rest
<1>3. /\ gs[t] \in Regions /\ own[gs[t]] = t /\ round[t] = Iterations
      /\ Owns(t, meta[gs[t]].area)
      /\ loc[t].meta = gs[t] /\ loc[t].area = meta[gs[t]].area
  BY <1>1, <1>2, AtInside DEF ThreadOK, BaseOK, MetaOK, StackOK, Standing
<1>4. /\ base' \in [Threads -> Bases] /\ base'[t] = "end"
      /\ \A u \in Threads \ {t} : base'[u] = base[u] /\ loc'[u] = loc[u]
      /\ loc' \in [Threads -> LocType]
  BY <1>1, <1>2, RecordTypes DEF Types, Bases
<1>5. \A i \in Slots : info[i].valid => info[i].tid # t
  BY <1>1, EntryFacts
<1> DEFINE e == [valid |-> TRUE, meta |-> loc[t].meta, area |-> loc[t].area, tid |-> t,
                 ripe |-> FALSE]
<1>6. \/ \E i \in Slots : ~info[i].valid /\ info' = [info EXCEPT ![i] = e] /\ lost' = lost
      \/ lost' = lost \cup {t} /\ info' = info
  BY DEF Store
<1>7. /\ e \in EntryType /\ e.valid /\ ~e.ripe /\ e.tid = t
      /\ e.meta = gs[t] /\ e.area = meta[gs[t]].area
  BY <1>3 DEF EntryType, MaybeRegion, Owns
<1> HIDE DEF e
<1>8. info' \in [Slots -> EntryType] /\ lost' \subseteq Threads
  BY <1>2, <1>6, <1>7 DEF Types
<1>9. Types'
  BY <1>1, <1>2, <1>4, <1>8, SameCalls DEF Types, memory, closed
<1>10. Counters' /\ ClosedInUse'
  BY <1>1, <1>2 DEF Counters, ClosedInUse, memory, closed
<1>11. ASSUME NEW u \in Threads \ {t}  PROVE ThreadOK(u)'
  <2>1. Keeps(u) /\ Idle(u)
    BY <1>1, <1>4 DEF Keeps, Idle, memory, closed
  <2>2. SameEntries(u)
    <3>1. u \in lost' <=> u \in lost
      BY <1>6
    <3>2. ASSUME NEW i \in Slots
          PROVE  /\ info'[i].valid /\ info'[i].tid = u <=> info[i].valid /\ info[i].tid = u
                 /\ info[i].valid /\ info[i].tid = u =>
                       info'[i].meta = info[i].meta /\ info'[i].area = info[i].area
      BY <1>2, <1>6, <1>7, <3>2 DEF Types
    <3> QED
      BY <3>1, <3>2 DEF SameEntries
  <2> QED
    BY <1>2, <2>1, <2>2, Rest, Undisturbed
<1>12. ThreadOK(t)'
  <2>1. Standing(t) /\ Standing(t)' /\ ~Inside(t)' /\ Current(t)' = Current(t)
    BY <1>1, <1>4 DEF Standing, Inside, Current, At, memory, closed
  <2>2. BaseOK(t)'
    BY <1>1, <1>3, <1>4, <2>1 DEF BaseOK
  <2>3. MetaOK(t)'
    BY <1>1, <1>2, <1>4, <2>1 DEF ThreadOK, MetaOK, memory, closed
  <2>4. StackOK(t)'
    BY <1>1, <1>2, <2>1 DEF ThreadOK, StackOK, Owns, At, Inside, memory, closed
  <2>5. \A r \in Regions : own[r] = t => r \in Current(t)
    BY <1>1, <1>2, Outside DEF ThreadOK, Accounted, Mine, Started, Recorded
  <2>6. Accounted(t)'
    BY <1>1, <2>1, <2>5 DEF Accounted, Mine, memory, closed
  <2> QED
    BY <2>1, <2>2, <2>3, <2>4, <2>6, OutsideNext DEF ThreadOK
<1>13. ASSUME NEW i \in Slots  PROVE EntryOK(i)'
  <2>1. CASE info'[i] = info[i]
    <3>1. EntryOK(i)
      BY <1>2 DEF Table
    <3> QED
      BY <1>1, <1>4, <1>5, <2>1, <3>1 DEF EntryOK, memory, closed
  <2>2. CASE info'[i] = e
    BY <1>1, <1>3, <1>4, <1>7, <2>2 DEF EntryOK, Owns, memory, closed
  <2> QED
    BY <1>2, <1>6, <2>1, <2>2 DEF Types
<1>14. OneEntry'
  <2>1. OneEntry
    BY <1>2 DEF Table
  <2> QED
    BY <1>2, <1>5, <1>6, <1>7, <2>1 DEF OneEntry, Types
<1>15. ASSUME NEW u \in Threads  PROVE EndRecorded(u)' /\ LostOK(u)'
  <2>1. EndRecorded(u) /\ LostOK(u)
    BY <1>2 DEF Table
  <2>2. CASE lost' = lost \cup {t} /\ info' = info
    BY <1>4, <1>5, <2>1, <2>2 DEF EndRecorded, LostOK
  <2>3. ASSUME NEW i \in Slots, ~info[i].valid, info' = [info EXCEPT ![i] = e], lost' = lost
        PROVE  EndRecorded(u)' /\ LostOK(u)'
    <3>1. info'[i] = e /\ \A j \in Slots \ {i} : info'[j] = info[j]
      BY <1>2, <2>3 DEF Types
    <3>2. EndRecorded(u)'
      BY <1>4, <1>7, <2>1, <2>3, <3>1 DEF EndRecorded
    <3>3. t \notin lost
      BY <1>1, <1>2 DEF Table, LostOK
    <3>4. LostOK(u)'
      BY <1>4, <1>7, <2>1, <2>3, <3>1, <3>3 DEF LostOK
    <3> QED
      BY <3>2, <3>4
  <2> QED
    BY <1>6, <2>2, <2>3
<1> QED
  BY <1>9, <1>10, <1>11, <1>12, <1>13, <1>14, <1>15 DEF IInv, Table

LEMMA ThreadEndStep ==
  ASSUME IInv, NEW t \in Threads, ThreadEnd(t)
  PROVE  IInv'
<1>1. /\ base[t] = "end" /\ ~Inside(t) /\ base' = [base EXCEPT ![t] = "gone"]
      /\ gs' = [gs EXCEPT ![t] = None]
      /\ UNCHANGED <<own, ro, meta, call, loc, round, info, lock, scan, lost, hook, signals, fault>>
  BY DEF ThreadEnd, InBase, Goto, Inside, memory, closed, tables
<1>2. Types /\ Counters /\ ThreadOK(t) /\ ClosedInUse /\ Table
  BY Rest
<1>3. /\ base' \in [Threads -> Bases] /\ base'[t] = "gone"
      /\ gs' \in [Threads -> MaybeRegion]
      /\ \A u \in Threads \ {t} : base'[u] = base[u] /\ gs'[u] = gs[u]
  BY <1>1, <1>2 DEF Types, Bases, MaybeRegion
<1>4. Types'
  BY <1>1, <1>2, <1>3, SameCalls DEF Types
<1>5. Counters' /\ ClosedInUse'
  BY <1>1, <1>2 DEF Counters, ClosedInUse
<1>6. ASSUME NEW u \in Threads \ {t}  PROVE ThreadOK(u)'
  <2>1. Keeps(u) /\ Idle(u) /\ SameEntries(u)
    BY <1>1, <1>3 DEF Keeps, Idle, SameEntries
  <2> QED
    BY <1>2, <2>1, Rest, Undisturbed
<1>7. ThreadOK(t)'
  <2>1. ~Inside(t)'
    BY <1>1 DEF Inside
  <2>2. ASSUME t \notin lost, NEW r \in Regions, own[r] = t  PROVE r \in Recorded(t)'
    <3>1. r \in {gs[t], meta[gs[t]].area}
      BY <1>1, <1>2, <2>2, Outside DEF ThreadOK, Accounted, Mine, Started, Recorded, Current, Standing
    <3>2. PICK i \in Slots : info[i].valid /\ info[i].tid = t
      BY <1>1, <1>2, <2>2 DEF Table, EndRecorded
    <3>3. r \in {info[i].meta, info[i].area}
      BY <1>1, <3>1, <3>2, EntryFacts
    <3>4. i \in {j \in Slots : info'[j].valid /\ info'[j].tid = t} /\ r \in {info'[i].meta, info'[i].area}
      BY <1>1, <3>2, <3>3
    <3> QED
      BY <1>3, <3>4 DEF Recorded
  <2>3. Accounted(t)'
    BY <1>1, <1>3, <2>2 DEF Accounted, Mine
  <2> QED
    BY <1>3, <2>1, <2>3, GoneOK
<1>8. ASSUME NEW i \in Slots  PROVE EntryOK(i)'
  <2>1. EntryOK(i)
    BY <1>2 DEF Table
  <2> QED
    BY <1>1, <1>3, <2>1 DEF EntryOK
<1>9. OneEntry'
  BY <1>1, <1>2 DEF Table, OneEntry
<1>10. ASSUME NEW u \in Threads  PROVE EndRecorded(u)' /\ LostOK(u)'
  <2>1. EndRecorded(u) /\ LostOK(u)
    BY <1>2 DEF Table
  <2> QED
    BY <1>1, <1>3, <2>1 DEF EndRecorded, LostOK
<1> QED
  BY <1>4, <1>5, <1>6, <1>7, <1>8, <1>9, <1>10 DEF IInv, Table

\* Steps that leave the threads and what the table records alone.
LEMMA QuietStep ==
  ASSUME IInv, UNCHANGED <<memory, gs, base, call, loc, round, lost>>,
         info' \in [Slots -> EntryType], \A i \in Slots : EntryOK(i)',
         \A i \in Slots : /\ info'[i].valid = info[i].valid /\ info'[i].tid = info[i].tid
                          /\ info'[i].meta = info[i].meta /\ info'[i].area = info[i].area,
         Counters'
  PROVE  IInv'
<1>1. Types /\ ClosedInUse /\ Table
  BY Rest
<1>2. Types'
  BY <1>1, SameCalls DEF Types, memory, closed
<1>3. ClosedInUse'
  BY <1>1 DEF ClosedInUse, memory, closed
<1>4. ASSUME NEW u \in Threads  PROVE ThreadOK(u)'
  <2>1. Keeps(u) /\ Idle(u) /\ SameEntries(u)
    BY DEF Keeps, Idle, SameEntries, memory, closed
  <2> QED
    BY <1>1, <2>1, Rest, Undisturbed
<1>5. OneEntry'
  BY <1>1 DEF Table, OneEntry
<1>6. ASSUME NEW u \in Threads  PROVE EndRecorded(u)' /\ LostOK(u)'
  <2>1. EndRecorded(u) /\ LostOK(u)
    BY <1>1 DEF Table
  <2> QED
    BY <2>1 DEF EndRecorded, LostOK
<1> QED
  BY <1>2, <1>3, <1>4, <1>5, <1>6 DEF IInv, Table

LEMMA ExpireStep ==
  ASSUME IInv, NEW i \in Slots, Expire(i)
  PROVE  IInv'
<1>1. /\ info[i].valid /\ base[info[i].tid] = "gone"
      /\ info' = [info EXCEPT ![i].ripe = TRUE]
      /\ UNCHANGED <<memory, gs, base, call, loc, round, lock, scan, lost, hook, signals, fault>>
  BY DEF Expire
<1>2. Types /\ Table
  BY Rest
<1>3. /\ info' \in [Slots -> EntryType]
      /\ info'[i].ripe /\ \A j \in Slots \ {i} : info'[j] = info[j]
      /\ \A j \in Slots : /\ info'[j].valid = info[j].valid /\ info'[j].tid = info[j].tid
                          /\ info'[j].meta = info[j].meta /\ info'[j].area = info[j].area
  BY <1>1, <1>2 DEF Types, EntryType
<1>4. Counters'
  BY <1>1, KeepsCounters
<1>5. ASSUME NEW j \in Slots  PROVE EntryOK(j)'
  <2>1. EntryOK(j)
    BY <1>2 DEF Table
  <2> QED
    BY <1>1, <1>3, <2>1 DEF EntryOK, memory, closed
<1> QED
  BY <1>1, <1>3, <1>4, <1>5, QuietStep

LEMMA CleanerIdle ==
  ASSUME IInv, UNCHANGED <<memory, gs, base, call, loc, round, lost, info, hook, signals, fault>>,
         lock' \in Threads \cup {None, "cleaner"}, scan' \in 0 .. Capacity + 1
  PROVE  IInv'
<1>1. Types /\ Table /\ Counters
  BY Rest
<1>2. info' \in [Slots -> EntryType] /\ Counters'
  BY <1>1 DEF Types, Counters
<1>3. ASSUME NEW j \in Slots  PROVE EntryOK(j)'
  <2>1. EntryOK(j)
    BY <1>1 DEF Table
  <2> QED
    BY <2>1 DEF EntryOK, memory, closed
<1> QED
  BY <1>2, <1>3, QuietStep

\* The two munmaps: the pages of one entry, of a thread that is gone.
LEMMA UnmapEntry ==
  ASSUME IInv, NEW i \in Slots, info[i].valid, info[i].ripe,
         own' = [r \in Regions |-> IF r \in UnmappedBy(info[i]) THEN None ELSE own[r]],
         meta' = [r \in Regions |-> IF r \in UnmappedBy(info[i]) THEN ZeroMeta ELSE meta[r]],
         ro' = ro \ UnmappedBy(info[i]),
         info' = [info EXCEPT ![i] = NoEntry],
         UNCHANGED <<gs, base, call, loc, round, lost>>, Counters'
  PROVE  IInv'
<1>0. PICK w \in Threads : w = info[i].tid
  BY EntryFacts
<1> DEFINE a == info[i].area
<1> DEFINE b == info[i].meta
<1>1. Types /\ ClosedInUse /\ Table /\ None \notin Threads
  BY Rest, FsGsConstants DEF FsGsAssumption
<1>2. /\ w \in Threads /\ a \in Regions /\ b \in Regions /\ own[a] = w /\ own[b] = w
      /\ base[w] = "gone" /\ \A j \in Slots : info[j].valid /\ i # j => w # info[j].tid
  BY <1>0, EntryFacts
<1>3. UnmappedBy(info[i]) = {a, b}
  BY DEF UnmappedBy
<1>4. /\ \A r \in Regions : /\ r \in {a, b} => own'[r] = None
                            /\ r \notin {a, b} => own'[r] = own[r] /\ meta'[r] = meta[r]
      /\ \A r \in Regions : r \in ro' <=> r \in ro /\ r \notin {a, b}
  BY <1>3
<1>5. ~info'[i].valid /\ info'[i] = NoEntry /\ \A j \in Slots \ {i} : info'[j] = info[j]
  BY <1>1, RecordFacts DEF Types
<1> HIDE DEF a, b
<1>6. Types'
  <2>1. own' \in [Regions -> Threads \cup {None}] /\ ro' \subseteq Regions
    BY <1>1 DEF Types
  <2>2. meta' \in [Regions -> MetaType]
    BY <1>1, MetaTypes DEF Types
  <2>3. info' \in [Slots -> EntryType]
    BY <1>1, RecordTypes DEF Types
  <2> QED
    BY <1>1, <2>1, <2>2, <2>3, SameCalls DEF Types
<1>7. ClosedInUse'
  BY <1>1, <1>4, <1>6 DEF ClosedInUse, Types
<1>8. ASSUME NEW u \in Threads \ {w}  PROVE Keeps(u)
  BY <1>1, <1>2, <1>4 DEF Keeps
<1>9. ASSUME NEW u \in Threads \ {w}  PROVE ThreadOK(u)'
  <2>1. Idle(u)
    BY DEF Idle
  <2>2. SameEntries(u)
    BY <1>0, <1>2, <1>5 DEF SameEntries
  <2> QED
    BY <1>1, <1>8, <2>1, <2>2, Rest, Undisturbed
<1>10. ThreadOK(w)'
  <2>1. ~Inside(w)' /\ base'[w] = "gone"
    <3>1. ~Inside(w)
      BY <1>2, Rest DEF ThreadOK, BaseOK
    <3>2. base' = base /\ call' = call
      OBVIOUS
    <3> QED
      BY <1>2, <3>1, <3>2 DEF Inside
  <2>2. ASSUME w \notin lost, NEW r \in Regions, own[r] = w  PROVE r \in {a, b}
    <3>1. ~Inside(w) /\ ThreadOK(w)
      BY <1>2, Rest DEF ThreadOK, BaseOK
    <3>2. r \in Recorded(w)
      BY <1>2, <2>2, <3>1, Outside DEF ThreadOK, Accounted, Mine, Started, Current, Standing
    <3>3. PICK j \in Slots : info[j].valid /\ info[j].tid = w /\ r \in {info[j].meta, info[j].area}
      BY <1>2, <3>2 DEF Recorded
    <3>4. j = i
      BY <1>0, <1>2, <3>3
    <3> QED
      BY <3>3, <3>4 DEF a, b
  <2>3. Accounted(w)'
    <3>1. lost' = lost
      OBVIOUS
    <3>2. w \notin lost => \A r \in Regions : own'[r] # w
      BY <1>1, <1>2, <1>4, <2>2
    <3> QED
      BY <2>1, <3>1, <3>2 DEF Accounted
  <2>4. w \in Threads
    BY <1>2
  <2> QED
    BY <2>1, <2>3, <2>4, GoneOK
<1>11. ASSUME NEW j \in Slots  PROVE EntryOK(j)'
  <2>1. EntryOK(j)
    BY <1>1 DEF Table
  <2>2. CASE j = i
    BY <1>5, <2>2 DEF EntryOK
  <2>3. CASE j # i /\ ~info[j].valid
    BY <1>5, <2>1, <2>3 DEF EntryOK
  <2>4. CASE j # i /\ info[j].valid
    <3>1. info[j].tid \in Threads \ {w} /\ info'[j] = info[j]
      BY <1>2, <1>5, <2>4, EntryFacts
    <3>2. Keeps(info[j].tid)
      BY <1>8, <3>1
    <3>3. base[info[j].tid] = "end" => gs[info[j].tid] \in Regions /\ own[gs[info[j].tid]] = info[j].tid
      BY <3>1, Rest DEF ThreadOK, MetaOK, Standing
    <3> QED
      BY <2>1, <2>4, <3>1, <3>2, <3>3 DEF EntryOK, Keeps
  <2> QED
    BY <2>2, <2>3, <2>4
<1>12. OneEntry'
  BY <1>1, <1>5 DEF Table, OneEntry
<1>13. ASSUME NEW u \in Threads  PROVE EndRecorded(u)' /\ LostOK(u)'
  <2>1. EndRecorded(u) /\ LostOK(u)
    BY <1>1 DEF Table
  <2> QED
    BY <1>0, <1>2, <1>5, <2>1 DEF EndRecorded, LostOK
<1>14. Table'
  BY <1>11, <1>12, <1>13 DEF Table
<1>15. \A u \in Threads : ThreadOK(u)'
  BY <1>9, <1>10
<1>16. Counters'
  OBVIOUS
<1> QED
  BY <1>6, <1>7, <1>14, <1>15, <1>16 DEF IInv

LEMMA CleanerActionStep ==
  ASSUME IInv, CleanerAction
  PROVE  IInv'
<1>1. Counters /\ Types
  BY Rest
<1>2. 0 \in 0 .. Capacity + 1 /\ 1 \in 0 .. Capacity + 1
  BY FsGsConstants DEF FsGsAssumption
<1>3. CASE CleanerLock
  BY <1>2, <1>3, CleanerIdle DEF CleanerLock
<1>4. CASE CleanerUnlock
  BY <1>2, <1>4, CleanerIdle DEF CleanerUnlock
<1>5. CASE CleanerStep
  <2>1. /\ scan \in Slots /\ scan' = scan + 1
        /\ UNCHANGED <<gs, base, call, loc, round, lock, lost, hook, signals, fault>>
    BY <1>5 DEF CleanerStep
  <2>2. scan' \in 0 .. Capacity + 1
    BY <2>1, FsGsConstants DEF Slots, FsGsAssumption
  <2>3. Counters'
    BY <1>1, <2>1, <2>2 DEF Counters
  <2>4. CASE info[scan].valid /\ info[scan].ripe
    <3> DEFINE i == scan
    <3>1. /\ own' = [r \in Regions |-> IF r \in UnmappedBy(info[i]) THEN None ELSE own[r]]
          /\ meta' = [r \in Regions |-> IF r \in UnmappedBy(info[i]) THEN ZeroMeta ELSE meta[r]]
          /\ ro' = ro \ UnmappedBy(info[i])
          /\ info' = [info EXCEPT ![i] = NoEntry]
      BY <1>5, <2>4 DEF CleanerStep
    <3>2. i \in Slots /\ info[i].valid /\ info[i].ripe
      BY <2>1, <2>4
    <3> HIDE DEF i
    <3> QED
      BY <2>1, <2>3, <3>1, <3>2, UnmapEntry
  <2>5. CASE ~(info[scan].valid /\ info[scan].ripe)
    <3>1. UNCHANGED <<memory, info>>
      BY <1>5, <2>5 DEF CleanerStep
    <3>2. lock' \in Threads \cup {None, "cleaner"}
      BY <1>1, <2>1 DEF Counters
    <3> QED
      BY <2>1, <2>2, <3>1, <3>2, CleanerIdle
  <2> QED
    BY <2>4, <2>5
<1> QED
  BY <1>3, <1>4, <1>5 DEF CleanerAction

-----------------------------------------------------------------------------
(* The invariant, and what it says.                                          *)

LEMMA InitInv ==
  ASSUME Init
  PROVE  IInv
<1>1. Main \in Threads /\ None \notin Threads \cup Regions
  BY FsGsConstants DEF FsGsAssumption
<1>2. Types
  <2>1. loc \in [Threads -> LocType] /\ info \in [Slots -> EntryType] /\ meta \in [Regions -> MetaType]
    BY RecordTypes, MetaTypes DEF Init
  <2>2. base \in [Threads -> Bases]
    BY DEF Init, Bases
  <2>3. DOMAIN call = Threads /\ \A t \in Threads : CallsWait(t)
    BY DEF Init, CallsWait
  <2> QED
    BY <2>1, <2>2, <2>3 DEF Init, Types, MaybeRegion
<1>3. Counters
  <2>1. 0 \in 0 .. Iterations /\ 0 \in 0 .. Capacity + 1 /\ 0 \in 0 .. MaxSignals
    BY FsGsConstants DEF FsGsAssumption
  <2> QED
    BY <2>1 DEF Init, Counters
<1>4. ClosedInUse
  BY DEF Init, ClosedInUse
<1>5. ASSUME NEW t \in Threads  PROVE ThreadOK(t)
  <2>1. base[t] \in {"new", "none"} /\ ~Inside(t)
    BY DEF Init, Inside
  <2>2. BaseOK(t) /\ MetaOK(t) /\ StackOK(t) /\ FrameOK(t)
    BY <2>1 DEF BaseOK, MetaOK, StackOK, FrameOK, Standing
  <2>3. Accounted(t)
    BY <1>1 DEF Init, Accounted
  <2> QED
    BY <2>2, <2>3 DEF ThreadOK
<1>6. Table
  <2>1. \A i \in Slots : info[i] = NoEntry /\ ~info[i].valid
    BY RecordFacts DEF Init
  <2>2. \A t \in Threads : base[t] # "end" /\ t \notin lost
    BY DEF Init
  <2> QED
    BY <2>1, <2>2 DEF Table, EntryOK, OneEntry, EndRecorded, LostOK
<1> QED
  BY <1>2, <1>3, <1>4, <1>5, <1>6 DEF IInv

LEMMA StutterInv ==
  ASSUME IInv, UNCHANGED vars
  PROVE  IInv'
<1>1. Types /\ Table /\ Counters
  BY Rest
<1>2. info' \in [Slots -> EntryType] /\ Counters'
  BY <1>1 DEF Types, Counters, vars, tables
<1>3. ASSUME NEW j \in Slots  PROVE EntryOK(j)'
  <2>1. EntryOK(j)
    BY <1>1 DEF Table
  <2> QED
    BY <2>1 DEF EntryOK, vars, tables, memory, closed
<1> QED
  BY <1>2, <1>3, QuietStep DEF vars, tables

\* A crash changes nothing but fault, of which IInv knows the type.
LEMMA CrashStep ==
  ASSUME IInv, Crash
  PROVE  IInv'
<1>1. Types /\ Table /\ Counters
  BY Rest
<1>2. UNCHANGED <<memory, gs, base, call, loc, round, lost, info, lock, scan, hook, signals>>
  BY DEF Crash, tables
<1>3. info' \in [Slots -> EntryType] /\ Counters'
  BY <1>1, <1>2 DEF Types, Counters, Crash
<1>4. ASSUME NEW j \in Slots  PROVE EntryOK(j)'
  <2>1. EntryOK(j)
    BY <1>1 DEF Table
  <2> QED
    BY <1>2, <2>1 DEF EntryOK, memory, closed
<1> QED
  BY <1>2, <1>3, <1>4, QuietStep

LEMMA NextInv ==
  ASSUME SignalPlaces \subseteq GuardedPlaces, IInv, [Next]_vars
  PROVE  IInv'
<1>1. ASSUME NEW t \in Threads, OwnStep(t)  PROVE IInv'
  <2>1. CASE InitMeta(t) \/ InitArea(t) \/ InitPublish(t) \/ InitInfo(t)
    BY <2>1, InitMetaStep, InitAreaStep, InitPublishStep, InitInfoStep
  <2>2. CASE Unprotect(t) \/ SetBusy(t) \/ Period(t) \/ MapMeta(t) \/ MapArea(t)
    BY <2>2, UnprotectStep, SetBusyStep, PeriodStep, MapMetaStep, MapAreaStep
  <2>3. CASE Copy(t) \/ Remap(t) \/ SetGs(t) \/ Unmap(t) \/ Clear(t) \/ Protect(t)
    BY <2>3, CopyStep, RemapStep, SetGsStep, UnmapStep, ClearStep, ProtectStep
  <2>4. CASE CleanupHandler(t) \/ Store(t) \/ ThreadEnd(t)
    BY <2>4, CleanupHandlerStep, StoreStep, ThreadEndStep
  <2>5. CASE BadWrite(t)
    BY <2>5, CrashStep DEF BadWrite
  <2> QED
    BY <1>1, <2>1, <2>2, <2>3, <2>4, <2>5 DEF OwnStep
<1>2. ASSUME NEW t \in Threads,
             Release(t) \/ Create(t) \/ ThreadReturn(t) \/ HookedCall(t) \/ Signal(t)
      PROVE  IInv'
  BY <1>2, ReleaseStep, CreateStep, ThreadReturnStep, CallStep
<1>3. ASSUME NEW i \in Slots, Expire(i)  PROVE IInv'
  BY <1>3, ExpireStep
<1>4. ASSUME CleanerAction  PROVE IInv'
  BY <1>4, CleanerActionStep
<1>5. CASE UNCHANGED vars
  BY <1>5, StutterInv
<1> QED
  BY <1>1, <1>2, <1>3, <1>4, <1>5 DEF Next

\* Types, what gs, a call in flight and an entry lead to, and the account of every
\* mapping, in every reachable state, when handlers run in guarded places only (fsgs.c
\* 136-176, 289-309, 570-719).
THEOREM Inductive ==
  ASSUME SignalPlaces \subseteq GuardedPlaces
  PROVE  Spec => []IInv
<1>1. Init => IInv
  BY InitInv
<1>2. IInv /\ [Next]_vars => IInv'
  BY NextInv
<1> QED
  BY <1>1, <1>2, PTL DEF Spec

-----------------------------------------------------------------------------
(* What is closed, what is left open, and what faults.                       *)

\* A thread whose metadata can be written, and that no call has left so, is in a call that
\* is about to close them.
OpenOK(t) ==
    Standing(t) /\ gs[t] \notin ro /\ t \notin open =>
        Inside(t) /\ (Top(t).pc = "protect" => Top(t).ptr = gs[t])

WInv ==
    /\ stray \subseteq Regions /\ open \subseteq Threads
    /\ NoFault
    /\ "protect" \notin SignalPlaces => stray = {}
    /\ \A t \in Threads : OpenOK(t)

\* Steps outside the calls.
LEMMA OpenSame ==
  ASSUME WInv, stray' \subseteq stray, UNCHANGED <<open, call>>, NoFault',
         \A u \in Threads : Standing(u)' => /\ Standing(u) /\ gs'[u] = gs[u]
                                            /\ gs[u] \in ro => gs[u] \in ro'
  PROVE  WInv'
<1>1. ASSUME NEW u \in Threads  PROVE OpenOK(u)'
  BY DEF WInv, OpenOK, Inside, Top
<1> QED
  BY <1>1 DEF WInv

\* Steps of a call of t.
LEMMA OpenLocal ==
  ASSUME IInv, WInv, NEW t \in Threads, UNCHANGED base,
         \A u \in Threads \ {t} : call'[u] = call[u] /\ gs'[u] = gs[u] /\ (u \in open => u \in open'),
         stray' \subseteq Regions, open' \subseteq Threads,
         "protect" \notin SignalPlaces => stray' = {}, NoFault',
         \A r \in Regions : r \in ro /\ r \notin ro' => own[r] = t, OpenOK(t)'
  PROVE  WInv'
<1>1. ASSUME NEW u \in Threads \ {t}  PROVE OpenOK(u)'
  <2>1. Standing(u) /\ gs[u] \in ro => gs[u] \in ro'
    BY Rest DEF ThreadOK, MetaOK
  <2>2. OpenOK(u) /\ Standing(u)' = Standing(u) /\ Inside(u)' = Inside(u) /\ Top(u)' = Top(u)
    BY DEF WInv, Standing, Inside, Top
  <2> QED
    BY <2>1, <2>2 DEF OpenOK
<1> QED
  BY <1>1 DEF WInv

LEMMA OpenCalls ==
  ASSUME IInv, WInv, ~fault, NEW t \in Threads,
         \/ Unprotect(t) \/ SetBusy(t) \/ MapMeta(t) \/ MapArea(t) \/ Copy(t) \/ Remap(t)
         \/ SetGs(t) \/ Unmap(t) \/ Clear(t)
  PROVE  WInv'
<1> DEFINE f == Top(t)
<1>1. Types /\ stray \subseteq Regions /\ open \subseteq Threads
  BY Rest DEF WInv
<1>2. Inside(t) /\ At(t, f.pc)
  BY AtInside
     DEF Unprotect, SetBusy, MapMeta, MapArea, Copy, Remap, SetGs, Unmap, Clear
<1>3. /\ f \in FrameType /\ gs[t] \in Regions /\ PtrOK(t) /\ NewOK(t) /\ own[gs[t]] = t
  BY <1>2, InCall
<1>4. UNCHANGED <<base, open, fault>> /\ \A u \in Threads \ {t} : gs'[u] = gs[u]
  BY <1>1
     DEF Unprotect, SetBusy, MapMeta, MapArea, Copy, Remap, SetGs, Unmap, Clear, memory, closed,
         Types
<1>5. /\ CallsOK(t) /\ Inside(t)'
      /\ Top(t)'.pc = "protect" => Top(t)'.ptr = gs[t] /\ gs' = gs
  <2>1. CASE Unprotect(t)
    BY <1>2, <2>1, ProceedFacts DEF Unprotect, Pcs
  <2>2. CASE SetBusy(t)
    BY <1>2, <2>2, ProceedFacts DEF SetBusy, Pcs
  <2>3. CASE Copy(t)
    BY <1>2, <2>3, ProceedFacts DEF Copy, Pcs
  <2>4. CASE Remap(t)
    BY <1>2, <2>4, ProceedFacts DEF Remap, Pcs
  <2>5. CASE SetGs(t)
    BY <1>2, <2>5, ProceedFacts DEF SetGs, Pcs
  <2>6. CASE Clear(t)
    <3>1. f.pc = "clear" /\ Proceed(t, "protect") /\ gs' = gs
      BY <2>6 DEF Clear, At
    <3>2. f.ptr = gs[t]
      BY <1>3, <3>1 DEF PtrOK
    <3> QED
      BY <1>2, <3>1, <3>2, ProceedFacts DEF Pcs
  <2>7. CASE MapMeta(t) \/ MapArea(t) \/ Unmap(t)
    <3>1. PICK g \in FrameType : g.pc # "protect" /\ Step(t, g)
      <4>1. CASE MapMeta(t)
        <5>1. PICK r \in Regions : Step(t, [f EXCEPT !.pc = "maparea", !.new = r])
          BY <4>1 DEF MapMeta
        <5>2. /\ [f EXCEPT !.pc = "maparea", !.new = r] \in FrameType
              /\ [f EXCEPT !.pc = "maparea", !.new = r].pc # "protect"
          BY <1>3 DEF FrameType, Pcs, MaybeRegion
        <5> QED
          BY <5>1, <5>2
      <4>2. CASE MapArea(t)
        <5>1. PICK r \in Regions : Step(t, [f EXCEPT !.pc = "copy", !.area = r])
          BY <4>2 DEF MapArea
        <5>2. /\ [f EXCEPT !.pc = "copy", !.area = r] \in FrameType
              /\ [f EXCEPT !.pc = "copy", !.area = r].pc # "protect"
          BY <1>3 DEF FrameType, Pcs, MaybeRegion
        <5> QED
          BY <5>1, <5>2
      <4>3. CASE Unmap(t)
        <5>1. f.pc = "unmap" /\ Step(t, [f EXCEPT !.pc = "clear", !.ptr = PtrAfter(f)])
          BY <4>3 DEF Unmap, At
        <5>2. f.new \in Regions
          BY <1>3, <5>1 DEF PtrOK
        <5>3. /\ [f EXCEPT !.pc = "clear", !.ptr = PtrAfter(f)] \in FrameType
              /\ [f EXCEPT !.pc = "clear", !.ptr = PtrAfter(f)].pc # "protect"
          BY <1>3, <5>2 DEF FrameType, Pcs, MaybeRegion, PtrAfter
        <5> QED
          BY <5>1, <5>3
      <4> QED
        BY <2>7, <4>1, <4>2, <4>3
    <3>2. /\ Inside(t)' /\ Top(t)' = g /\ CallsWait(t)' /\ DOMAIN call' = Threads
          /\ \A u \in Threads \ {t} : call'[u] = call[u]
      BY <1>1, <1>2, <3>1, StepFacts
    <3> QED
      BY <3>1, <3>2 DEF CallsOK
  <2> QED
    BY <2>1, <2>2, <2>3, <2>4, <2>5, <2>6, <2>7
<1>6. /\ \A r \in Regions : r \in ro /\ r \notin ro' => own[r] = t
      /\ stray' \subseteq Regions /\ (stray = {} => stray' = {})
  <2>1. CASE Unprotect(t)
    <3>1. ro' = ro \ {f.ptr} /\ stray' = stray \ {f.ptr} /\ f.pc = "unprotect"
      BY <2>1 DEF Unprotect, At
    <3> QED
      BY <1>1, <1>3, <3>1 DEF PtrOK
  <2>2. CASE Unmap(t)
    <3>1. ro' = ro \ {f.ptr} /\ stray' = stray \ {f.ptr} /\ f.pc = "unmap"
      BY <2>2 DEF Unmap, At
    <3> QED
      BY <1>1, <1>3, <3>1 DEF PtrOK
  <2>3. CASE Remap(t)
    <3> DEFINE a == meta[f.ptr].area
    <3>1. /\ f.pc = "remap" /\ ro' = Remapped(ro, a, f.area)
          /\ stray' = Remapped(stray, a, f.area)
      BY <2>3 DEF Remap, At
    <3>2. f.ptr = gs[t] /\ Owns(t, a) /\ Owns(t, f.area)
      BY <1>2, <1>3, <3>1, InCallStack DEF PtrOK, NewOK
    <3>3. ro' = ro
      BY <3>1, <3>2 DEF Remapped, Owns
    <3> QED
      BY <1>1, <3>1, <3>2, <3>3 DEF Remapped, Owns
  <2>4. CASE \/ SetBusy(t) \/ MapMeta(t) \/ MapArea(t) \/ Copy(t) \/ SetGs(t) \/ Clear(t)
    BY <1>1, <2>4 DEF SetBusy, MapMeta, MapArea, Copy, SetGs, Clear, memory, closed
  <2> QED
    BY <2>1, <2>2, <2>3, <2>4
<1> HIDE DEF f
<1>7. OpenOK(t)'
  BY <1>5 DEF OpenOK
<1>8. NoFault' /\ ("protect" \notin SignalPlaces => stray' = {})
  BY <1>4, <1>6 DEF NoFault, WInv
<1> QED
  BY <1>1, <1>4, <1>5, <1>6, <1>7, <1>8, OpenLocal DEF CallsOK

\* The early return leaves the metadata open, and says so.
LEMMA OpenPeriod ==
  ASSUME IInv, WInv, ~fault, NEW t \in Threads, Period(t)
  PROVE  WInv'
<1>1. Types /\ Inside(t) /\ stray \subseteq Regions /\ open \subseteq Threads
  BY Rest, AtInside DEF WInv, Period
<1>2. UNCHANGED <<base, gs, ro, stray, fault>>
  BY DEF Period
<1>3. CASE Pop(t) /\ open' = open \cup {t}
  <2>1. \A u \in Threads \ {t} : call'[u] = call[u]
    BY <1>1, <1>3, PopFacts
  <2>2. OpenOK(t)'
    BY <1>3 DEF OpenOK
  <2> QED
    BY <1>1, <1>2, <1>3, <2>1, <2>2, OpenLocal DEF WInv, NoFault
<1>4. ASSUME NEW pc \in {"clear", "mapmeta"}, Proceed(t, pc), open' = open  PROVE WInv'
  <2>1. CallsOK(t) /\ Inside(t)' /\ Top(t)'.pc = pc
    BY <1>1, <1>4, ProceedFacts DEF Pcs
  <2>2. OpenOK(t)'
    BY <2>1 DEF OpenOK
  <2> QED
    BY <1>1, <1>2, <1>4, <2>1, <2>2, OpenLocal DEF CallsOK, WInv, NoFault
<1>5. \/ Pop(t) /\ open' = open \cup {t}
      \/ Proceed(t, "clear") /\ open' = open
      \/ Proceed(t, "mapmeta") /\ open' = open
  BY DEF Period
<1> QED
  BY <1>3, <1>4, <1>5

\* Line 667 closes the metadata, or finds that a handler has moved and closed them.
LEMMA OpenProtect ==
  ASSUME IInv, WInv, ~fault, NEW t \in Threads, Protect(t)
  PROVE  WInv'
<1>1. Types /\ Inside(t) /\ Top(t).pc = "protect" /\ stray \subseteq Regions /\ open \subseteq Threads
  BY Rest, AtInside DEF WInv, Protect
<1>2. /\ Top(t) \in FrameType /\ gs[t] \in Regions /\ own[gs[t]] = t /\ None \notin Threads
      /\ Top(t).ptr # gs[t] => "protect" \in SignalPlaces
  BY <1>1, InCall, FsGsConstants DEF PtrOK, FsGsAssumption
<1>3. UNCHANGED <<base, gs, fault>> /\ Pop(t)
  BY DEF Protect
<1>4. \A u \in Threads \ {t} : call'[u] = call[u]
  BY <1>1, <1>3, PopFacts
<1>5. Top(t).ptr \in Regions
  BY <1>2 DEF FrameType
<1>6. CASE Top(t).ptr = gs[t]
  <2>1. ro' = ro \cup {gs[t]} /\ open' = open \ {t} /\ stray' = stray
    BY <1>2, <1>6 DEF Protect, ProtectedBy
  <2>2. OpenOK(t)'
    BY <1>3, <2>1 DEF OpenOK
  <2> QED
    BY <1>1, <1>3, <1>4, <2>1, <2>2, OpenLocal DEF WInv, NoFault
<1>7. CASE Top(t).ptr # gs[t]
  <2>1. ro' = ro /\ open' = open /\ stray' \subseteq stray \cup {Top(t).ptr}
    BY <1>7 DEF Protect, ProtectedBy
  <2>2. Standing(t) /\ gs[t] \notin ro => t \in open
    BY <1>1, <1>7 DEF WInv, OpenOK
  <2>3. OpenOK(t)'
    BY <1>3, <2>1, <2>2 DEF OpenOK, Standing
  <2>4. stray' \subseteq Regions /\ NoFault'
    BY <1>1, <1>3, <1>5, <2>1 DEF NoFault
  <2> QED
    BY <1>1, <1>2, <1>3, <1>4, <1>7, <2>1, <2>3, <2>4, OpenLocal
<1> QED
  BY <1>6, <1>7

LEMMA OpenEnter ==
  ASSUME SignalPlaces \subseteq GuardedPlaces, IInv, WInv, ~fault, NEW t \in Threads,
         HookedCall(t) \/ Signal(t)
  PROVE  WInv'
<1>1. /\ UNCHANGED <<ro, stray, open, gs, base, fault>> /\ CallsOK(t)
      /\ Inside(t)' /\ Top(t)'.pc = "unprotect"
  BY CallEnters, EnterFacts DEF closed
<1>2. OpenOK(t)'
  BY <1>1 DEF OpenOK
<1> QED
  BY <1>1, <1>2, OpenLocal DEF CallsOK, WInv, NoFault

\* What a thread writes to is its own, and no call that closed metadata in force has made
\* it read-only.
LEMMA BadWriteStrays ==
  ASSUME IInv, NEW t \in Threads, BadWrite(t)
  PROVE  stray # {}
<1>1. PICK p \in Target(t) : ~Writable(t, p)
  BY DEF BadWrite
<1>2. ThreadOK(t) /\ None \notin Regions
  BY Rest, FsGsConstants DEF FsGsAssumption
<1>3. Owns(t, p)
  <2>1. CASE ~Inside(t)
    <3>1. base[t] \in {"publish", "info"} /\ p = loc[t].meta
      BY <1>1, <2>1 DEF Target, Inside
    <3> QED
      BY <1>2, <3>1 DEF ThreadOK, BaseOK, MetaOK, Standing, Owns
  <2>2. CASE Inside(t) /\ Top(t).pc \in {"setbusy", "period", "clear"}
    <3>1. p = Top(t).ptr
      BY <1>1, <2>2 DEF Target, Inside
    <3> QED
      BY <2>2, <3>1, InCall DEF PtrOK, Owns
  <2>3. CASE Inside(t) /\ Top(t).pc \in {"copy", "remap"}
    <3>1. p = Top(t).new
      BY <1>1, <2>3 DEF Target, Inside
    <3> QED
      BY <2>3, <3>1, InCall DEF NewOK, Mapping
  <2>4. CASE Inside(t) /\ Top(t).pc \notin {"setbusy", "period", "clear", "copy", "remap"}
    BY <1>1, <2>4 DEF Target, Inside
  <2> QED
    BY <2>1, <2>2, <2>3, <2>4
<1> QED
  BY <1>1, <1>2, <1>3 DEF Owns, Writable, Readable

LEMMA OpenBase ==
  ASSUME IInv, WInv, ~fault, NEW t \in Threads,
         \/ InitMeta(t) \/ InitArea(t) \/ InitInfo(t) \/ ThreadReturn(t) \/ CleanupHandler(t)
         \/ Release(t) \/ Store(t) \/ ThreadEnd(t) \/ Create(t)
  PROVE  WInv'
<1>1. Types /\ ThreadOK(t) /\ None \notin Regions
  BY Rest, FsGsConstants DEF FsGsAssumption
<1>2. CASE Release(t)
  <2>1. base[t] = "release" /\ Readable(t, gs[t])
    BY <1>1, <1>2 DEF Release, InBase, ThreadOK, MetaOK, Standing, Readable
  <2>2. UNCHANGED <<ro, stray, open, call, gs, fault>> /\ base' = [base EXCEPT ![t] = "store"]
    BY <1>2, <2>1 DEF Release, Goto, memory, closed
  <2>3. \A u \in Threads : Standing(u)' => Standing(u)
    BY <1>1, <2>1, <2>2 DEF Types, Standing
  <2> QED
    BY <2>2, <2>3, OpenSame DEF NoFault
<1>3. CASE Create(t)
  <2>1. PICK c \in Threads : /\ base[c] = "none" /\ base' = [base EXCEPT ![c] = "new"]
                             /\ gs' = [gs EXCEPT ![c] = gs[t]]
    BY <1>3 DEF Create, Goto
  <2>2. UNCHANGED <<ro, stray, open, call, fault>>
    BY <1>3 DEF Create, memory, closed
  <2>3. \A u \in Threads : Standing(u)' => Standing(u) /\ gs'[u] = gs[u]
    BY <1>1, <2>1 DEF Types, Standing
  <2> QED
    BY <2>2, <2>3, OpenSame DEF NoFault
<1>4. CASE ThreadEnd(t)
  <2>1. base' = [base EXCEPT ![t] = "gone"] /\ gs' = [gs EXCEPT ![t] = None]
    BY <1>4 DEF ThreadEnd, Goto
  <2>2. UNCHANGED <<ro, stray, open, call, fault>>
    BY <1>4 DEF ThreadEnd, memory, closed
  <2>3. \A u \in Threads : Standing(u)' => Standing(u) /\ gs'[u] = gs[u]
    BY <1>1, <2>1 DEF Types, Standing
  <2> QED
    BY <2>2, <2>3, OpenSame DEF NoFault
<1>5. CASE InitMeta(t) \/ InitArea(t)
  <2>1. PICK l \in {"area", "publish"} : base' = [base EXCEPT ![t] = l]
    BY <1>5 DEF InitMeta, InitArea, Goto
  <2>2. UNCHANGED <<ro, stray, open, call, gs, fault>>
    BY <1>5 DEF InitMeta, InitArea, closed
  <2>3. \A u \in Threads : Standing(u)' => Standing(u)
    BY <1>1, <2>1 DEF Types, Standing
  <2> QED
    BY <2>2, <2>3, OpenSame DEF NoFault
<1>6. CASE InitInfo(t) \/ ThreadReturn(t) \/ CleanupHandler(t) \/ Store(t)
  <2>1. Standing(t) /\ (base' = base \/ \E l \in Bases : base' = [base EXCEPT ![t] = l])
    BY <1>6 DEF InitInfo, ThreadReturn, CleanupHandler, Store, InBase, Goto, Standing, Bases
  <2>2. UNCHANGED <<ro, stray, open, call, gs, fault>>
    BY <1>6 DEF InitInfo, ThreadReturn, CleanupHandler, Store, memory, closed
  <2>3. \A u \in Threads : Standing(u)' => Standing(u)
    BY <1>1, <2>1 DEF Types, Standing
  <2> QED
    BY <2>2, <2>3, OpenSame DEF NoFault
<1> QED
  BY <1>2, <1>3, <1>4, <1>5, <1>6

LEMMA OpenPublish ==
  ASSUME IInv, WInv, ~fault, NEW t \in Threads, InitPublish(t)
  PROVE  WInv'
<1>1. Types /\ stray \subseteq Regions /\ open \subseteq Threads
  BY Rest DEF WInv
<1>2. /\ UNCHANGED <<ro, stray, call, fault>> /\ open' = open \cup {t}
      /\ base' = [base EXCEPT ![t] = "info"] /\ gs' = [gs EXCEPT ![t] = loc[t].meta]
  BY DEF InitPublish, Goto
<1>3. ASSUME NEW u \in Threads  PROVE OpenOK(u)'
  <2>1. CASE u = t
    BY <1>2, <2>1 DEF OpenOK
  <2>2. CASE u # t
    BY <1>1, <1>2, <2>2 DEF WInv, OpenOK, Standing, Inside, Top, Types
  <2> QED
    BY <2>1, <2>2
<1> QED
  BY <1>1, <1>2, <1>3 DEF WInv, NoFault

LEMMA OpenCleaner ==
  ASSUME IInv, WInv, ~fault, CleanerAction \/ (\E i \in Slots : Expire(i))
  PROVE  WInv'
<1>1. UNCHANGED <<gs, base, call, fault, open>>
  BY DEF CleanerAction, CleanerLock, CleanerStep, CleanerUnlock, Expire, memory, closed
<1>2. stray' \subseteq stray
  BY DEF CleanerAction, CleanerLock, CleanerStep, CleanerUnlock, Expire, memory, closed
<1>3. ASSUME NEW u \in Threads, Standing(u), gs[u] \in ro  PROVE gs[u] \in ro'
  <2>1. own[gs[u]] = u
    BY <1>3, Rest DEF ThreadOK, MetaOK
  <2>2. CASE CleanerStep /\ info[scan].valid /\ info[scan].ripe
    <3>1. scan \in Slots /\ ro' = ro \ {info[scan].area, info[scan].meta}
      BY <2>2 DEF CleanerStep, UnmappedBy
    <3>2. /\ own[info[scan].area] = info[scan].tid /\ own[info[scan].meta] = info[scan].tid
          /\ base[info[scan].tid] = "gone"
      BY <2>2, <3>1, EntryFacts
    <3> QED
      BY <1>3, <2>1, <3>1, <3>2 DEF Standing
  <2>3. CASE ~(CleanerStep /\ info[scan].valid /\ info[scan].ripe)
    BY <1>3, <2>3 DEF CleanerAction, CleanerLock, CleanerStep, CleanerUnlock, Expire, memory, closed
  <2> QED
    BY <2>2, <2>3
<1> QED
  BY <1>1, <1>2, <1>3, OpenSame DEF NoFault, Standing

LEMMA NextW ==
  ASSUME SignalPlaces \subseteq GuardedPlaces, IInv, WInv, [Next]_vars
  PROVE  WInv'
<1>1. ASSUME ~fault, NEW t \in Threads, OwnStep(t)  PROVE WInv'
  <2>1. CASE \/ InitMeta(t) \/ InitArea(t) \/ InitInfo(t) \/ CleanupHandler(t) \/ Store(t)
             \/ ThreadEnd(t)
    BY <1>1, <2>1, OpenBase
  <2>2. CASE InitPublish(t)
    BY <1>1, <2>2, OpenPublish
  <2>3. CASE \/ Unprotect(t) \/ SetBusy(t) \/ MapMeta(t) \/ MapArea(t) \/ Copy(t) \/ Remap(t)
             \/ SetGs(t) \/ Unmap(t) \/ Clear(t)
    BY <1>1, <2>3, OpenCalls
  <2>4. CASE Period(t) \/ Protect(t)
    BY <1>1, <2>4, OpenPeriod, OpenProtect
  <2>5. CASE BadWrite(t)
    <3>1. UNCHANGED <<ro, stray, open, call, gs, base>> /\ stray # {}
      BY <2>5, BadWriteStrays DEF BadWrite, Crash, memory, closed
    <3> QED
      BY <3>1, OpenSame DEF NoFault, Standing
  <2> QED
    BY <1>1, <2>1, <2>2, <2>3, <2>4, <2>5 DEF OwnStep
<1>2. ASSUME ~fault, NEW t \in Threads, Release(t) \/ Create(t) \/ ThreadReturn(t)  PROVE WInv'
  BY <1>2, OpenBase
<1>3. ASSUME ~fault, NEW t \in Threads, HookedCall(t) \/ Signal(t)  PROVE WInv'
  BY <1>3, OpenEnter
<1>4. ASSUME ~fault, CleanerAction \/ \E i \in Slots : Expire(i)  PROVE WInv'
  BY <1>4, OpenCleaner
<1>5. CASE UNCHANGED vars
  <2>1. UNCHANGED <<ro, stray, open, call, gs, base, fault>>
    BY <1>5 DEF vars, memory, closed
  <2> QED
    BY <2>1, OpenSame DEF WInv, NoFault, Standing
<1> QED
  BY <1>1, <1>2, <1>3, <1>4, <1>5 DEF Next

LEMMA WriteInductive ==
  ASSUME SignalPlaces \subseteq GuardedPlaces
  PROVE  Spec => [](IInv /\ WInv)
<1>1. Init => WInv
  <2> SUFFICES ASSUME Init  PROVE WInv
    OBVIOUS
  <2>1. \A t \in Threads : base[t] \in {"new", "none"}
    BY DEF Init
  <2> QED
    BY <2>1 DEF Init, WInv, NoFault, OpenOK, Standing
<1>2. IInv /\ WInv /\ [Next]_vars => WInv'
  BY NextW
<1> QED
  BY <1>1, <1>2, Inductive, PTL DEF Spec

-----------------------------------------------------------------------------
(* What the two invariants say.                                              *)

\* Of the calls of a thread all but the innermost wait.
LEMMA CallDomain ==
  ASSUME Types, NEW t \in Threads, NEW i \in DOMAIN call[t]
  PROVE  call[t][i] \in FrameType /\ (i # Len(call[t]) => call[t][i].pc = "protect")
<1>1. call[t] \in Seq(FrameType) /\ i \in 1 .. Len(call[t]) /\ Len(call[t]) \in Nat
  BY DEF Types, CallsWait
<1>2. call[t][i] \in FrameType
  BY <1>1
<1>3. i # Len(call[t]) => i \in 1 .. Len(call[t]) - 1
  BY <1>1
<1> QED
  BY <1>2, <1>3 DEF Types, CallsWait

LEMMA InvTypes ==
  ASSUME IInv, stray \subseteq Regions, open \subseteq Threads
  PROVE  TypeOK
<1>1. Types /\ Counters
  BY Rest
<1>2. \A t \in Threads : \A i \in DOMAIN call[t] :
         call[t][i] \in [pc : Pcs, ptr : MaybeRegion, new : MaybeRegion, area : MaybeRegion]
  <2> SUFFICES ASSUME NEW t \in Threads, NEW i \in DOMAIN call[t]
               PROVE  call[t][i] \in [pc : Pcs, ptr : MaybeRegion, new : MaybeRegion,
                                      area : MaybeRegion]
    OBVIOUS
  <2>1. call[t][i] \in FrameType
    BY <1>1, CallDomain
  <2> QED
    BY <2>1 DEF FrameType, MaybeRegion
<1> QED
  BY <1>1, <1>2 DEF TypeOK, Types, Counters

LEMMA InvStacks ==
  ASSUME IInv
  PROVE  StackIsOwn /\ OneMove /\ EntriesMapped
<1>1. ASSUME NEW t \in Threads, Standing(t), ~At(t, "setgs")
      PROVE  LET m == meta[gs[t]] IN
             /\ own[gs[t]] = t /\ m.self = gs[t]
             /\ own[m.area] = t /\ m.diff = m.area /\ m.area \notin ro
  BY <1>1, Rest DEF ThreadOK, MetaOK, StackOK, Owns
<1>2. ASSUME NEW t \in Threads, NEW i \in DOMAIN call[t], NEW j \in DOMAIN call[t], i # j
      PROVE  "protect" \in {call[t][i].pc, call[t][j].pc}
  <2>1. i # Len(call[t]) \/ j # Len(call[t])
    BY <1>2
  <2> QED
    BY <2>1, CallDomain, Rest
<1>3. EntriesMapped
  BY EntryFacts DEF EntriesMapped
<1> QED
  BY <1>1, <1>2, <1>3 DEF StackIsOwn, OneMove

LEMMA InvNoLeak ==
  ASSUME IInv
  PROVE  NoLeak
<1> SUFFICES ASSUME NEW r \in Regions, own[r] # None, own[r] \notin lost
             PROVE  r \in Held(own[r])
  BY DEF NoLeak
<1>1. PICK t \in Threads : t = own[r]
  BY Rest DEF Types
<1>2. r \in Mine(t)
  BY <1>1, Rest DEF ThreadOK, Accounted
<1>3. CASE r \in Started(t)
  BY <1>1, <1>3 DEF Held, Started
<1>4. CASE r \in Moving(t)
  <2>1. Inside(t) /\ r \in {Top(t).ptr, Top(t).new, Top(t).area}
    BY <1>4 DEF Moving
  <2>2. call[t] \in Seq(FrameType) /\ Len(call[t]) \in Nat \ {0}
    BY <2>1, Rest, InsideFacts
  <2>3. Len(call[t]) \in DOMAIN call[t] /\ call[t][Len(call[t])] = Top(t)
    BY <2>2 DEF Top
  <2>4. r \in UNION {{call[t][i].ptr, call[t][i].new, call[t][i].area} : i \in DOMAIN call[t]}
    BY <2>1, <2>3
  <2> QED
    BY <1>1, <2>4 DEF Held
<1>5. CASE r \in Current(t)
  BY <1>1, <1>5 DEF Held, Current
<1>6. CASE r \in Recorded(t)
  <2>1. PICK k \in Slots : info[k].tid = t /\ r \in {info[k].meta, info[k].area}
    BY <1>6 DEF Recorded
  <2>2. r \in UNION {{info[i].meta, info[i].area} : i \in {j \in Slots : info[j].tid = t}}
    BY <2>1
  <2> QED
    BY <1>1, <2>2 DEF Held
<1> QED
  BY <1>2, <1>3, <1>4, <1>5, <1>6 DEF Mine

\* The stack of a thread is its own, and pages that wait are those of threads that are
\* gone.
LEMMA StackOwned ==
  ASSUME IInv, NEW t \in Threads, NEW r \in StackOf(t)
  PROVE  r \in Regions /\ own[r] = t /\ Standing(t)
<1>1. ThreadOK(t) /\ Standing(t)
  BY Rest DEF StackOf
<1>2. CASE At(t, "setgs")
  <2>1. r \in {Top(t).new, Top(t).area}
    BY <1>1, <1>2 DEF StackOf
  <2>2. Inside(t) /\ Top(t).pc = "setgs"
    BY <1>2, AtInside
  <2>3. Owns(t, Top(t).new) /\ Owns(t, Top(t).area)
    BY <2>2, InCall DEF NewOK, Mapping
  <2> QED
    BY <1>1, <2>1, <2>3 DEF Owns
<1>3. CASE ~At(t, "setgs")
  BY <1>1, <1>3 DEF StackOf, ThreadOK, MetaOK, StackOK, Owns
<1> QED
  BY <1>2, <1>3

LEMMA RetiredOwned ==
  ASSUME IInv, NEW r \in RetiredPages
  PROVE  r \in Regions /\ own[r] \in Threads /\ base[own[r]] = "gone"
<1>1. CASE r \in UNION {{info[i].meta, info[i].area} :
                        i \in {j \in Slots : info[j].valid /\ base[info[j].tid] = "gone"}}
  BY <1>1, EntryFacts
<1>2. CASE r \in {q \in Regions : own[q] \in lost /\ base[own[q]] = "gone"}
  BY <1>2, Rest DEF Types
<1> QED
  BY <1>1, <1>2 DEF RetiredPages

LEMMA InvDisjoint ==
  ASSUME IInv
  PROVE  Owners!Disjoint
<1>1. \A t, u \in Threads : t # u => StackOf(t) \cap StackOf(u) = {}
  BY StackOwned
<1>2. \A t \in Threads : StackOf(t) \cap RetiredPages = {}
  <2> SUFFICES ASSUME NEW t \in Threads, NEW r \in StackOf(t), r \in RetiredPages PROVE FALSE
    OBVIOUS
  <2>1. own[r] = t /\ base[t] # "gone"
    BY StackOwned DEF Standing
  <2>2. base[own[r]] = "gone"
    BY RetiredOwned
  <2> QED
    BY <2>1, <2>2
<1> QED
  BY <1>1, <1>2 DEF Owners!Disjoint

\* Types; every thread between ARCH_SET_GS and its end has metadata and a stack of its
\* own; one call at a time is inside a move; the entries describe mapped pages; no mapping
\* is forgotten; no page serves two threads; and no access faults, unless a call that a
\* handler had overtaken between lines 665 and 667 has closed a page of somebody else
\* (fsgs.c 136-176, 570-719).
THEOREM StacksAreSafe ==
  ASSUME SignalPlaces \subseteq GuardedPlaces
  PROVE  Spec => []Safe
<1>1. IInv /\ WInv => Safe
  BY InvTypes, InvStacks, InvNoLeak, InvDisjoint DEF Safe, WInv
<1> QED
  BY <1>1, WriteInductive, PTL

\* What the mprotect of line 667 has closed are metadata in use, and metadata that are not
\* closed are those of a call in flight or were left so by the early return of line 592,
\* but for the pages of the calls that a handler has overtaken between lines 665 and 667;
\* for any number of threads and any nesting of handlers there (fsgs.c 570-667).
THEOREM ProtectsMetadata ==
  ASSUME SignalPlaces \subseteq GuardedPlaces
  PROVE  Spec => []ReadOnlyPages
<1>1. IInv /\ WInv => ReadOnlyPages
  <2> SUFFICES ASSUME IInv, WInv  PROVE ReadOnlyPages
    OBVIOUS
  <2>1. ClosedInUse
    BY Rest
  <2>2. ASSUME NEW t \in Threads, Standing(t), gs[t] \notin ro \cup stray
        PROVE  t \in open \/ call[t] # <<>>
    BY <2>2 DEF WInv, OpenOK, Inside
  <2> QED
    BY <2>1, <2>2 DEF ReadOnlyPages, OpenInUpdate
<1> QED
  BY <1>1, WriteInductive, PTL

\* Where no handler comes between lines 665 and 667, no call closes a page that is not
\* metadata in use, and nothing faults.
THEOREM NoStrayElsewhere ==
  ASSUME SignalPlaces \subseteq GuardedPlaces \ {"protect"}
  PROVE  Spec => [](stray = {} /\ ~fault)
<1>1. SignalPlaces \subseteq GuardedPlaces /\ "protect" \notin SignalPlaces
  OBVIOUS
<1>2. WInv => stray = {} /\ ~fault
  BY <1>1 DEF WInv, NoFault
<1> QED
  BY <1>1, <1>2, WriteInductive, PTL

-----------------------------------------------------------------------------
(* The refinement of ShadowOwners.                                           *)

StacksSame == \A t \in Threads : StackOf(t)' = StackOf(t)

LEMMA OwnersStutter ==
  ASSUME StacksSame, UNCHANGED RetiredPages
  PROVE  UNCHANGED Owners!vars
BY DEF StacksSame, Owners!vars

LEMMA StackUndisturbed ==
  ASSUME IInv, NEW t \in Threads, Keeps(t), Idle(t)
  PROVE  StackOf(t)' = StackOf(t)
<1>1. Standing(t)' = Standing(t) /\ At(t, "setgs")' = At(t, "setgs") /\ Top(t)' = Top(t)
  BY DEF Idle, Standing, At, Top
<1>2. Standing(t) => meta'[gs'[t]] = meta[gs[t]] /\ gs'[t] = gs[t]
  BY Rest DEF ThreadOK, MetaOK, Keeps, Idle
<1> QED
  BY <1>1, <1>2 DEF StackOf

\* Pages that wait are those of threads that are gone, which a step of another thread
\* leaves alone.
LEMMA LocalRetired ==
  ASSUME IInv, NEW u \in Threads, Local(u)
  PROVE  UNCHANGED RetiredPages
<1>1. Types /\ None \notin Threads
  BY Rest, FsGsConstants DEF FsGsAssumption
<1>2. \A t \in Threads : base'[t] = "gone" <=> base[t] = "gone"
  BY DEF Local, Idle
<1>3. \A t \in Threads : base[t] = "gone" => Keeps(t)
  BY DEF Local
<1>4. {j \in Slots : info'[j].valid /\ base'[info'[j].tid] = "gone"}
        = {j \in Slots : info[j].valid /\ base[info[j].tid] = "gone"}
  BY <1>2, EntryFacts DEF Local
<1>5. lost' = lost /\ info' = info /\ lost \subseteq Threads
  BY <1>1 DEF Local, Types
<1>6. ASSUME NEW r \in Regions
      PROVE  own'[r] \in lost' /\ base'[own'[r]] = "gone" <=> own[r] \in lost /\ base[own[r]] = "gone"
  BY <1>2, <1>3, <1>5 DEF Keeps
<1> QED
  BY <1>4, <1>5, <1>6 DEF RetiredPages

LEMMA LocalStutter ==
  ASSUME IInv, NEW u \in Threads, Local(u), StackOf(u)' = StackOf(u)
  PROVE  UNCHANGED Owners!vars
<1>1. StacksSame
  BY StackUndisturbed DEF StacksSame, Local
<1> QED
  BY <1>1, LocalRetired, OwnersStutter

\* A thread's stack changes with gs, with mremap and with nothing else.
LEMMA StackStays ==
  ASSUME NEW t \in Threads, Standing(t), Standing(t)', gs'[t] = gs[t],
         meta'[gs[t]].area = meta[gs[t]].area, ~At(t, "setgs"), ~At(t, "setgs")'
  PROVE  StackOf(t)' = StackOf(t)
BY DEF StackOf

\* Before it has one.
LEMMA NoStack ==
  ASSUME NEW t \in Threads, ~Standing(t), ~Standing(t)'
  PROVE  StackOf(t)' = StackOf(t)
BY DEF StackOf

LEMMA NotSetGs ==
  ASSUME IInv, NEW t \in Threads, Inside(t),
         \/ \E pc \in Pcs \ {"setgs"} : Proceed(t, pc)
         \/ \E g \in FrameType : g.pc # "setgs" /\ Step(t, g)
         \/ Pop(t)
  PROVE  ~At(t, "setgs")'
<1>1. Types
  BY Rest
<1>2. ASSUME NEW pc \in Pcs \ {"setgs"}, Proceed(t, pc)  PROVE ~At(t, "setgs")'
  BY <1>2, ProceedFacts DEF At
<1>3. ASSUME NEW g \in FrameType, g.pc # "setgs", Step(t, g)  PROVE ~At(t, "setgs")'
  BY <1>1, <1>3, StepFacts DEF At
<1>4. CASE Pop(t)
  BY <1>1, <1>4, PopFacts DEF At, Inside
<1> QED
  BY <1>2, <1>3, <1>4

\* No step of a call but mremap and ARCH_SET_GS changes what gs and the metadata lead to.
LEMMA CallKeepsStack ==
  ASSUME IInv, IInv', NEW t \in Threads, Inside(t), Top(t).pc \notin {"setgs", "unmap"},
         UNCHANGED <<base, gs>>, meta'[gs[t]].area = meta[gs[t]].area,
         \/ \E pc \in Pcs \ {"setgs"} : Proceed(t, pc)
         \/ \E g \in FrameType : g.pc # "setgs" /\ Step(t, g)
         \/ Pop(t)
  PROVE  StackOf(t)' = StackOf(t)
<1>1. ~At(t, "setgs")'
  BY NotSetGs
<1>2. Standing(t) /\ ~At(t, "setgs")
  BY InCall, AtInside
<1>3. Standing(t)'
  BY <1>2 DEF Standing
<1> QED
  BY <1>1, <1>2, <1>3, StackStays

LEMMA QuietCalls ==
  ASSUME IInv, IInv', NEW t \in Threads,
         \/ Unprotect(t) \/ SetBusy(t) \/ Period(t) \/ MapMeta(t) \/ MapArea(t) \/ Copy(t)
         \/ Clear(t) \/ Protect(t)
  PROVE  StackOf(t)' = StackOf(t)
<1>1. Types
  BY Rest DEF IInv
<1>2. Inside(t) => /\ Top(t) \in FrameType /\ gs[t] \in Regions /\ meta[gs[t]] \in MetaType
                   /\ PtrOK(t) /\ NewOK(t)
  BY InCall
<1>3. CASE Unprotect(t)
  <2>1. Inside(t) /\ Top(t).pc = "unprotect" /\ UNCHANGED <<base, gs, meta>> /\ Proceed(t, "setbusy")
    BY <1>3, AtInside DEF Unprotect
  <2> QED
    BY <2>1, CallKeepsStack DEF Pcs
<1>4. CASE Protect(t)
  <2>1. Inside(t) /\ Top(t).pc = "protect" /\ UNCHANGED <<base, gs, meta>> /\ Pop(t)
    BY <1>4, AtInside DEF Protect
  <2> QED
    BY <2>1, CallKeepsStack
<1>5. CASE SetBusy(t)
  <2>1. /\ Inside(t) /\ Top(t).pc = "setbusy" /\ UNCHANGED <<base, gs>> /\ Proceed(t, "period")
        /\ meta' = [meta EXCEPT ![Top(t).ptr].busy = TRUE]
    BY <1>1, <1>5, AtInside DEF SetBusy, Crash
  <2>2. meta'[gs[t]].area = meta[gs[t]].area
    BY <1>1, <1>2, <2>1 DEF Types, MetaType
  <2> QED
    BY <2>1, <2>2, CallKeepsStack DEF Pcs
<1>6. CASE Clear(t)
  <2>1. /\ Inside(t) /\ Top(t).pc = "clear" /\ UNCHANGED <<base, gs>> /\ Proceed(t, "protect")
        /\ meta' = [meta EXCEPT ![Top(t).ptr].busy = FALSE]
    BY <1>1, <1>6, AtInside DEF Clear, Crash
  <2>2. meta'[gs[t]].area = meta[gs[t]].area
    BY <1>1, <1>2, <2>1 DEF Types, MetaType
  <2> QED
    BY <2>1, <2>2, CallKeepsStack DEF Pcs
<1>7. CASE Period(t)
  <2>1. /\ Inside(t) /\ Top(t).pc = "period" /\ UNCHANGED <<base, gs>>
    BY <1>7, AtInside DEF Period
  <2>2. meta'[gs[t]].area = meta[gs[t]].area
    BY <1>1, <1>2, <1>7, <2>1 DEF Period, TooEarly, Types, MetaType
  <2>3. Pop(t) \/ \E pc \in Pcs \ {"setgs"} : Proceed(t, pc)
    BY <1>7 DEF Period, Pcs
  <2> QED
    BY <2>1, <2>2, <2>3, CallKeepsStack
<1>8. CASE MapMeta(t)
  <2>1. Inside(t) /\ Top(t).pc = "mapmeta" /\ UNCHANGED <<base, gs, meta>>
    BY <1>8, AtInside DEF MapMeta
  <2>2. PICK r \in Regions : Step(t, [Top(t) EXCEPT !.pc = "maparea", !.new = r])
    BY <1>8 DEF MapMeta
  <2>3. /\ [Top(t) EXCEPT !.pc = "maparea", !.new = r] \in FrameType
        /\ [Top(t) EXCEPT !.pc = "maparea", !.new = r].pc # "setgs"
    BY <1>2, <2>1 DEF FrameType, Pcs, MaybeRegion
  <2>4. \E g \in FrameType : g.pc # "setgs" /\ Step(t, g)
    BY <2>2, <2>3
  <2> QED
    BY <2>1, <2>4, CallKeepsStack
<1>9. CASE MapArea(t)
  <2>1. Inside(t) /\ Top(t).pc = "maparea" /\ UNCHANGED <<base, gs, meta>>
    BY <1>9, AtInside DEF MapArea
  <2>2. PICK r \in Regions : Step(t, [Top(t) EXCEPT !.pc = "copy", !.area = r])
    BY <1>9 DEF MapArea
  <2>3. /\ [Top(t) EXCEPT !.pc = "copy", !.area = r] \in FrameType
        /\ [Top(t) EXCEPT !.pc = "copy", !.area = r].pc # "setgs"
    BY <1>2, <2>1 DEF FrameType, Pcs, MaybeRegion
  <2>4. \E g \in FrameType : g.pc # "setgs" /\ Step(t, g)
    BY <2>2, <2>3
  <2> QED
    BY <2>1, <2>4, CallKeepsStack
<1>10. CASE Copy(t)
  <2>1. /\ Inside(t) /\ Top(t).pc = "copy" /\ UNCHANGED <<base, gs>> /\ Proceed(t, "remap")
        /\ meta' = [meta EXCEPT ![Top(t).new] = Copied(meta[Top(t).ptr], Top(t).new, Top(t).area)]
    BY <1>10, AtInside DEF Copy
  <2>2. Top(t).new # gs[t]
    BY <1>2, <2>1 DEF NewOK, Mapping
  <2>3. meta'[gs[t]].area = meta[gs[t]].area
    BY <1>1, <1>2, <2>1, <2>2 DEF Types
  <2> QED
    BY <2>1, <2>3, CallKeepsStack DEF Pcs
<1> QED
  BY <1>3, <1>4, <1>5, <1>6, <1>7, <1>8, <1>9, <1>10

\* Nor does one of the routine, of a call that begins or of the exit.
LEMMA QuietBase ==
  ASSUME IInv, IInv', NEW t \in Threads,
         \/ InitMeta(t) \/ InitArea(t) \/ InitInfo(t)
         \/ ThreadReturn(t) \/ CleanupHandler(t) \/ Release(t) \/ Store(t)
  PROVE  StackOf(t)' = StackOf(t)
<1>1. Types /\ ~Inside(t) /\ ThreadOK(t)
  BY Rest
     DEF IInv, InitMeta, InitArea, InitInfo, ThreadReturn, CleanupHandler, Release,
         Store, InBase, Inside
<1>2. CASE InitMeta(t) \/ InitArea(t)
  <2>1. base[t] \in {"new", "area"} /\ base'[t] \in {"area", "publish"}
    BY <1>1, <1>2 DEF InitMeta, InitArea, InBase, Goto, Types
  <2> QED
    BY <2>1, NoStack DEF Standing
<1>3. CASE InitInfo(t)
  <2>1. /\ base[t] = "info" /\ base' = [base EXCEPT ![t] = "run"] /\ UNCHANGED <<gs, call>>
        /\ meta' = [meta EXCEPT ![loc[t].meta].ready = TRUE]
    BY <1>1, <1>3 DEF InitInfo, InBase, Goto, Crash
  <2>2. gs[t] \in Regions
    BY <1>1, <2>1 DEF ThreadOK, MetaOK, Standing
  <2>3. meta'[gs[t]].area = meta[gs[t]].area
    BY <1>1, <2>1, <2>2 DEF Types, MetaType
  <2>4. Standing(t) /\ Standing(t)' /\ ~At(t, "setgs") /\ ~At(t, "setgs")' /\ gs'[t] = gs[t]
    BY <1>1, <2>1 DEF Standing, Types, At, Inside
  <2> QED
    BY <2>3, <2>4, StackStays
<1>4. CASE ThreadReturn(t) \/ CleanupHandler(t) \/ Release(t) \/ Store(t)
  <2>1. UNCHANGED <<gs, meta, call>>
    BY <1>1, <1>4 DEF ThreadReturn, CleanupHandler, Release, Store, Crash, memory, closed
  <2>2. /\ base[t] \in {"run", "exit", "release", "store"}
        /\ base'[t] \in {"exit", "release", "store", "end"}
    BY <1>1, <1>4 DEF ThreadReturn, CleanupHandler, Release, Store, Crash, InBase, Goto, Types
  <2>3. Standing(t) /\ Standing(t)' /\ ~At(t, "setgs") /\ ~At(t, "setgs")'
    BY <1>1, <2>1, <2>2 DEF Standing, At, Inside
  <2> QED
    BY <2>1, <2>3, StackStays
<1> QED
  BY <1>2, <1>3, <1>4

LEMMA CallQuiet ==
  ASSUME SignalPlaces \subseteq GuardedPlaces, IInv, NEW t \in Threads,
         HookedCall(t) \/ Signal(t)
  PROVE  StackOf(t)' = StackOf(t)
<1>1. /\ UNCHANGED <<meta, gs, base>> /\ base[t] \in {"run", "exit"} /\ ~At(t, "setgs")
      /\ Inside(t)' /\ Top(t)'.pc = "unprotect"
  BY CallEnters, EnterFacts
<1>2. Standing(t) /\ Standing(t)' /\ ~At(t, "setgs")'
  BY <1>1 DEF Standing, At
<1> QED
  BY <1>1, <1>2, StackStays

\* Two mappings of a thread that serve nobody yet are fresh.
LEMMA FreshPages ==
  ASSUME IInv, NEW t \in Threads, base[t] # "gone", NEW x \in Regions, NEW y \in Regions,
         own[x] = t, own[y] = t, x \notin StackOf(t), y \notin StackOf(t)
  PROVE  {x, y} \in Owners!Fresh
<1>1. \A u \in Threads : StackOf(u) \cap {x, y} = {}
  BY StackOwned
<1>2. RetiredPages \cap {x, y} = {}
  BY RetiredOwned
<1>3. {x, y} \cap Owners!Used = {}
  BY <1>1, <1>2 DEF Owners!Used
<1> QED
  BY <1>3 DEF Owners!Fresh

LEMMA OthersKeep ==
  ASSUME IInv, NEW t \in Threads, Local(t)
  PROVE  \A u \in Threads \ {t} : StackOf(u)' = StackOf(u)
BY StackUndisturbed DEF Local

LEMMA StackOfMap ==
  ASSUME NEW t \in Threads, \A u \in Threads \ {t} : StackOf(u)' = StackOf(u)
  PROVE  [u \in Threads |-> StackOf(u)]'
           = [[u \in Threads |-> StackOf(u)] EXCEPT ![t] = StackOf(t)']
  OBVIOUS

LEMMA PublishGives ==
  ASSUME IInv, NEW t \in Threads, InitPublish(t)
  PROVE  Owners!Next
<1> DEFINE p == loc[t].meta
<1> DEFINE a == loc[t].area
<1>1. /\ meta' = [meta EXCEPT ![p] = Metadata(p, a, a, FALSE, FALSE, Ratio)]
      /\ gs' = [gs EXCEPT ![t] = p] /\ UNCHANGED call
      /\ base[t] = "publish" /\ ~Inside(t) /\ base' = [base EXCEPT ![t] = "info"]
  BY DEF InitPublish, InBase, Goto, Inside
<1>2. Types /\ ThreadOK(t) /\ Local(t)
  BY Rest, InitPublishStep
<1>3. /\ p \in Regions /\ own[p] = t /\ a \in Regions /\ own[a] = t
  BY <1>1, <1>2 DEF ThreadOK, BaseOK, Owns
<1>4. StackOf(t) = {}
  BY <1>1 DEF StackOf, Standing
<1>5. StackOf(t)' = {p, a}
  <2>1. Standing(t)' /\ ~At(t, "setgs")'
    BY <1>1, <1>2 DEF Standing, At, Inside, Types
  <2>2. gs'[t] = p /\ meta'[p] = Metadata(p, a, a, FALSE, FALSE, Ratio)
    BY <1>1, <1>2, <1>3 DEF Types
  <2>3. meta'[p].area = a
    BY <2>2 DEF Metadata
  <2> QED
    BY <2>1, <2>2, <2>3 DEF StackOf
<1>6. {p, a} \in Owners!Fresh
  BY <1>1, <1>3, <1>4, FreshPages
<1>7. UNCHANGED RetiredPages
  BY <1>2, LocalRetired
<1>8. [u \in Threads |-> StackOf(u)]' = [[u \in Threads |-> StackOf(u)] EXCEPT ![t] = {p, a}]
  BY <1>2, <1>5, OthersKeep, StackOfMap
<1> HIDE DEF p, a
<1>9. Owners!Give(t)
  BY <1>4, <1>6, <1>7, <1>8 DEF Owners!Give
<1> QED
  BY <1>9 DEF Owners!Next

LEMMA RemapMoves ==
  ASSUME IInv, NEW t \in Threads, Remap(t)
  PROVE  Owners!Next
<1> DEFINE f == Top(t)
<1>1. /\ Inside(t) /\ f.pc = "remap" /\ Proceed(t, "setgs") /\ UNCHANGED <<gs, base>>
  BY AtInside DEF Remap
<1>2. /\ Standing(t) /\ base[t] # "gone" /\ f.ptr = gs[t]
      /\ Owns(t, f.new) /\ f.new # gs[t] /\ f.new # meta[gs[t]].area
      /\ Owns(t, f.area) /\ f.area # gs[t] /\ f.area # meta[gs[t]].area
  BY <1>1, InCall DEF PtrOK, NewOK, Mapping
<1>3. Local(t)
  BY RemapStep
<1>4. StackOf(t) = {gs[t], meta[gs[t]].area}
  BY <1>1, <1>2 DEF StackOf, At
<1>5. StackOf(t)' = {f.new, f.area}
  <2>1. /\ Inside(t)' /\ Top(t)'.pc = "setgs" /\ Top(t)'.new = f.new /\ Top(t)'.area = f.area
    BY <1>1, ProceedFacts DEF Pcs
  <2>2. Standing(t)'
    BY <1>1, <1>2 DEF Standing
  <2> QED
    BY <2>1, <2>2 DEF StackOf, At, Inside
<1>6. {f.new, f.area} \in Owners!Fresh
  BY <1>2, <1>4, FreshPages DEF Owns
<1>7. UNCHANGED RetiredPages
  BY <1>3, LocalRetired
<1>8. [u \in Threads |-> StackOf(u)]'
        = [[u \in Threads |-> StackOf(u)] EXCEPT ![t] = {f.new, f.area}]
  BY <1>3, <1>5, OthersKeep, StackOfMap
<1> HIDE DEF f
<1>9. Owners!Move(t)
  BY <1>4, <1>6, <1>7, <1>8 DEF Owners!Move
<1> QED
  BY <1>9 DEF Owners!Next

\* ARCH_SET_GS catches up with mremap, and munmap of the old metadata takes nothing.
LEMMA CatchUp ==
  ASSUME IInv, NEW t \in Threads, SetGs(t) \/ Unmap(t)
  PROVE  UNCHANGED Owners!vars
<1> DEFINE f == Top(t)
<1>1. Types /\ Inside(t) /\ f \in FrameType
  BY Rest, InsideFacts, AtInside DEF SetGs, Unmap
<1>2. CASE SetGs(t)
  <2>1. /\ f.pc = "setgs" /\ Proceed(t, "unmap") /\ gs' = [gs EXCEPT ![t] = f.new]
        /\ UNCHANGED <<base, meta>>
    BY <1>2, AtInside DEF SetGs, memory, closed
  <2>2. Standing(t) /\ f.new \in Regions /\ meta[f.new].area = f.area
    BY <1>1, <2>1, InCall DEF NewOK, CopyOK, Mapping, Owns
  <2>3. Top(t)'.pc = "unmap"
    BY <1>1, <2>1, ProceedFacts DEF Pcs
  <2>4. Standing(t)' /\ ~At(t, "setgs")' /\ gs'[t] = f.new
    BY <1>1, <2>1, <2>2, <2>3 DEF Standing, At, Types
  <2>5. StackOf(t)' = {f.new, f.area}
    BY <2>1, <2>2, <2>4 DEF StackOf
  <2>6. StackOf(t) = {f.new, f.area}
    BY <1>1, <2>1, <2>2, AtInside DEF StackOf
  <2>7. Local(t)
    BY <1>2, SetGsStep
  <2> QED
    BY <2>5, <2>6, <2>7, LocalStutter
<1>3. CASE Unmap(t)
  <2>1. /\ f.pc = "unmap" /\ Step(t, [f EXCEPT !.pc = "clear", !.ptr = PtrAfter(f)])
        /\ meta' = [meta EXCEPT ![f.ptr] = ZeroMeta] /\ UNCHANGED <<base, gs>>
    BY <1>3, AtInside DEF Unmap
  <2>2. Standing(t) /\ gs[t] \in Regions /\ f.ptr # gs[t]
    BY <1>1, <2>1, InCall DEF PtrOK
  <2>3. ~At(t, "setgs")'
    <3> DEFINE g == [f EXCEPT !.pc = "clear", !.ptr = PtrAfter(f)]
    <3>0. f.new \in Regions
      BY <1>1, <2>1, <2>2, InCall DEF PtrOK
    <3>1. g \in FrameType /\ g.pc # "setgs" /\ Step(t, g)
      BY <1>1, <2>1, <3>0 DEF PtrAfter, FrameType, Pcs
    <3> HIDE DEF g
    <3> QED
      BY <1>1, <3>1, NotSetGs
  <2>4. meta'[gs[t]].area = meta[gs[t]].area
    BY <1>1, <2>1, <2>2 DEF Types
  <2>5. Standing(t)' /\ ~At(t, "setgs")
    BY <1>1, <2>1, <2>2, AtInside DEF Standing
  <2>6. StackOf(t)' = StackOf(t)
    BY <2>1, <2>2, <2>3, <2>4, <2>5, StackStays
  <2>7. Local(t)
    BY <1>3, UnmapStep
  <2> QED
    BY <2>6, <2>7, LocalStutter
<1> QED
  BY <1>2, <1>3

LEMMA CreateStutters ==
  ASSUME IInv, NEW t \in Threads, Create(t)
  PROVE  UNCHANGED Owners!vars
<1>1. PICK c \in Threads : base[c] = "none" /\ base'[c] = "new" /\ Local(c)
  BY CreateStep
<1>2. StackOf(c)' = StackOf(c)
  BY <1>1, NoStack DEF Standing
<1> QED
  BY <1>1, <1>2, LocalStutter

\* The entry and the list of the lost count when the thread is gone.
LEMMA StoreStutters ==
  ASSUME IInv, IInv', NEW t \in Threads, Store(t)
  PROVE  UNCHANGED Owners!vars
<1>1. /\ base[t] = "store" /\ base' = [base EXCEPT ![t] = "end"]
      /\ UNCHANGED <<own, ro, meta, gs, call, round>> /\ loc' = [loc EXCEPT ![t] = NoLocals]
      /\ \/ \E i \in Slots : ~info[i].valid /\ info'[i].tid = t /\ info'[i].valid
                             /\ (\A j \in Slots \ {i} : info'[j] = info[j]) /\ lost' = lost
         \/ lost' = lost \cup {t} /\ info' = info
  BY Rest DEF Store, InBase, Goto, memory, closed, Types
<1>2. Types /\ None \notin Threads
  BY Rest, FsGsConstants DEF FsGsAssumption
<1>3. /\ base'[t] = "end" /\ \A u \in Threads \ {t} : base'[u] = base[u] /\ loc'[u] = loc[u]
  BY <1>1, <1>2 DEF Types
<1>4. \A u \in Threads \ {t} : StackOf(u)' = StackOf(u)
  BY <1>1, <1>3, StackUndisturbed DEF Keeps, Idle
<1>5. StackOf(t)' = StackOf(t)
  BY QuietBase
<1>6. UNCHANGED RetiredPages
  <2>1. {j \in Slots : info'[j].valid /\ base'[info'[j].tid] = "gone"}
          = {j \in Slots : info[j].valid /\ base[info[j].tid] = "gone"}
    BY <1>1, <1>3, EntryFacts
  <2>2. \A j \in Slots : info[j].valid => info'[j] = info[j]
    BY <1>1
  <2>3. \A r \in Regions : own'[r] \in lost' /\ base'[own'[r]] = "gone"
                             <=> own[r] \in lost /\ base[own[r]] = "gone"
    BY <1>1, <1>2, <1>3 DEF Types
  <2> QED
    BY <2>1, <2>2, <2>3 DEF RetiredPages
<1> QED
  BY <1>4, <1>5, <1>6, OwnersStutter DEF StacksSame

\* The end of a thread retires what its entry names, or what nobody recorded.
LEMMA EndRetires ==
  ASSUME IInv, NEW t \in Threads, ThreadEnd(t)
  PROVE  Owners!Next
<1>1. /\ base[t] = "end" /\ ~Inside(t) /\ base' = [base EXCEPT ![t] = "gone"]
      /\ gs' = [gs EXCEPT ![t] = None]
      /\ UNCHANGED <<own, ro, meta, call, loc, round, info, lost>>
  BY DEF ThreadEnd, InBase, Goto, Inside, memory, closed, tables
<1>2. Types /\ ThreadOK(t) /\ Table /\ None \notin Threads
  BY Rest, FsGsConstants DEF FsGsAssumption
<1>3. /\ base'[t] = "gone" /\ \A u \in Threads \ {t} : base'[u] = base[u] /\ gs'[u] = gs[u]
  BY <1>1, <1>2 DEF Types
<1>4. \A u \in Threads \ {t} : StackOf(u)' = StackOf(u)
  BY <1>1, <1>3, StackUndisturbed DEF Keeps, Idle
<1>5. StackOf(t)' = {}
  BY <1>3 DEF StackOf, Standing
<1> DEFINE S == {gs[t], meta[gs[t]].area}
<1>6. /\ StackOf(t) = S
      /\ \A r \in Regions : own[r] = t <=> r \in S
      /\ S \subseteq Regions
  <2>1. Standing(t) /\ ~At(t, "setgs")
    BY <1>1 DEF Standing, At, Inside
  <2>2. StackOf(t) = S
    BY <2>1 DEF StackOf
  <2>3. \A r \in S : r \in Regions /\ own[r] = t
    BY <2>2, StackOwned
  <2>4. \A r \in Regions : own[r] = t => r \in S
    BY <1>1, <1>2, Outside DEF ThreadOK, Accounted, Mine, Started, Recorded, Current, Standing
  <2> QED
    BY <2>2, <2>3, <2>4
<1>7. RetiredPages' = RetiredPages \cup S
  <2> DEFINE E == UNION {{info[i].meta, info[i].area} :
                           i \in {j \in Slots : info[j].valid /\ base[info[j].tid] = "gone"}}
  <2> DEFINE L == {r \in Regions : own[r] \in lost /\ base[own[r]] = "gone"}
  <2>1. RetiredPages = E \cup L
    BY DEF RetiredPages
  <2>2. ASSUME NEW r \in E'  PROVE r \in E \cup S
    <3>1. PICK i \in Slots : /\ info'[i].valid /\ base'[info'[i].tid] = "gone"
                             /\ r \in {info'[i].meta, info'[i].area}
      OBVIOUS
    <3>2. /\ info[i].valid /\ r \in {info[i].meta, info[i].area} /\ base'[info[i].tid] = "gone"
      BY <1>1, <3>1
    <3>3. CASE info[i].tid = t
      BY <1>1, <3>2, <3>3, EntryFacts
    <3>4. CASE info[i].tid # t
      <4>1. base[info[i].tid] = "gone"
        BY <1>3, <3>2, <3>4, EntryFacts
      <4> QED
        BY <3>2, <4>1
    <3> QED
      BY <3>3, <3>4
  <2>3. ASSUME NEW r \in E  PROVE r \in E'
    <3>1. PICK i \in Slots : /\ info[i].valid /\ base[info[i].tid] = "gone"
                             /\ r \in {info[i].meta, info[i].area}
      OBVIOUS
    <3>2. info[i].tid \in Threads \ {t}
      BY <1>1, <3>1, EntryFacts
    <3>3. info'[i].valid /\ base'[info'[i].tid] = "gone" /\ r \in {info'[i].meta, info'[i].area}
      BY <1>1, <1>3, <3>1, <3>2
    <3> QED
      BY <3>3
  <2>4. L' = IF t \in lost THEN L \cup S ELSE L
    BY <1>1, <1>2, <1>3, <1>6 DEF Types
  <2>5. ASSUME t \notin lost, NEW r \in S  PROVE r \in E'
    <3>1. PICK i \in Slots : info[i].valid /\ info[i].tid = t
      BY <1>1, <1>2, <2>5 DEF Table, EndRecorded
    <3>2. r \in {info[i].meta, info[i].area}
      BY <1>1, <3>1, EntryFacts
    <3>3. info'[i].valid /\ base'[info'[i].tid] = "gone" /\ r \in {info'[i].meta, info'[i].area}
      BY <1>1, <1>3, <3>1, <3>2
    <3> QED
      BY <3>3
  <2>6. RetiredPages' = E' \cup L'
    BY DEF RetiredPages
  <2> HIDE DEF E, L, S
  <2> QED
    BY <2>1, <2>2, <2>3, <2>4, <2>5, <2>6
<1>8. [u \in Threads |-> StackOf(u)]' = [[u \in Threads |-> StackOf(u)] EXCEPT ![t] = {}]
  BY <1>4, <1>5, StackOfMap
<1>9. S # {}
  OBVIOUS
<1> HIDE DEF S
<1>10. Owners!Retire(t)
  BY <1>6, <1>7, <1>8, <1>9 DEF Owners!Retire
<1> QED
  BY <1>10 DEF Owners!Next

LEMMA QuietStutters ==
  ASSUME IInv, UNCHANGED <<own, ro, meta, gs, base, call, loc, round, lost>>,
         \A i \in Slots : /\ info'[i].valid = info[i].valid /\ info'[i].tid = info[i].tid
                          /\ info'[i].meta = info[i].meta /\ info'[i].area = info[i].area
  PROVE  UNCHANGED Owners!vars
<1>1. StacksSame
  BY StackUndisturbed DEF StacksSame, Keeps, Idle
<1>2. UNCHANGED RetiredPages
  BY DEF RetiredPages
<1> QED
  BY <1>1, <1>2, OwnersStutter

LEMMA ExpireStutters ==
  ASSUME IInv, NEW i \in Slots, Expire(i)
  PROVE  UNCHANGED Owners!vars
<1>1. /\ UNCHANGED <<own, ro, meta, gs, base, call, loc, round, lost>>
      /\ info' = [info EXCEPT ![i].ripe = TRUE]
  BY DEF Expire, memory, closed
<1>2. \A j \in Slots : /\ info'[j].valid = info[j].valid /\ info'[j].tid = info[j].tid
                       /\ info'[j].meta = info[j].meta /\ info'[j].area = info[j].area
  BY <1>1, Rest DEF Types, EntryType
<1> QED
  BY <1>1, <1>2, QuietStutters

\* The two munmaps give back two pages that wait.
LEMMA UnmapReclaims ==
  ASSUME IInv, NEW i \in Slots, info[i].valid, info[i].ripe,
         own' = [r \in Regions |-> IF r \in UnmappedBy(info[i]) THEN None ELSE own[r]],
         meta' = [r \in Regions |-> IF r \in UnmappedBy(info[i]) THEN ZeroMeta ELSE meta[r]],
         ro' = ro \ UnmappedBy(info[i]),
         info' = [info EXCEPT ![i] = NoEntry],
         UNCHANGED <<gs, base, call, loc, round, lost>>
  PROVE  Owners!Next
<1>0. PICK w \in Threads : w = info[i].tid
  BY EntryFacts
<1>1. Types /\ Table /\ None \notin Threads
  BY Rest, FsGsConstants DEF FsGsAssumption
<1> DEFINE a == info[i].area
<1> DEFINE b == info[i].meta
<1>2. /\ a \in Regions /\ b \in Regions /\ own[a] = w /\ own[b] = w
      /\ base[w] = "gone" /\ \A j \in Slots : info[j].valid /\ i # j => w # info[j].tid
  BY <1>0, EntryFacts
<1>3. UnmappedBy(info[i]) = {a, b} /\ w \notin lost
  BY <1>0, <1>1 DEF UnmappedBy, Table, LostOK
<1>4. \A r \in Regions : /\ r \in {a, b} => own'[r] = None
                         /\ r \notin {a, b} => own'[r] = own[r] /\ meta'[r] = meta[r]
                         /\ r \in ro' => r \in ro
  BY <1>3
<1>5. ~info'[i].valid /\ \A j \in Slots \ {i} : info'[j] = info[j]
  BY <1>1, RecordFacts DEF Types
<1>6. StacksSame
  <2>1. ASSUME NEW u \in Threads \ {w}  PROVE StackOf(u)' = StackOf(u)
    <3>1. Keeps(u) /\ Idle(u)
      BY <1>1, <1>2, <1>4 DEF Keeps, Idle
    <3> QED
      BY <3>1, StackUndisturbed
  <2>2. ~Standing(w) /\ ~Standing(w)'
    BY <1>2 DEF Standing
  <2> QED
    BY <2>1, <2>2, NoStack DEF StacksSame
<1>7. {a, b} \subseteq RetiredPages
  BY <1>0, <1>2 DEF RetiredPages
<1>8. RetiredPages' = RetiredPages \ {a, b}
  <2> DEFINE E == UNION {{info[k].meta, info[k].area} :
                           k \in {j \in Slots : info[j].valid /\ base[info[j].tid] = "gone"}}
  <2> DEFINE L == {r \in Regions : own[r] \in lost /\ base[own[r]] = "gone"}
  <2>1. RetiredPages = E \cup L /\ RetiredPages' = E' \cup L'
    BY DEF RetiredPages
  <2>2. L' = L /\ L \cap {a, b} = {}
    BY <1>1, <1>2, <1>3, <1>4 DEF Types
  <2>3. ASSUME NEW r \in E'  PROVE r \in E /\ r \notin {a, b}
    <3>1. PICK k \in Slots : /\ info'[k].valid /\ base'[info'[k].tid] = "gone"
                             /\ r \in {info'[k].meta, info'[k].area}
      OBVIOUS
    <3>2. k # i /\ info[k].valid /\ base[info[k].tid] = "gone" /\ r \in {info[k].meta, info[k].area}
      BY <1>5, <3>1
    <3>3. own[r] = info[k].tid /\ info[k].tid # w
      BY <1>2, <3>2, EntryFacts
    <3> QED
      BY <1>2, <3>2, <3>3
  <2>4. ASSUME NEW r \in E, r \notin {a, b}  PROVE r \in E'
    <3>1. PICK k \in Slots : /\ info[k].valid /\ base[info[k].tid] = "gone"
                             /\ r \in {info[k].meta, info[k].area}
      OBVIOUS
    <3>2. k # i
      BY <2>4, <3>1
    <3>3. info'[k].valid /\ base'[info'[k].tid] = "gone" /\ r \in {info'[k].meta, info'[k].area}
      BY <1>5, <3>1, <3>2
    <3> QED
      BY <3>3
  <2> HIDE DEF E, L, a, b
  <2>5. E' \cup L' = (E \cup L) \ {a, b}
    BY <2>2, <2>3, <2>4
  <2> QED
    BY <2>1, <2>5
<1>9. [t \in Threads |-> StackOf(t)]' = [t \in Threads |-> StackOf(t)]
  BY <1>6 DEF StacksSame
<1> HIDE DEF a, b
<1>10. Owners!Reclaim
  BY <1>7, <1>8, <1>9 DEF Owners!Reclaim
<1> QED
  BY <1>10 DEF Owners!Next

LEMMA CleanerMaps ==
  ASSUME IInv, CleanerAction
  PROVE  [Owners!Next]_Owners!vars
<1>1. CASE CleanerLock \/ CleanerUnlock
  BY <1>1, QuietStutters DEF CleanerLock, CleanerUnlock, memory, closed
<1>2. CASE CleanerStep /\ info[scan].valid /\ info[scan].ripe
  <2> DEFINE i == scan
  <2>1. /\ i \in Slots /\ info[i].valid /\ info[i].ripe
        /\ own' = [r \in Regions |-> IF r \in UnmappedBy(info[i]) THEN None ELSE own[r]]
        /\ meta' = [r \in Regions |-> IF r \in UnmappedBy(info[i]) THEN ZeroMeta ELSE meta[r]]
        /\ ro' = ro \ UnmappedBy(info[i])
        /\ info' = [info EXCEPT ![i] = NoEntry]
        /\ UNCHANGED <<gs, base, call, loc, round, lost>>
    BY <1>2 DEF CleanerStep
  <2> HIDE DEF i
  <2> QED
    BY <2>1, UnmapReclaims
<1>3. CASE CleanerStep /\ ~(info[scan].valid /\ info[scan].ripe)
  BY <1>3, QuietStutters DEF CleanerStep, memory, closed
<1> QED
  BY <1>1, <1>2, <1>3 DEF CleanerAction

\* Every step is one of ShadowOwners or is hidden from it.
LEMMA NextMaps ==
  ASSUME SignalPlaces \subseteq GuardedPlaces, IInv, IInv', [Next]_vars
  PROVE  [Owners!Next]_Owners!vars
<1>1. ASSUME NEW t \in Threads, OwnStep(t)  PROVE [Owners!Next]_Owners!vars
  <2>1. CASE InitMeta(t) \/ InitArea(t) \/ InitInfo(t) \/ CleanupHandler(t)
    <3>1. Local(t) /\ StackOf(t)' = StackOf(t)
      BY <2>1, InitMetaStep, InitAreaStep, InitInfoStep, CleanupHandlerStep, QuietBase
    <3> QED
      BY <3>1, LocalStutter
  <2>2. CASE \/ Unprotect(t) \/ SetBusy(t) \/ Period(t) \/ MapMeta(t) \/ MapArea(t)
             \/ Copy(t) \/ Clear(t) \/ Protect(t)
    <3>1. StackOf(t)' = StackOf(t)
      BY <2>2, QuietCalls
    <3>2. Local(t)
      BY <2>2, UnprotectStep, SetBusyStep, PeriodStep, MapMetaStep, MapAreaStep, CopyStep,
         ClearStep, ProtectStep
    <3> QED
      BY <3>1, <3>2, LocalStutter
  <2>3. CASE SetGs(t) \/ Unmap(t)
    BY <2>3, CatchUp
  <2>4. CASE InitPublish(t) \/ Remap(t) \/ ThreadEnd(t)
    BY <2>4, PublishGives, RemapMoves, EndRetires
  <2>5. CASE Store(t)
    BY <2>5, StoreStutters
  <2>6. CASE BadWrite(t)
    BY <2>6, QuietStutters DEF BadWrite, Crash, memory, closed, tables
  <2> QED
    BY <1>1, <2>1, <2>2, <2>3, <2>4, <2>5, <2>6 DEF OwnStep
<1>2. ASSUME NEW t \in Threads, Release(t) \/ ThreadReturn(t) \/ HookedCall(t) \/ Signal(t)
      PROVE  [Owners!Next]_Owners!vars
  <2>1. Local(t)
    BY <1>2, ReleaseStep, ThreadReturnStep, CallStep
  <2>2. StackOf(t)' = StackOf(t)
    BY <1>2, QuietBase, CallQuiet
  <2> QED
    BY <2>1, <2>2, LocalStutter
<1>3. ASSUME NEW t \in Threads, Create(t)  PROVE [Owners!Next]_Owners!vars
  BY <1>3, CreateStutters
<1>4. ASSUME NEW i \in Slots, Expire(i)  PROVE [Owners!Next]_Owners!vars
  BY <1>4, ExpireStutters
<1>5. ASSUME CleanerAction  PROVE [Owners!Next]_Owners!vars
  BY <1>5, CleanerMaps
<1>6. CASE UNCHANGED vars
  <2>1. UNCHANGED <<own, ro, meta, gs, base, call, loc, round, lost, info>>
    BY <1>6 DEF vars, memory, closed, tables
  <2> QED
    BY <2>1, QuietStutters
<1> QED
  BY <1>1, <1>2, <1>3, <1>4, <1>5, <1>6 DEF Next

\* The library keeps the promise of ShadowOwners: a stack is given when gs is set, moved
\* at mremap, retired at the end of its thread and given back by the cleaner, and at no
\* other moment (fsgs.c 136-176, 289-309, 570-667).
THEOREM OwnersKept ==
  ASSUME SignalPlaces \subseteq GuardedPlaces
  PROVE  Spec => ImplementsOwners
<1>1. ASSUME Init  PROVE Owners!Init
  <2>1. \A t \in Threads : StackOf(t) = {}
    BY <1>1 DEF Init, StackOf, Standing
  <2>2. RetiredPages = {}
    BY <1>1, RecordFacts DEF Init, RetiredPages
  <2> QED
    BY <2>1, <2>2 DEF Owners!Init
<1>2. IInv /\ IInv' /\ [Next]_vars => [Owners!Next]_Owners!vars
  BY NextMaps
<1> QED
  BY <1>1, <1>2, Inductive, PTL DEF Spec, ImplementsOwners, Owners!Spec
=============================================================================
