---------------------------- MODULE BuddyProofs ----------------------------
(* Theorems about BuddyStack and BuddyStart for every granule, page size,     *)
(* stack top and bound: the metadata is always found and never overlaps a     *)
(* slot, the changes of the number are whole, wherever the handlers run, and  *)
(* every stack starts in the layout that this needs.                          *)
EXTENDS MCBuddy, FiniteSetTheorems, TLAPS

Pc == {"", "check", "open", "own", "buddy", "add", "clear", "close"}
Frame == [kind : {"func", "rand"}, rsp : Int, ret : Int, pc : Pc, k : {0, 2, 3}, off : Int]

\* What the types leave out: a call of the library knows its page.
IInv ==
    /\ TypeOK
    /\ stk \in Seq(Frame)
    /\ \A i \in DOMAIN stk : stk[i].kind = "rand" => stk[i].k \in {2, 3}

-----------------------------------------------------------------------------
(* Rounding.                                                                 *)

LEMMA Modulus == \A x \in Int : x % S \in 0 .. S - 1
    BY BuddyAssumption

LEMMA Division == \A x \in Int : \E q \in Int : x = q * S + (x % S)
<1>1. \A x \in Int : x \div S \in Int
    BY BuddyAssumption
<1>2. \A x \in Int : x = (x \div S) * S + (x % S)
    BY BuddyAssumption, Z3
<1> QED
    BY <1>1, <1>2

\* Two multiples of a number that are less than twice the number apart.
LEMMA NextMultiple ==
    ASSUME NEW s \in Nat \ {0}, NEW a \in Int, NEW b \in Int,
           a * s - b * s > -s, a * s - b * s < 2 * s
    PROVE  a = b \/ a = b + 1
<1>1. CASE a <= b - 1
    <2>1. a * s <= (b - 1) * s
        BY <1>1, Z3
    <2>2. (b - 1) * s = b * s - s
        BY Z3
    <2>3. a * s \in Int /\ b * s \in Int
        BY Z3
    <2> QED
        BY <2>1, <2>2, <2>3
<1>2. CASE a >= b + 2
    <2>1. a * s >= (b + 2) * s
        BY <1>2, Z3
    <2>2. (b + 2) * s = b * s + 2 * s
        BY Z3
    <2>3. a * s \in Int /\ b * s \in Int
        BY Z3
    <2> QED
        BY <2>1, <2>2, <2>3
<1> QED
    BY <1>1, <1>2

LEMMA Multiples ==
    ASSUME NEW a \in Int, NEW b \in Int,
           a * S - b * S > -S, a * S - b * S < 2 * S
    PROVE  a = b \/ a = b + 1
<1>1. S \in Nat \ {0}
    BY BuddyAssumption
<1> QED
    BY <1>1, NextMultiple

\* Wherever rsp is between the guard page and the top of the stack, rounding it down
\* leads to one of the two pages that buddy_init_tls_metadata has filled in
\* (buddy_tls.c 123-126): two pages are enough, whatever the alignment of the stack.
THEOREM MetadataFound ==
    ASSUME NEW h \in Highs, NEW rsp \in Usable(h)
    PROVE  TlsAddress(rsp) = Ptr2(h) \/ TlsAddress(rsp) = Ptr3(h)
<1>1. /\ S \in Nat \ {0} /\ Page \in Nat \ {0} /\ h \in Int /\ h >= 4 * S
    BY BuddyAssumption
<1>2. /\ rsp \in Int /\ rsp >= h - S + Page /\ rsp <= h - 1
    BY <1>1 DEF Usable
<1>a. PICK a \in Int : h = a * S + (h % S)
    BY <1>1, Division
<1>b. PICK b \in Int : rsp = b * S + (rsp % S)
    BY <1>2, Division
<1>3. h % S \in 0 .. S - 1 /\ rsp % S \in 0 .. S - 1
    BY <1>1, <1>2, Modulus
<1>4. a * S \in Int /\ b * S \in Int
    BY <1>1, Z3
<1>5. a * S - b * S > -S /\ a * S - b * S < 2 * S
    BY <1>1, <1>2, <1>3, <1>4, <1>a, <1>b
<1>6. a = b \/ a = b + 1
    BY <1>5, Multiples
<1>7. Align(h) = a * S /\ Align(rsp) = b * S
    BY <1>1, <1>2, <1>3, <1>4, <1>a, <1>b DEF Align
<1>8. a = b + 1 => a * S = b * S + S
    BY <1>1, Z3
<1> QED
    BY <1>1, <1>4, <1>6, <1>7, <1>8 DEF TlsAddress, Ptr2, Ptr3

\* The two pages are inside the 4 * S bytes of the stack, where spa.h 327 and 344 expect
\* them.
LEMMA PagesInside ==
    ASSUME NEW h \in Highs, NEW k \in {2, 3}
    PROVE  /\ Address(h, k) \in Int
           /\ Address(h, k) <= h - 2 * S /\ Address(h, k) > h - 4 * S
           /\ Address(h, k) \in h - 4 * S .. h - 2 * S
<1>1. /\ S \in Nat \ {0} /\ h \in Int
    BY BuddyAssumption
<1>2. h % S \in 0 .. S - 1
    BY <1>1, Modulus
<1>3. Align(h) \in Int /\ Align(h) <= h /\ Align(h) > h - S
    BY <1>1, <1>2 DEF Align
<1>4. /\ Ptr2(h) \in Int /\ Ptr2(h) <= h - 2 * S /\ Ptr2(h) > h - 3 * S
      /\ Ptr3(h) \in Int /\ Ptr3(h) <= h - 3 * S /\ Ptr3(h) > h - 4 * S
    BY <1>1, <1>3 DEF Ptr2, Ptr3
<1> QED
    BY <1>1, <1>4 DEF Address

\* No slot of a function lies in a page of metadata (spa.h 341-344): the guard page keeps
\* the lowest page of the shadow stack, where the metadata is when the stack ends at a
\* multiple of S, out of use.
THEOREM MetadataApart ==
    ASSUME NEW h \in Highs, NEW rsp \in Usable(h), NEW k \in {2, 3}
    PROVE  /\ Slot(rsp) \notin Address(h, k) .. Address(h, k) + Page - 1
           /\ Slot(rsp) \in ShadowStack(h)
<1>1. /\ S \in Nat \ {0} /\ Page \in Nat \ {0} /\ h \in Int
    BY BuddyAssumption
<1>2. rsp \in Int /\ rsp >= h - S + Page /\ rsp <= h - 1
    BY <1>1 DEF Usable
<1> QED
    BY <1>1, <1>2, PagesInside DEF Slot, ShadowStack

-----------------------------------------------------------------------------
(* Type correctness.                                                         *)

Info == [random : Int, busy : BOOLEAN, inited : BOOLEAN]

LEMMA InfoOK ==
    ASSUME IInv, NEW k \in {2, 3}, NEW i \in Info,
           info' = [info EXCEPT ![k] = i] \/ UNCHANGED info
    PROVE  info' \in [{2, 3} -> Info]
BY DEF IInv, TypeOK, Info

LEMMA ChangedOK ==
    ASSUME IInv, NEW k \in {2, 3}, NEW x \in Int, NEW b \in BOOLEAN
    PROVE  Changed(info[k], x, b) \in Info
<1>1. info[k] \in Info
    BY DEF IInv, TypeOK, Info
<1>2. info[k].random + x \in Int
    BY <1>1 DEF Info
<1> QED
    BY <1>1, <1>2 DEF Changed, Info

LEMMA ClearedOK == IInv => \A k \in {2, 3} : Cleared(info[k]) \in Info
<1>1. \A i \in Info : [i EXCEPT !.busy = FALSE] \in Info
    BY DEF Info
<1>2. IInv => \A k \in {2, 3} : info[k] \in Info
    BY DEF IInv, TypeOK, Info
<1> QED
    BY <1>1, <1>2 DEF Cleared

LEMMA LastOne == \A n \in Nat : \A i \in 1 .. n : i < n \/ i = n
OBVIOUS

LEMMA AppendOK ==
    ASSUME NEW T, NEW s \in Seq(T), NEW f \in T
    PROVE  /\ Append(s, f) \in Seq(T) /\ Len(Append(s, f)) = Len(s) + 1
           /\ \A i \in 1 .. Len(s) : Append(s, f)[i] = s[i]
           /\ Append(s, f)[Len(s) + 1] = f
OBVIOUS

\* What is known of every entry of a stack.
EntryOK(f) == f.rsp \in Usable(high) /\ (f.kind = "rand" => f.k \in {2, 3})

LEMMA TypeInit == Init => IInv
<1> SUFFICES ASSUME Init PROVE IInv
    OBVIOUS
<1>1. MaxRands \in Nat /\ Offsets \subseteq Int
    BY BuddyAssumption
<1>2. stk \in Seq(Frame) /\ DOMAIN stk = {}
    BY DEF Init
<1>3. info \in [{2, 3} -> [random : Int, busy : BOOLEAN, inited : BOOLEAN]]
    BY <1>1 DEF Init
<1>4. DOMAIN slot = ShadowStack(high) /\ \A a \in DOMAIN slot : slot[a] \in Int
    BY DEF Init
<1> QED
    BY <1>1, <1>2, <1>3, <1>4 DEF Init, IInv, TypeOK

\* What is on top of the stack.
LEMMA TopOK ==
    ASSUME IInv, stk # <<>>
    PROVE  Top \in Frame /\ EntryOK(Top)
<1>1. stk \in Seq(Frame) /\ Len(stk) \in DOMAIN stk
    BY DEF IInv
<1> QED
    BY <1>1 DEF IInv, TypeOK, Top, EntryOK

\* The stack when its top returns.
LEMMA BelowOK ==
    ASSUME IInv, stk # <<>>, stk' = Below, UNCHANGED high
    PROVE  stk' \in Seq(Frame) /\ \A i \in DOMAIN stk' : EntryOK(stk[i])'
<1>1. stk \in Seq(Frame) /\ Len(stk) \in Nat \ {0}
    BY DEF IInv
<1>2. stk' = SubSeq(stk, 1, Len(stk) - 1)
    BY DEF Below
<1>3. stk' \in Seq(Frame) /\ \A i \in DOMAIN stk' : i \in DOMAIN stk /\ stk'[i] = stk[i]
    BY <1>1, <1>2
<1> QED
    BY <1>3 DEF IInv, TypeOK, EntryOK

\* The stack when something is called.
LEMMA PushOK ==
    ASSUME IInv, NEW f \in Frame, EntryOK(f), stk' = Append(stk, f), UNCHANGED high
    PROVE  stk' \in Seq(Frame) /\ \A i \in DOMAIN stk' : EntryOK(stk[i])'
<1>1. stk \in Seq(Frame) /\ Len(stk) \in Nat /\ DOMAIN stk = 1 .. Len(stk)
    BY DEF IInv
<1>2. stk' \in Seq(Frame) /\ DOMAIN stk' = 1 .. Len(stk) + 1
    BY <1>1
<1>3. \A i \in DOMAIN stk' : stk'[i] = IF i <= Len(stk) THEN stk[i] ELSE f
    BY <1>1
<1>4. ASSUME NEW i \in DOMAIN stk' PROVE EntryOK(stk[i])'
    <2>1. CASE i <= Len(stk)
        <3>1. i \in DOMAIN stk /\ stk'[i] = stk[i]
            BY <2>1, <1>1, <1>2, <1>3
        <3> QED
            BY <3>1 DEF IInv, TypeOK, EntryOK
    <2>2. CASE ~(i <= Len(stk))
        BY <2>2, <1>3 DEF EntryOK
    <2> QED
        BY <2>1, <2>2
<1> QED
    BY <1>2, <1>4

\* The stack when a call of the library takes a step.
LEMMA StepOK ==
    ASSUME IInv, stk # <<>>, NEW f \in Frame, EntryOK(f), stk' = Append(Below, f),
           UNCHANGED high
    PROVE  stk' \in Seq(Frame) /\ \A i \in DOMAIN stk' : EntryOK(stk[i])'
<1>1. stk \in Seq(Frame) /\ Len(stk) \in Nat \ {0} /\ DOMAIN stk = 1 .. Len(stk)
    BY DEF IInv
<1>2. Below \in Seq(Frame) /\ Len(Below) = Len(stk) - 1
    BY <1>1 DEF Below
<1>3. \A i \in 1 .. Len(stk) - 1 : Below[i] = stk[i]
    BY <1>1 DEF Below
<1>4. stk' \in Seq(Frame) /\ DOMAIN stk' = 1 .. Len(stk)
    <2>1. Append(Below, f) \in Seq(Frame) /\ Len(Append(Below, f)) = Len(stk) - 1 + 1
        BY <1>2, AppendOK
    <2>2. stk' \in Seq(Frame) /\ Len(stk') = Len(stk) - 1 + 1
        BY <2>1
    <2>3. Len(stk') = Len(stk)
        BY <2>2, <1>1
    <2> QED
        BY <2>2, <2>3
<1>5. \A i \in DOMAIN stk' : stk'[i] = IF i < Len(stk) THEN stk[i] ELSE f
    <2>1. \A i \in 1 .. Len(stk) - 1 : stk'[i] = Below[i]
        BY <1>2, AppendOK
    <2>2. stk'[Len(stk) - 1 + 1] = f
        BY <1>2, AppendOK
    <2>3. Len(stk) - 1 + 1 = Len(stk)
        BY <1>1
    <2>4. stk'[Len(stk)] = f
        BY <2>2, <2>3, Zenon
    <2>5. ASSUME NEW i \in 1 .. Len(stk)
          PROVE  stk'[i] = IF i < Len(stk) THEN stk[i] ELSE f
        <3>1. CASE i < Len(stk)
            <4>1. i \in 1 .. Len(stk) - 1
                BY <3>1, <1>1
            <4> QED
                BY <3>1, <4>1, <2>1, <1>3
        <3>2. CASE ~(i < Len(stk))
            <4>1. i = Len(stk)
                BY <3>2, <2>5, <1>1, LastOne
            <4>2. stk'[i] = f
                BY <4>1, <2>4, Zenon
            <4> QED
                BY <4>2, <3>2, Zenon
        <3> QED
            BY <3>1, <3>2
    <2> QED
        BY <2>5, <1>4
<1>6. ASSUME NEW i \in DOMAIN stk' PROVE EntryOK(stk[i])'
    <2>1. CASE i < Len(stk)
        <3>1. i \in DOMAIN stk /\ stk'[i] = stk[i]
            BY <2>1, <1>1, <1>4, <1>5
        <3> QED
            BY <3>1 DEF IInv, TypeOK, EntryOK
    <2>2. CASE ~(i < Len(stk))
        BY <2>2, <1>5 DEF EntryOK
    <2> QED
        BY <2>1, <2>2
<1> QED
    BY <1>4, <1>6

\* A step of the library that gets to another place.
LEMMA GotoOK ==
    ASSUME IInv, Running("rand"), NEW pc \in Pc, Goto(pc), UNCHANGED high
    PROVE  stk' \in Seq(Frame) /\ \A i \in DOMAIN stk' : EntryOK(stk[i])'
<1> DEFINE f == [Top EXCEPT !.pc = pc]
<1>1. stk # <<>>
    BY DEF Running
<1>2. Top \in Frame /\ EntryOK(Top)
    BY <1>1, TopOK
<1>3. f \in Frame /\ EntryOK(f)
    BY <1>2 DEF Frame, EntryOK
<1>4. stk' = Append(Below, f)
    BY DEF Goto
<1> HIDE DEF f
<1> QED
    BY <1>1, <1>3, <1>4, StepOK

\* A function is called, by a function or as a handler.
LEMMA EnterOK == IInv /\ Enter => IInv'
<1> SUFFICES ASSUME IInv, Enter PROVE IInv'
    OBVIOUS
<1>0. UNCHANGED <<high, info, ro, rands>>
    BY DEF Enter
<1>1. PICK n \in FrameSizes :
        /\ Rsp - n \in Usable(high)
        /\ IF Writable(Slot(Rsp - n))
           THEN /\ stk' = Append(stk, Func(Rsp - n, Len(stk) + 1))
                /\ slot' = [slot EXCEPT ![Slot(Rsp - n)] =
                              Len(stk) + 1 + info[Copy(Rsp - n)].random]
                /\ UNCHANGED fault
           ELSE fault' = "write" /\ UNCHANGED <<stk, slot>>
    BY DEF Enter
<1> DEFINE rsp == Rsp - n
           f == Func(rsp, Len(stk) + 1)
<1>2. rsp \in Usable(high) /\ rsp \in Int
    BY <1>1, BuddyAssumption DEF Usable, IInv, TypeOK
<1>3. Len(stk) + 1 \in Int
    BY DEF IInv
<1>4. CASE Writable(Slot(rsp))
    <2>1. /\ stk' = Append(stk, f)
          /\ slot' = [slot EXCEPT ![Slot(rsp)] = Len(stk) + 1 + info[Copy(rsp)].random]
          /\ UNCHANGED fault
        BY <1>1, <1>4
    <2> HIDE DEF rsp
    <2>2. f \in Frame /\ EntryOK(f)
        BY <1>2, <1>3 DEF Func, Frame, EntryOK, Pc
    <2>3. info[Copy(rsp)].random \in Int
        BY DEF Copy, IInv, TypeOK
    <2>4. DOMAIN slot' = ShadowStack(high') /\ \A a \in DOMAIN slot' : slot'[a] \in Int
        BY <2>1, <2>3, <1>0, <1>3 DEF IInv, TypeOK
    <2> HIDE DEF f
    <2>5. stk' \in Seq(Frame) /\ \A i \in DOMAIN stk' : EntryOK(stk[i])'
        BY <2>1, <2>2, <1>0, PushOK
    <2> QED
        BY <2>1, <2>4, <2>5, <1>0 DEF IInv, TypeOK, EntryOK
<1>5. CASE ~Writable(Slot(rsp))
    BY <1>0, <1>1, <1>5 DEF IInv, TypeOK
<1> QED
    BY <1>4, <1>5

LEMMA TypeNext == IInv /\ [Next]_vars => IInv'
<1> SUFFICES ASSUME IInv, [Next]_vars PROVE IInv'
    OBVIOUS
<1>0. MaxRands \in Nat /\ Offsets \subseteq Int
    BY BuddyAssumption
<1>p. \A k \in {2, 3} : /\ Other(k) \in {2, 3}
                        /\ Address(high, k) \in {Ptr2(high), Ptr3(high)}
    BY DEF Other, Address
<1>t. Running("rand") => Top \in Frame /\ Top.k \in {2, 3}
    BY TopOK DEF Running, EntryOK
<1>1. CASE Call
    BY <1>1, EnterOK DEF Call
<1>2. CASE Signal
    BY <1>2, EnterOK DEF Signal
<1>3. CASE Return
    <2>1. stk # <<>> /\ stk' = Below /\ UNCHANGED <<high, slot, info, ro, rands>>
        BY <1>3 DEF Return, Running
    <2>2. fault' \in {"none", "return"}
        BY <1>3 DEF Return
    <2>3. stk' \in Seq(Frame) /\ \A i \in DOMAIN stk' : EntryOK(stk[i])'
        BY <2>1, BelowOK
    <2> QED
        BY <2>1, <2>2, <2>3 DEF IInv, TypeOK, EntryOK
<1>4. CASE Hooked
    <2>1. PICK n \in FrameSizes : /\ Rsp - n \in Usable(high)
                                  /\ stk' = Append(stk, Rand(Rsp - n, Copy(Rsp - n)))
        BY <1>4 DEF Hooked
    <2> DEFINE rsp == Rsp - n
               f == Rand(rsp, Copy(rsp))
    <2>2. rsp \in Usable(high) /\ rsp \in Int /\ stk' = Append(stk, f)
        BY <2>1, BuddyAssumption DEF Usable, IInv, TypeOK
    <2>3. rands' \in 0 .. MaxRands /\ UNCHANGED <<high, slot, info, ro, fault>>
        BY <1>4, <1>0 DEF Hooked, IInv, TypeOK
    <2> HIDE DEF rsp
    <2>4. f \in Frame /\ EntryOK(f)
        BY <2>2 DEF Rand, Frame, EntryOK, Copy, Pc
    <2> HIDE DEF f
    <2>5. stk' \in Seq(Frame) /\ \A i \in DOMAIN stk' : EntryOK(stk[i])'
        BY <2>2, <2>3, <2>4, PushOK
    <2> QED
        BY <2>3, <2>5 DEF IInv, TypeOK, EntryOK
<1>5. CASE Check
    <2>1. UNCHANGED <<high, slot, info, ro, rands, fault>> /\ stk # <<>> /\ Running("rand")
        BY <1>5 DEF Check, At, Running
    <2>2. stk' \in Seq(Frame) /\ \A i \in DOMAIN stk' : EntryOK(stk[i])'
        <3>1. CASE Refused(Top.k)
            BY <2>1, <3>1, <1>5, BelowOK DEF Check
        <3>2. CASE ~Refused(Top.k)
            <4>1. PICK x \in Offsets :
                     stk' = Append(Below, [Top EXCEPT !.pc = "open", !.off = x])
                BY <3>2, <1>5 DEF Check
            <4> DEFINE f == [Top EXCEPT !.pc = "open", !.off = x]
            <4>2. Top \in Frame /\ EntryOK(Top)
                BY <2>1, TopOK
            <4>3. f \in Frame /\ EntryOK(f) /\ stk' = Append(Below, f)
                BY <4>1, <4>2, <1>0 DEF Frame, EntryOK, Pc
            <4> HIDE DEF f
            <4> QED
                BY <2>1, <4>3, StepOK
        <3> QED
            BY <3>1, <3>2
    <2> QED
        BY <2>1, <2>2 DEF IInv, TypeOK, EntryOK
<1>6. CASE Open
    <2>1. Running("rand") /\ Goto("own") /\ UNCHANGED <<high, slot, info, rands, fault>>
        BY <1>6 DEF Open, At
    <2>2. ro' \subseteq ro
        BY <1>6 DEF Open
    <2>3. stk' \in Seq(Frame) /\ \A i \in DOMAIN stk' : EntryOK(stk[i])'
        BY <2>1, GotoOK DEF Pc
    <2> QED
        BY <2>1, <2>2, <2>3 DEF IInv, TypeOK, EntryOK
<1>7. CASE Own
    <2>1. Running("rand") /\ Goto("buddy") /\ UNCHANGED <<high, slot, ro, rands>>
        BY <1>7 DEF Own, At
    <2>2. fault' \in {"none", "write", "return"}
        BY <1>7 DEF Own, IInv, TypeOK
    <2>3. info' \in [{2, 3} -> Info]
        <3>1. Changed(info[Top.k], Top.off, TRUE) \in Info
            BY <2>1, <1>t, ChangedOK DEF Frame
        <3>2. \/ info' = [info EXCEPT ![Top.k] = Changed(info[Top.k], Top.off, TRUE)]
              \/ UNCHANGED info
            BY <1>7 DEF Own
        <3> QED
            BY <2>1, <1>t, <3>1, <3>2, InfoOK
    <2>4. stk' \in Seq(Frame) /\ \A i \in DOMAIN stk' : EntryOK(stk[i])'
        BY <2>1, GotoOK DEF Pc
    <2> QED
        BY <2>1, <2>2, <2>3, <2>4 DEF IInv, TypeOK, EntryOK, Info
<1>8. CASE Buddy
    <2>1. Running("rand") /\ Goto("add") /\ UNCHANGED <<high, slot, rands, fault>>
        BY <1>8 DEF Buddy, At
    <2>2. ro' \subseteq {GuardPage(high), Ptr2(high), Ptr3(high)}
        BY <2>1, <1>8, <1>p, <1>t DEF Buddy, IInv, TypeOK
    <2>3. info' \in [{2, 3} -> Info]
        <3>1. Changed(info[Other(Top.k)], Top.off, FALSE) \in Info
            BY <2>1, <1>p, <1>t, ChangedOK DEF Frame
        <3>2. info' = [info EXCEPT ![Other(Top.k)] =
                                      Changed(info[Other(Top.k)], Top.off, FALSE)]
            BY <1>8 DEF Buddy, BuddyChanged
        <3> QED
            BY <2>1, <1>p, <1>t, <3>1, <3>2, InfoOK
    <2>4. stk' \in Seq(Frame) /\ \A i \in DOMAIN stk' : EntryOK(stk[i])'
        BY <2>1, GotoOK DEF Pc
    <2> QED
        BY <2>1, <2>2, <2>3, <2>4 DEF IInv, TypeOK, EntryOK, Info
<1>9. CASE Add
    <2>1. Running("rand") /\ Goto("clear") /\ UNCHANGED <<high, info, ro, rands, fault>>
        BY <1>9 DEF Add, At
    <2>2. DOMAIN slot' = ShadowStack(high') /\ \A a \in DOMAIN slot' : slot'[a] \in Int
        BY <2>1, <1>9, <1>t DEF Add, IInv, TypeOK, Frame
    <2>3. stk' \in Seq(Frame) /\ \A i \in DOMAIN stk' : EntryOK(stk[i])'
        BY <2>1, GotoOK DEF Pc
    <2> QED
        BY <2>1, <2>2, <2>3 DEF IInv, TypeOK, EntryOK
<1>10. CASE Clear
    <2>1. Running("rand") /\ Goto("close") /\ UNCHANGED <<high, slot, ro, rands>>
        BY <1>10 DEF Clear, At
    <2>2. fault' \in {"none", "write", "return"}
        BY <1>10 DEF Clear, IInv, TypeOK
    <2>3. info' \in [{2, 3} -> Info]
        <3>1. Cleared(info[Top.k]) \in Info
            BY <2>1, <1>t, ClearedOK
        <3>2. info' = [info EXCEPT ![Top.k] = Cleared(info[Top.k])] \/ UNCHANGED info
            BY <1>10 DEF Clear
        <3> QED
            BY <2>1, <1>t, <3>1, <3>2, InfoOK
    <2>4. stk' \in Seq(Frame) /\ \A i \in DOMAIN stk' : EntryOK(stk[i])'
        BY <2>1, GotoOK DEF Pc
    <2> QED
        BY <2>1, <2>2, <2>3, <2>4 DEF IInv, TypeOK, EntryOK, Info
<1>11. CASE Close
    <2>1. /\ Running("rand") /\ stk # <<>> /\ stk' = Below
          /\ UNCHANGED <<high, slot, info, rands, fault>>
        BY <1>11 DEF Close, At, Running
    <2>2. ro' \subseteq {GuardPage(high), Ptr2(high), Ptr3(high)}
        BY <2>1, <1>11, <1>p, <1>t DEF Close, Closed, IInv, TypeOK
    <2>3. stk' \in Seq(Frame) /\ \A i \in DOMAIN stk' : EntryOK(stk[i])'
        BY <2>1, BelowOK
    <2> QED
        BY <2>1, <2>2, <2>3 DEF IInv, TypeOK, EntryOK
<1>12. CASE UNCHANGED vars
    BY <1>12 DEF vars, IInv, TypeOK
<1> QED
    BY <1>1, <1>2, <1>3, <1>4, <1>5, <1>6, <1>7, <1>8, <1>9, <1>10, <1>11, <1>12
    DEF Next

LEMMA Inductive == Spec => []IInv
    BY TypeInit, TypeNext, PTL DEF Spec

\* Every variable of a buddy stack always has its type.
THEOREM TypeCorrect == Spec => []TypeOK
<1>1. IInv => TypeOK
    BY DEF IInv
<1> QED
    BY <1>1, Inductive, PTL

\* Wherever handlers run: every function and every call of the library finds one of the
\* two pages of metadata by rounding its rsp, and no slot lies in either page.
THEOREM MetadataCorrect == Spec => []FindsMetadata
<1>1. TypeOK => FindsMetadata
    <2> SUFFICES ASSUME TypeOK PROVE FindsMetadata
        OBVIOUS
    <2>1. high \in Highs
        BY DEF TypeOK
    <2>2. \A k \in {2, 3} : Address(high, k) \in high - 4 * S .. high - 2 * S
        BY <2>1, PagesInside
    <2>3. ASSUME NEW i \in DOMAIN stk
          PROVE  /\ TlsAddress(stk[i].rsp) = Address(high, Copy(stk[i].rsp))
                 /\ \A k \in {2, 3} : Slot(stk[i].rsp)
                       \notin Address(high, k) .. Address(high, k) + Page - 1
        <3>1. stk[i].rsp \in Usable(high)
            BY DEF TypeOK
        <3>2. \/ TlsAddress(stk[i].rsp) = Ptr2(high)
              \/ TlsAddress(stk[i].rsp) = Ptr3(high)
            BY <2>1, <3>1, MetadataFound
        <3>3. TlsAddress(stk[i].rsp) = Address(high, Copy(stk[i].rsp))
            BY <3>2 DEF Copy, Address
        <3> QED
            BY <3>3, <3>1, <2>1, MetadataApart
    <2> QED
        BY <2>2, <2>3 DEF FindsMetadata
<1> QED
    BY <1>1, TypeCorrect, PTL

-----------------------------------------------------------------------------
(* Changes of the number are whole.  That holds if no handler interrupts      *)
(* between lines 93 and 94, where the page is open and not yet marked busy.   *)

Changing(f) == f.kind = "rand" /\ f.pc \in {"buddy", "add", "clear"}
Settled(i) == slot[Slot(stk[i].rsp)] = stk[i].ret + info[Copy(stk[i].rsp)].random

\* The slot of a function below a change, up to line 104, up to line 115, and after it.
Owed(f, i) ==
    /\ f.pc = "buddy" => slot[Slot(stk[i].rsp)] = stk[i].ret + info[Other(f.k)].random
    /\ f.pc = "add"   => slot[Slot(stk[i].rsp)] + f.off = stk[i].ret + info[f.k].random
    /\ f.pc = "clear" => Settled(i)

\* What holds while the call of the library at index a changes the number.
ChangeInv(a) ==
    LET f == stk[a]
    IN  /\ info[f.k].busy /\ ~info[Other(f.k)].busy
        /\ info[f.k].random = info[Other(f.k)].random + (IF f.pc = "buddy" THEN f.off ELSE 0)
        /\ Address(high, f.k) \notin ro
        /\ \A i \in 1 .. a - 1 : stk[i].kind = "func" => Owed(f, i)

WInv ==
    /\ fault = "none"
    /\ \A i, j \in DOMAIN stk : i < j => stk[j].rsp < stk[i].rsp
    /\ \A i, j \in DOMAIN stk : i < j =>
          /\ stk[i].kind = "rand" => stk[i].pc # "own"
          /\ Changing(stk[i]) => stk[j].kind = "func" \/ stk[j].pc = "check"
    /\ \A a \in DOMAIN stk : Changing(stk[a]) => ChangeInv(a)
    /\ \A i \in DOMAIN stk :
          stk[i].kind = "func" /\ (\A a \in DOMAIN stk : a > i => ~Changing(stk[a])) => Settled(i)
    /\ (\A a \in DOMAIN stk : ~Changing(stk[a])) =>
          info[2].random = info[3].random /\ ~info[2].busy /\ ~info[3].busy
    /\ \A a \in DOMAIN stk :
          stk[a].kind = "rand" /\ stk[a].pc = "own" => Address(high, stk[a].k) \notin ro

\* The call on top has become f; nothing below it is touched.
Becomes(f) ==
    /\ Len(stk) \in Nat \ {0} /\ DOMAIN stk = 1 .. Len(stk) /\ Top = stk[Len(stk)]
    /\ DOMAIN stk' = 1 .. Len(stk)
    /\ \A i \in 1 .. Len(stk) - 1 : stk'[i] = stk[i]
    /\ stk'[Len(stk)] = f

\* What a push, a pop and a step do to the stack, index by index.
LEMMA PushShape ==
    ASSUME IInv, NEW f \in Frame, stk' = Append(stk, f)
    PROVE  /\ Len(stk) \in Nat /\ DOMAIN stk = 1 .. Len(stk) /\ DOMAIN stk' = 1 .. Len(stk) + 1
           /\ \A i \in 1 .. Len(stk) : stk'[i] = stk[i]
           /\ stk'[Len(stk) + 1] = f
<1>1. stk \in Seq(Frame)
    BY DEF IInv
<1> QED
    BY <1>1, AppendOK

LEMMA PopShape ==
    ASSUME IInv, stk # <<>>, stk' = Below
    PROVE  /\ Len(stk) \in Nat \ {0} /\ DOMAIN stk = 1 .. Len(stk) /\ Top = stk[Len(stk)]
           /\ DOMAIN stk' = 1 .. Len(stk) - 1
           /\ \A i \in 1 .. Len(stk) - 1 : stk'[i] = stk[i]
BY DEF IInv, Below, Top

LEMMA StepShape ==
    ASSUME IInv, stk # <<>>, NEW f \in Frame, stk' = Append(Below, f)
    PROVE  Becomes(f)
<1>1. stk \in Seq(Frame) /\ Len(stk) \in Nat \ {0} /\ DOMAIN stk = 1 .. Len(stk)
    BY DEF IInv
<1>2. Below \in Seq(Frame) /\ Len(Below) = Len(stk) - 1
      /\ \A i \in 1 .. Len(stk) - 1 : Below[i] = stk[i]
    BY <1>1 DEF Below
<1>3. /\ stk' \in Seq(Frame) /\ Len(stk') = Len(stk) - 1 + 1
      /\ \A i \in 1 .. Len(stk) - 1 : stk'[i] = Below[i]
      /\ stk'[Len(stk) - 1 + 1] = f
    BY <1>2, AppendOK
<1>4. Len(stk) - 1 + 1 = Len(stk)
    BY <1>1
<1>5. DOMAIN stk' = 1 .. Len(stk)
    BY <1>3, <1>4
<1>6. stk'[Len(stk)] = f
    BY <1>3, <1>4, Zenon
<1> QED
    BY <1>1, <1>2, <1>3, <1>5, <1>6 DEF Top, Becomes

\* Functions and calls of the library have their slots inside the shadow stack, further
\* down for those that are called later.
LEMMA SlotsApart ==
    ASSUME IInv, WInv
    PROVE  /\ \A i \in DOMAIN stk : /\ stk[i].rsp \in Int /\ Slot(stk[i].rsp) \in ShadowStack(high)
                                    /\ stk[i].ret \in Int /\ Copy(stk[i].rsp) \in {2, 3}
           /\ \A i, j \in DOMAIN stk : i < j => Slot(stk[j].rsp) < Slot(stk[i].rsp)
<1>1. ASSUME NEW i \in DOMAIN stk
      PROVE  stk[i].rsp \in Usable(high) /\ stk[i] \in Frame /\ high \in Highs
    BY DEF IInv, TypeOK
<1>2. \A i \in DOMAIN stk : stk[i].rsp \in Int /\ stk[i].ret \in Int
    BY <1>1 DEF Frame
<1>3. \A i \in DOMAIN stk : Slot(stk[i].rsp) \in ShadowStack(high)
    BY <1>1, MetadataApart
<1>4. \A i, j \in DOMAIN stk : i < j => Slot(stk[j].rsp) < Slot(stk[i].rsp)
    BY <1>2, BuddyAssumption DEF WInv, Slot
<1> QED
    BY <1>2, <1>3, <1>4 DEF Copy

LEMMA InfoFacts ==
    ASSUME IInv
    PROVE  \A k \in {2, 3} : /\ Other(k) \in {2, 3} /\ Other(k) # k /\ Other(Other(k)) = k
                             /\ info[k].random \in Int /\ info[k].busy \in BOOLEAN
                             /\ info[Other(k)].random \in Int /\ info[Other(k)].busy \in BOOLEAN
<1>1. \A k \in {2, 3} : Other(k) \in {2, 3} /\ Other(k) # k /\ Other(Other(k)) = k
    BY DEF Other
<1>2. \A k \in {2, 3} : info[k].random \in Int /\ info[k].busy \in BOOLEAN
    BY DEF IInv, TypeOK
<1> QED
    BY <1>1, <1>2

\* Only handlers that give up run above a change, so that there is one at most.
LEMMA OneChange ==
    ASSUME IInv, WInv, Running("rand"), Top.pc # "check"
    PROVE  \A a \in 1 .. Len(stk) - 1 : ~Changing(stk[a])
<1>1. stk # <<>> /\ Top.kind = "rand"
    BY DEF Running
<1>2. Len(stk) \in Nat \ {0} /\ DOMAIN stk = 1 .. Len(stk) /\ Top = stk[Len(stk)]
    BY <1>1 DEF IInv, Top
<1>3. ASSUME NEW a \in 1 .. Len(stk) - 1, Changing(stk[a]) PROVE FALSE
    <2>1. a \in DOMAIN stk /\ Len(stk) \in DOMAIN stk /\ a < Len(stk)
        BY <1>2, <1>3
    <2>2. Top.kind = "func" \/ Top.pc = "check"
        BY <1>2, <1>3, <2>1 DEF WInv
    <2> QED
        BY <1>1, <2>2
<1> QED
    BY <1>3

\* The slot of a function is in a page that nobody closes.
LEMMA SlotWritable ==
    ASSUME IInv, NEW rsp \in Usable(high)
    PROVE  Writable(Slot(rsp))
<1>1. /\ S \in Nat \ {0} /\ Page \in Nat \ {0} /\ high \in Int /\ high \in Highs
    BY BuddyAssumption DEF IInv, TypeOK
<1>2. rsp \in Int /\ rsp >= high - S + Page /\ rsp <= high - 1
    BY <1>1 DEF Usable
<1>3. Slot(rsp) \in Int /\ Slot(rsp) >= high - 2 * S + Page /\ Slot(rsp) < high - S
    BY <1>1, <1>2 DEF Slot
<1>4. Slot(rsp) % Page \in 0 .. Page - 1
    BY <1>1, <1>3
<1>5. /\ PageOf(Slot(rsp)) > high - 2 * S /\ PageOf(Slot(rsp)) < high - S
    BY <1>1, <1>3, <1>4 DEF PageOf
<1>6. Ptr2(high) <= high - 2 * S /\ Ptr3(high) <= high - 2 * S
      /\ Ptr2(high) \in Int /\ Ptr3(high) \in Int
    BY <1>1, PagesInside DEF Address
<1>7. ro \subseteq {high - S, Ptr2(high), Ptr3(high)}
    BY DEF IInv, TypeOK, GuardPage
<1>8. PageOf(Slot(rsp)) \in Int
    BY <1>1, <1>3, <1>4 DEF PageOf
<1> QED
    BY <1>1, <1>5, <1>6, <1>7, <1>8 DEF Writable

\* The metadata begins with a page.
LEMMA MetadataWritable ==
    ASSUME IInv, NEW k \in {2, 3}, Address(high, k) \notin ro
    PROVE  Writable(Address(high, k))
<1>1. S \in Nat \ {0} /\ Page \in Nat \ {0} /\ S % Page = 0 /\ high \in Int
    BY BuddyAssumption DEF IInv, TypeOK
<1>2. \A x \in Int : x % Page \in 0 .. Page - 1 /\ x \div Page \in Int
                     /\ x = (x \div Page) * Page + (x % Page)
    BY <1>1, Z3
<1>3. PICK d \in Int : S = d * Page
    <2> DEFINE e == S \div Page
    <2>1. e \in Int /\ S = e * Page + (S % Page)
        BY <1>1, <1>2
    <2> HIDE DEF e
    <2>2. e * Page \in Int
        BY <1>1, <2>1, Z3
    <2>3. S = e * Page
        BY <1>1, <2>1, <2>2
    <2> QED
        BY <2>1, <2>3
<1>4. PICK q \in Int : Align(high) = q * S
    <2>1. PICK q \in Int : high = q * S + (high % S)
        BY <1>1, Division
    <2>2. q * S \in Int /\ high % S \in Int
        BY <1>1, Z3
    <2>3. high - (high % S) = q * S
        BY <1>1, <2>1, <2>2
    <2> QED
        BY <2>3 DEF Align
<1>5. \E m \in Int : Address(high, k) = m * S
    <2>1. q * S - 2 * S = (q - 2) * S /\ q * S - 3 * S = (q - 3) * S
        BY <1>1, Z3
    <2>2. Address(high, k) = (q - 2) * S \/ Address(high, k) = (q - 3) * S
        BY <1>4, <2>1 DEF Address, Ptr2, Ptr3
    <2> QED
        BY <2>2
<1>6. PICK m \in Int : Address(high, k) = m * S
    BY <1>5
<1>7. PICK n \in Int : Address(high, k) = n * Page
    <2>1. m * (d * Page) = (m * d) * Page /\ m * d \in Int
        BY <1>1, Z3
    <2> QED
        BY <1>3, <1>6, <2>1
<1>8. Address(high, k) % Page = 0
    <2> DEFINE x == n * Page
               e == x \div Page
    <2>1. x \in Int
        BY <1>1, Z3
    <2>2. x % Page \in 0 .. Page - 1 /\ e \in Int /\ n * Page = e * Page + (x % Page)
        BY <1>2, <2>1
    <2> HIDE DEF e
    <2>3. (n - e) * Page = n * Page - e * Page
        BY <1>1, <2>2, Z3
    <2>4. CASE n - e >= 1
        <3>1. (n - e) * Page >= Page
            BY <1>1, <2>2, <2>4, Z3
        <3>2. n * Page \in Int /\ e * Page \in Int
            BY <1>1, <2>2, Z3
        <3> QED
            BY <1>1, <2>2, <2>3, <3>1, <3>2
    <2>5. CASE n - e <= -1
        <3>1. (n - e) * Page <= -Page
            BY <1>1, <2>2, <2>5, Z3
        <3>2. n * Page \in Int /\ e * Page \in Int
            BY <1>1, <2>2, Z3
        <3> QED
            BY <1>1, <2>2, <2>3, <3>1, <3>2
    <2>6. CASE n = e
        <3>1. e * Page \in Int
            BY <1>1, <2>2, Z3
        <3> QED
            BY <1>7, <2>2, <2>6, <3>1
    <2> QED
        BY <2>2, <2>4, <2>5, <2>6
<1>9. Address(high, k) \in Int
    BY <1>1, PagesInside DEF IInv, TypeOK
<1> QED
    BY <1>8, <1>9 DEF Writable, PageOf

\* Something on top returns that is not in the middle of a change.
LEMMA Popped ==
    ASSUME IInv, WInv, stk # <<>>, stk' = Below, ~Changing(Top),
           UNCHANGED <<high, slot, info>>, fault' = "none",
           \A a \in 1 .. Len(stk) - 1 : Changing(stk[a]) => Address(high, stk[a].k) \notin ro'
    PROVE  WInv'
<1>1. /\ Len(stk) \in Nat \ {0} /\ DOMAIN stk = 1 .. Len(stk) /\ Top = stk[Len(stk)]
      /\ DOMAIN stk' = 1 .. Len(stk) - 1
      /\ \A i \in 1 .. Len(stk) - 1 : stk'[i] = stk[i]
    BY PopShape
<1>2. \A i \in DOMAIN stk' : i \in DOMAIN stk /\ stk'[i] = stk[i] /\ i < Len(stk)
    BY <1>1
<1>3. \A i \in DOMAIN stk' : Settled(i)' <=> Settled(i)
    BY <1>2 DEF Settled, Copy, Ptr2
<1>4. \A i \in DOMAIN stk : i \in DOMAIN stk' \/ i = Len(stk)
    BY <1>1
<1>5. \A i, j \in DOMAIN stk' : i < j =>
          /\ stk'[j].rsp < stk'[i].rsp
          /\ stk'[i].kind = "rand" => stk'[i].pc # "own"
          /\ Changing(stk'[i]) => stk'[j].kind = "func" \/ stk'[j].pc = "check"
    BY <1>2 DEF WInv
<1>6. ASSUME NEW a \in DOMAIN stk', Changing(stk'[a]) PROVE ChangeInv(a)'
    <2>1. ChangeInv(a) /\ stk'[a] = stk[a] /\ a \in 1 .. Len(stk) - 1 /\ Changing(stk[a])
        BY <1>1, <1>2, <1>6 DEF WInv
    <2>2. \A i \in 1 .. a - 1 : i \in DOMAIN stk' /\ stk'[i] = stk[i]
        BY <1>1, <2>1
    <2>3. Address(high, stk[a].k) \notin ro'
        BY <2>1
    <2>4. Address(high, stk[a].k)' = Address(high, stk[a].k)
        BY <2>1 DEF Address
    <2>5. \A i \in 1 .. a - 1 : stk[i].kind = "func" => Owed(stk[a], i)'
        BY <1>3, <2>1, <2>2 DEF ChangeInv, Owed
    <2> QED
        BY <2>1, <2>2, <2>3, <2>4, <2>5 DEF ChangeInv
<1>7. ASSUME NEW i \in DOMAIN stk', stk'[i].kind = "func",
             \A a \in DOMAIN stk' : a > i => ~Changing(stk'[a])
      PROVE  Settled(i)'
    <2>1. i \in DOMAIN stk /\ stk[i].kind = "func"
        BY <1>2, <1>7
    <2>2. \A a \in DOMAIN stk : a > i => ~Changing(stk[a])
        BY <1>1, <1>2, <1>4, <1>7
    <2> QED
        BY <1>3, <2>1, <2>2 DEF WInv
<1>8. (\A a \in DOMAIN stk' : ~Changing(stk'[a])) =>
          info'[2].random = info'[3].random /\ ~info'[2].busy /\ ~info'[3].busy
    BY <1>1, <1>2, <1>4 DEF WInv
<1>9. \A a \in DOMAIN stk' : stk'[a].kind = "rand" => stk'[a].pc # "own"
    <2>1. \A a \in DOMAIN stk' : a \in DOMAIN stk /\ Len(stk) \in DOMAIN stk /\ a < Len(stk)
        BY <1>1, <1>2
    <2> QED
        BY <1>2, <2>1 DEF WInv
<1>10. (\A a \in DOMAIN stk : Changing(stk[a]) => ChangeInv(a))'
    BY <1>6 DEF Changing
<1> QED
    BY <1>5, <1>6, <1>7, <1>8, <1>9 DEF WInv, Changing

\* A function or a call of the library begins.
LEMMA Pushed ==
    ASSUME IInv, WInv, NEW f \in Frame, stk' = Append(stk, f),
           f.rsp < Rsp, f.kind = "func" \/ f.pc = "check",
           stk # <<>> /\ Top.kind = "rand" => Top.pc # "own",
           UNCHANGED <<high, info, ro, fault>>,
           \A b \in ShadowStack(high) : b # Slot(f.rsp) => slot'[b] = slot[b],
           f.kind = "func" => slot'[Slot(f.rsp)] = f.ret + info[Copy(f.rsp)].random
    PROVE  WInv'
<1> DEFINE n == Len(stk) + 1
<1>1. /\ Len(stk) \in Nat /\ DOMAIN stk = 1 .. Len(stk) /\ DOMAIN stk' = 1 .. n
      /\ \A i \in 1 .. Len(stk) : stk'[i] = stk[i]
      /\ stk'[n] = f
    BY PushShape
<1>2. \A i \in DOMAIN stk : i \in DOMAIN stk' /\ stk'[i] = stk[i] /\ i < n
    BY <1>1
<1>3. n \in DOMAIN stk' /\ \A i \in DOMAIN stk' : i \in DOMAIN stk \/ i = n
    BY <1>1
<1>4. ~Changing(f) /\ (f.kind = "rand" => f.pc # "own") /\ f.rsp \in Int
    BY DEF Changing, Frame
<1>5. \A i \in DOMAIN stk : f.rsp < stk[i].rsp
    <2>1. CASE stk = <<>>
        BY <1>1, <2>1
    <2>2. CASE stk # <<>>
        <3>1. Rsp = stk[Len(stk)].rsp /\ Len(stk) \in DOMAIN stk
            BY <1>1, <2>2 DEF Rsp, Top, IInv
        <3>2. \A i \in DOMAIN stk : stk[i].rsp \in Int
            BY SlotsApart
        <3>3. \A i \in DOMAIN stk : i = Len(stk) \/ i < Len(stk)
            BY <1>1
        <3>4. \A i \in DOMAIN stk : stk[Len(stk)].rsp <= stk[i].rsp
            BY <3>1, <3>2, <3>3 DEF WInv
        <3> QED
            BY <1>4, <3>1, <3>2, <3>4
    <2> QED
        BY <2>1, <2>2
<1>6. \A i \in DOMAIN stk : slot'[Slot(stk[i].rsp)] = slot[Slot(stk[i].rsp)]
    <2>1. \A i \in DOMAIN stk : Slot(stk[i].rsp) # Slot(f.rsp)
        BY <1>4, <1>5, SlotsApart, BuddyAssumption DEF Slot
    <2> QED
        BY <2>1, SlotsApart
<1>7. \A i \in DOMAIN stk : Settled(i)' <=> Settled(i)
    BY <1>2, <1>6 DEF Settled, Copy, Ptr2
<1>8. \A i, j \in DOMAIN stk' : i < j =>
          /\ stk'[j].rsp < stk'[i].rsp
          /\ stk'[i].kind = "rand" => stk'[i].pc # "own"
          /\ Changing(stk'[i]) => stk'[j].kind = "func" \/ stk'[j].pc = "check"
    <2>1. ASSUME NEW i \in DOMAIN stk, NEW j \in DOMAIN stk, i < j
          PROVE  /\ stk[j].rsp < stk[i].rsp
                 /\ stk[i].kind = "rand" => stk[i].pc # "own"
                 /\ Changing(stk[i]) => stk[j].kind = "func" \/ stk[j].pc = "check"
        BY <2>1 DEF WInv
    <2>2. ASSUME NEW i \in DOMAIN stk, stk[i].kind = "rand" PROVE stk[i].pc # "own"
        <3>1. CASE i < Len(stk)
            <4>1. Len(stk) \in DOMAIN stk
                BY <1>1
            <4> QED
                BY <2>1, <2>2, <3>1, <4>1
        <3>2. CASE i = Len(stk)
            BY <1>1, <2>2, <3>2 DEF Top, IInv
        <3> QED
            BY <1>1, <3>1, <3>2
    <2>3. ASSUME NEW i \in DOMAIN stk', NEW j \in DOMAIN stk', i < j PROVE i \in DOMAIN stk
        BY <1>1, <2>3
    <2> QED
        BY <1>1, <1>2, <1>3, <1>5, <2>1, <2>2, <2>3
<1>9. ASSUME NEW a \in DOMAIN stk', Changing(stk'[a]) PROVE ChangeInv(a)'
    <2>1. a \in DOMAIN stk /\ stk'[a] = stk[a] /\ ChangeInv(a)
        BY <1>1, <1>2, <1>3, <1>4, <1>9 DEF WInv
    <2>2. \A i \in 1 .. a - 1 : i \in DOMAIN stk /\ stk'[i] = stk[i]
        BY <1>1, <2>1
    <2>3. Address(high, stk[a].k)' = Address(high, stk[a].k)
        BY <2>1 DEF Address
    <2>4. \A i \in 1 .. a - 1 : stk[i].kind = "func" => Owed(stk[a], i)'
        BY <1>6, <1>7, <2>1, <2>2 DEF ChangeInv, Owed
    <2> QED
        BY <2>1, <2>2, <2>3, <2>4 DEF ChangeInv
<1>10. ASSUME NEW i \in DOMAIN stk', stk'[i].kind = "func",
              \A a \in DOMAIN stk' : a > i => ~Changing(stk'[a])
       PROVE  Settled(i)'
    <2>1. CASE i = n
        BY <1>1, <1>10, <2>1 DEF Settled, Copy, Ptr2
    <2>2. CASE i # n
        <3>1. i \in DOMAIN stk /\ stk[i].kind = "func"
            BY <1>2, <1>3, <1>10, <2>2
        <3>2. \A a \in DOMAIN stk : a > i => ~Changing(stk[a])
            BY <1>2, <1>10
        <3> QED
            BY <1>7, <3>1, <3>2 DEF WInv
    <2> QED
        BY <2>1, <2>2
<1>11. (\A a \in DOMAIN stk' : ~Changing(stk'[a])) =>
          info'[2].random = info'[3].random /\ ~info'[2].busy /\ ~info'[3].busy
    BY <1>2 DEF WInv
<1>12. \A a \in DOMAIN stk' : stk'[a].kind = "rand" => stk'[a].pc # "own"
    <2>1. \A a \in DOMAIN stk : a < n
        BY <1>1
    <2> QED
        BY <1>1, <1>3, <1>4, <1>8, <2>1
<1> QED
    BY <1>8, <1>9, <1>10, <1>11, <1>12 DEF WInv, Changing

\* A call of the library takes a step before it changes anything.
LEMMA Stepped ==
    ASSUME IInv, WInv, Running("rand"), NEW f \in Frame, Becomes(f),
           f.kind = "rand", f.rsp = Top.rsp, ~Changing(Top), ~Changing(f),
           \A a \in 1 .. Len(stk) - 1 : ~Changing(stk[a]),
           UNCHANGED <<high, slot, info, fault>>,
           f.pc = "own" => Address(high, f.k) \notin ro'
    PROVE  WInv'
<1>1. /\ Len(stk) \in Nat \ {0} /\ DOMAIN stk = 1 .. Len(stk) /\ Top = stk[Len(stk)]
      /\ DOMAIN stk' = 1 .. Len(stk)
      /\ \A i \in 1 .. Len(stk) - 1 : stk'[i] = stk[i]
      /\ stk'[Len(stk)] = f
    BY DEF Becomes
<1>2. \A i \in DOMAIN stk : /\ stk'[i].rsp = stk[i].rsp
                            /\ i < Len(stk) => stk'[i] = stk[i]
                            /\ i = Len(stk) => stk'[i] = f /\ stk[i] = Top
                            /\ i < Len(stk) \/ i = Len(stk)
    BY <1>1
<1>3. \A i \in DOMAIN stk : ~Changing(stk[i]) /\ ~Changing(stk'[i])
    BY <1>1, <1>2
<1>4. \A i, j \in DOMAIN stk' : i < j => /\ stk'[j].rsp < stk'[i].rsp
                                         /\ stk'[i].kind = "rand" => stk'[i].pc # "own"
    <2>1. \A i, j \in DOMAIN stk : i < j => i < Len(stk)
        BY <1>1
    <2> QED
        BY <1>1, <1>2, <2>1 DEF WInv
<1>5. ASSUME NEW i \in DOMAIN stk', stk'[i].kind = "func" PROVE Settled(i)'
    <2>1. i < Len(stk) /\ stk'[i] = stk[i] /\ i \in DOMAIN stk
        BY <1>1, <1>2, <1>5
    <2>2. Settled(i)
        BY <1>3, <1>5, <2>1 DEF WInv
    <2> QED
        BY <2>1, <2>2 DEF Settled, Copy, Ptr2
<1>6. info'[2].random = info'[3].random /\ ~info'[2].busy /\ ~info'[3].busy
    BY <1>3 DEF WInv
<1>7. ASSUME NEW a \in DOMAIN stk', stk'[a].kind = "rand", stk'[a].pc = "own"
      PROVE  Address(high', stk'[a].k) \notin ro'
    <2>1. CASE a = Len(stk)
        BY <1>1, <1>2, <1>7, <2>1
    <2>2. CASE a < Len(stk)
        <3>1. Len(stk) \in DOMAIN stk'
            BY <1>1
        <3> QED
            BY <1>4, <1>7, <2>2, <3>1
    <2> QED
        BY <1>1, <1>2, <2>1, <2>2
<1>8. Address(high', 2) = Address(high, 2) /\ fault' = "none"
    BY DEF WInv
<1> QED
    BY <1>1, <1>3, <1>4, <1>5, <1>6, <1>7, <1>8 DEF WInv, Changing, Address, Ptr2, Ptr3

LEMMA WInit == Init => WInv
BY DEF Init, WInv

\* What the library's steps have in common.
LEMMA StepFrame ==
    ASSUME IInv, WInv, Running("rand"), NEW f \in Frame, Becomes(f),
           NEW n \in Nat, n = Len(stk), f.kind = "rand", f.rsp = Top.rsp,
           Top.pc # "check", f.pc \notin {"own", "check"},
           UNCHANGED high, fault' = "none"
    PROVE  /\ \A i \in DOMAIN stk : /\ stk'[i].rsp = stk[i].rsp /\ i \in 1 .. n
                                    /\ i < n => stk'[i] = stk[i] /\ ~Changing(stk'[i])
                                    /\ i = n => stk'[i] = f
                                    /\ i < n \/ i = n
           /\ Changing(f) /\ ChangeInv(n)' => WInv'
           /\ /\ ~Changing(f)
              /\ info'[2].random = info'[3].random /\ ~info'[2].busy /\ ~info'[3].busy
              /\ \A i \in 1 .. n - 1 : stk[i].kind = "func" => Settled(i)'
              => WInv'
<1>1. /\ n \in Nat \ {0} /\ Len(stk) = n /\ DOMAIN stk = 1 .. n /\ Top = stk[n]
      /\ DOMAIN stk' = 1 .. n
      /\ \A i \in 1 .. n - 1 : stk'[i] = stk[i]
      /\ stk'[n] = f
    BY DEF Becomes
<1>2. \A i \in DOMAIN stk : /\ stk'[i].rsp = stk[i].rsp /\ i \in 1 .. n
                            /\ i < n => stk'[i] = stk[i] /\ ~Changing(stk'[i])
                            /\ i = n => stk'[i] = f
                            /\ i < n \/ i = n
    <2>1. \A a \in 1 .. n - 1 : ~Changing(stk[a])
        BY OneChange
    <2> QED
        BY <1>1, <2>1
<1>3. \A i, j \in DOMAIN stk' : i < j =>
          /\ stk'[j].rsp < stk'[i].rsp
          /\ stk'[i].kind = "rand" => stk'[i].pc # "own"
          /\ Changing(stk'[i]) => stk'[j].kind = "func" \/ stk'[j].pc = "check"
    <2>1. \A i, j \in DOMAIN stk : i < j => i < n
        BY <1>1
    <2> QED
        BY <1>1, <1>2, <2>1 DEF WInv
<1>4. \A a \in DOMAIN stk' : stk'[a].kind = "rand" => stk'[a].pc # "own"
    <2>1. \A i \in DOMAIN stk' : i = n \/ i < n
        BY <1>1
    <2>2. n \in DOMAIN stk'
        BY <1>1
    <2> QED
        BY <1>1, <1>3, <2>1, <2>2
<1>5. ASSUME Changing(f), ChangeInv(n)' PROVE WInv'
    <2>1. \A a \in DOMAIN stk' : Changing(stk'[a]) => a = n
        BY <1>1, <1>2
    <2>2. ASSUME NEW i \in DOMAIN stk', stk'[i].kind = "func",
                 \A a \in DOMAIN stk' : a > i => ~Changing(stk'[a])
          PROVE  FALSE
        <3>1. n \in DOMAIN stk' /\ Changing(stk'[n])
            BY <1>1, <1>5
        <3>2. i = n
            BY <1>1, <1>2, <2>2, <3>1
        <3> QED
            BY <1>1, <2>2, <3>2
    <2>3. n \in DOMAIN stk' /\ Changing(stk'[n])
        BY <1>1, <1>5
    <2>4. \A a \in DOMAIN stk' : Changing(stk'[a]) => ChangeInv(a)'
        BY <1>5, <2>1
    <2> QED
        BY <1>3, <1>4, <2>2, <2>3, <2>4 DEF WInv, Changing
<1>6. ASSUME ~Changing(f),
             info'[2].random = info'[3].random, ~info'[2].busy, ~info'[3].busy,
             \A i \in 1 .. n - 1 : stk[i].kind = "func" => Settled(i)'
      PROVE  WInv'
    <2>1. \A a \in DOMAIN stk' : ~Changing(stk'[a])
        BY <1>1, <1>2, <1>6
    <2>2. \A i \in DOMAIN stk' : stk'[i].kind = "func" =>
              i \in 1 .. n - 1 /\ stk[i].kind = "func"
        BY <1>1, <1>2
    <2>3. \A i \in DOMAIN stk' : stk'[i].kind = "func" => Settled(i)'
        BY <1>6, <2>2
    <2> QED
        BY <1>3, <1>4, <1>6, <2>1, <2>3 DEF WInv, Changing
<1> QED
    BY <1>2, <1>5, <1>6

\* The library's own place moves on, with everything else in its record kept.
LEMMA GotoShape ==
    ASSUME IInv, Running("rand"), NEW pc \in Pc, Goto(pc)
    PROVE  \E f \in Frame : /\ Becomes(f) /\ f.pc = pc /\ f.kind = "rand" /\ f.rsp = Top.rsp
                            /\ f.k = Top.k /\ f.off = Top.off
<1> DEFINE f == [Top EXCEPT !.pc = pc]
<1>1. stk # <<>> /\ Top.kind = "rand"
    BY DEF Running
<1>2. Top \in Frame
    BY <1>1, TopOK
<1>3. /\ f \in Frame /\ f.pc = pc /\ f.kind = "rand" /\ f.rsp = Top.rsp
      /\ f.k = Top.k /\ f.off = Top.off
    BY <1>1, <1>2 DEF Frame
<1>4. stk' = Append(Below, f)
    BY DEF Goto
<1> HIDE DEF f
<1>5. Becomes(f)
    BY <1>1, <1>3, <1>4, StepShape
<1> QED
    BY <1>3, <1>5

LEMMA RunningTop ==
    ASSUME IInv, Running("rand")
    PROVE  /\ Len(stk) \in Nat /\ Len(stk) \in DOMAIN stk /\ DOMAIN stk = 1 .. Len(stk)
           /\ Top = stk[Len(stk)] /\ Top.kind = "rand" /\ Top.k \in {2, 3}
           /\ Top.off \in Int /\ Top.rsp \in Usable(high) /\ Top.rsp \in Int /\ stk # <<>>
<1>1. stk # <<>> /\ Top.kind = "rand"
    BY DEF Running
<1>2. Top \in Frame /\ EntryOK(Top)
    BY <1>1, TopOK
<1>3. Len(stk) \in Nat /\ Len(stk) \in DOMAIN stk /\ DOMAIN stk = 1 .. Len(stk)
    BY <1>1 DEF IInv
<1> QED
    BY <1>1, <1>2, <1>3 DEF Top, Frame, EntryOK

LEMMA EnterWhole ==
    ASSUME IInv, WInv, Enter, stk # <<>> /\ Top.kind = "rand" => Top.pc # "own"
    PROVE  WInv'
<1>1. PICK n \in FrameSizes :
        /\ Rsp - n \in Usable(high)
        /\ IF Writable(Slot(Rsp - n))
           THEN /\ stk' = Append(stk, Func(Rsp - n, Len(stk) + 1))
                /\ slot' = [slot EXCEPT ![Slot(Rsp - n)] =
                              Len(stk) + 1 + info[Copy(Rsp - n)].random]
                /\ UNCHANGED fault
           ELSE fault' = "write" /\ UNCHANGED <<stk, slot>>
    BY DEF Enter
<1> DEFINE rsp == Rsp - n
           f == Func(rsp, Len(stk) + 1)
<1>2. Writable(Slot(rsp))
    BY <1>1, SlotWritable
<1>3. UNCHANGED <<high, info, ro, rands, fault>> /\ stk' = Append(stk, f)
      /\ slot' = [slot EXCEPT ![Slot(rsp)] = Len(stk) + 1 + info[Copy(rsp)].random]
    BY <1>1, <1>2 DEF Enter
<1>4. rsp \in Usable(high) /\ rsp \in Int /\ high \in Highs
    BY <1>1, BuddyAssumption DEF Usable, IInv, TypeOK
<1>5. Rsp \in Int
    <2>1. CASE stk = <<>>
        BY <1>4, <2>1, BuddyAssumption DEF Rsp
    <2>2. CASE stk # <<>>
        BY <2>2, TopOK DEF Rsp, Frame
    <2> QED
        BY <2>1, <2>2
<1>6. rsp < Rsp
    BY <1>5, BuddyAssumption
<1> HIDE DEF rsp
<1>7. Len(stk) + 1 \in Int
    BY DEF IInv
<1>8. f \in Frame /\ f.rsp = rsp /\ f.kind = "func" /\ f.ret = Len(stk) + 1
    BY <1>4, <1>7 DEF Func, Frame, Pc
<1>9. Slot(rsp) \in ShadowStack(high) /\ DOMAIN slot = ShadowStack(high)
    BY <1>4, MetadataApart DEF IInv, TypeOK
<1>10. /\ \A b \in ShadowStack(high) : b # Slot(f.rsp) => slot'[b] = slot[b]
       /\ slot'[Slot(f.rsp)] = f.ret + info[Copy(f.rsp)].random
    BY <1>3, <1>8, <1>9
<1> HIDE DEF f
<1> QED
    BY <1>3, <1>6, <1>8, <1>10, Pushed

LEMMA CallWhole ==
    ASSUME "own" \notin SignalPlaces, IInv, WInv, Call \/ Signal
    PROVE  WInv'
<1>1. Enter
    BY DEF Call, Signal
<1> QED
    BY <1>1, EnterWhole DEF Call, Signal, Running

LEMMA HookedWhole == IInv /\ WInv /\ Hooked => WInv'
<1> SUFFICES ASSUME IInv, WInv, Hooked PROVE WInv'
    OBVIOUS
<1>1. stk # <<>> /\ Top.kind = "func" /\ UNCHANGED <<high, slot, info, ro, fault>>
    BY DEF Hooked, Running
<1>2. PICK n \in FrameSizes : /\ Rsp - n \in Usable(high)
                              /\ stk' = Append(stk, Rand(Rsp - n, Copy(Rsp - n)))
    BY DEF Hooked
<1> DEFINE rsp == Rsp - n
           f == Rand(rsp, Copy(rsp))
<1>3. rsp \in Int /\ Rsp \in Int
    <2>1. Rsp \in Int
        BY <1>1, TopOK DEF Rsp, Frame
    <2> QED
        BY <2>1, BuddyAssumption
<1>4. rsp < Rsp /\ stk' = Append(stk, f)
    BY <1>2, <1>3, BuddyAssumption
<1> HIDE DEF rsp
<1>5. f \in Frame /\ f.rsp = rsp /\ f.kind = "rand" /\ f.pc = "check"
    BY <1>3 DEF Rand, Frame, Copy, Pc
<1> HIDE DEF f
<1> QED
    BY <1>1, <1>4, <1>5, Pushed

LEMMA ReturnWhole == IInv /\ WInv /\ Return => WInv'
<1> SUFFICES ASSUME IInv, WInv, Return PROVE WInv'
    OBVIOUS
<1>1. stk # <<>> /\ Top.kind = "func" /\ stk' = Below /\ UNCHANGED <<high, slot, info, ro>>
    BY DEF Return, Running
<1>2. /\ Len(stk) \in Nat \ {0} /\ DOMAIN stk = 1 .. Len(stk) /\ Top = stk[Len(stk)]
    BY <1>1, PopShape
<1>3. Settled(Len(stk))
    <2>1. Len(stk) \in DOMAIN stk /\ \A a \in DOMAIN stk : ~(a > Len(stk))
        BY <1>2
    <2> QED
        BY <1>1, <1>2, <2>1 DEF WInv
<1>4. slot[Slot(Top.rsp)] - info[Copy(Top.rsp)].random = Top.ret
    <2>1. Top.ret \in Int /\ Copy(Top.rsp) \in {2, 3}
        BY <1>1, TopOK DEF Frame, Copy
    <2>2. info[Copy(Top.rsp)].random \in Int
        BY <2>1, InfoFacts
    <2> QED
        BY <1>2, <1>3, <2>1, <2>2 DEF Settled
<1>5. fault' = "none"
    BY <1>4 DEF Return
<1>6. ~Changing(Top)
    BY <1>1 DEF Changing
<1>7. \A a \in 1 .. Len(stk) - 1 : Changing(stk[a]) => Address(high, stk[a].k) \notin ro'
    BY <1>1, <1>2 DEF WInv, ChangeInv
<1> QED
    BY <1>1, <1>5, <1>6, <1>7, Popped

LEMMA CheckWhole == IInv /\ WInv /\ Check => WInv'
<1> SUFFICES ASSUME IInv, WInv, Check PROVE WInv'
    OBVIOUS
<1>1. Running("rand") /\ Top.pc = "check" /\ UNCHANGED <<high, slot, info, ro, rands, fault>>
    BY DEF Check, At
<1>2. /\ Len(stk) \in Nat /\ Len(stk) \in DOMAIN stk /\ DOMAIN stk = 1 .. Len(stk)
      /\ Top = stk[Len(stk)] /\ Top.k \in {2, 3} /\ stk # <<>> /\ Top.kind = "rand"
    BY <1>1, RunningTop
<1>3. ~Changing(Top) /\ fault = "none"
    BY <1>1 DEF Changing, WInv
<1>4. CASE Refused(Top.k)
    <2>1. stk' = Below
        BY <1>4 DEF Check
    <2>2. \A a \in 1 .. Len(stk) - 1 : Changing(stk[a]) => Address(high, stk[a].k) \notin ro'
        BY <1>1, <1>2 DEF WInv, ChangeInv
    <2> QED
        BY <1>1, <1>2, <1>3, <2>1, <2>2, Popped
<1>5. CASE ~Refused(Top.k)
    <2>1. ~info[Top.k].busy /\ ~info[Other(Top.k)].busy
        BY <1>5 DEF Refused
    <2>2. ~info[2].busy /\ ~info[3].busy
        BY <1>2, <2>1 DEF Other
    <2>3. ASSUME NEW a \in DOMAIN stk, Changing(stk[a]) PROVE FALSE
        <3>1. info[stk[a].k].busy
            BY <2>3 DEF WInv, ChangeInv
        <3>2. stk[a].k \in {2, 3}
            BY <2>3 DEF IInv, Changing
        <3> QED
            BY <2>2, <3>1, <3>2
    <2>4. PICK x \in Offsets : stk' = Append(Below, [Top EXCEPT !.pc = "open", !.off = x])
        BY <1>5 DEF Check
    <2> DEFINE f == [Top EXCEPT !.pc = "open", !.off = x]
    <2>5. x \in Int
        BY BuddyAssumption
    <2>6. f \in Frame /\ f.kind = "rand" /\ f.rsp = Top.rsp /\ f.pc = "open" /\ stk' = Append(Below, f)
        BY <1>2, <2>4, <2>5, TopOK DEF Frame, Pc
    <2> HIDE DEF f
    <2>7. Becomes(f)
        BY <1>2, <2>6, StepShape
    <2>8. ~Changing(f) /\ \A a \in 1 .. Len(stk) - 1 : ~Changing(stk[a])
        BY <1>2, <2>3, <2>6 DEF Changing
    <2> QED
        BY <1>1, <1>3, <2>6, <2>7, <2>8, Stepped
<1> QED
    BY <1>4, <1>5

LEMMA PagesDiffer == IInv => \A k \in {2, 3} : Address(high, k) # Address(high, Other(k))
<1> SUFFICES ASSUME IInv, NEW k \in {2, 3} PROVE Address(high, k) # Address(high, Other(k))
    OBVIOUS
<1>1. high \in Int /\ S \in Nat \ {0}
    BY BuddyAssumption DEF IInv, TypeOK
<1>2. Align(high) \in Int
    BY <1>1, Modulus DEF Align
<1> QED
    BY <1>1, <1>2 DEF Address, Ptr2, Ptr3, Other

LEMMA OpenWhole == IInv /\ WInv /\ Open => WInv'
<1> SUFFICES ASSUME IInv, WInv, Open PROVE WInv'
    OBVIOUS
<1>1. /\ Running("rand") /\ Top.pc = "open" /\ Goto("own")
      /\ ro' = ro \ {Address(high, Top.k)} /\ UNCHANGED <<high, slot, info, rands, fault>>
    BY DEF Open, At
<1>2. PICK f \in Frame : /\ Becomes(f) /\ f.pc = "own" /\ f.kind = "rand" /\ f.rsp = Top.rsp
                         /\ f.k = Top.k /\ f.off = Top.off
    BY <1>1, GotoShape DEF Pc
<1>3. \A a \in 1 .. Len(stk) - 1 : ~Changing(stk[a])
    BY <1>1, OneChange
<1>4. ~Changing(Top) /\ ~Changing(f) /\ Address(high, f.k) \notin ro'
    BY <1>1, <1>2 DEF Changing
<1> QED
    BY <1>1, <1>2, <1>3, <1>4, Stepped

\* Lines 94-96: the page of the caller gets the new number, the buddy has the old one.
LEMMA OwnWhole == IInv /\ WInv /\ Own => WInv'
<1> SUFFICES ASSUME IInv, WInv, Own PROVE WInv'
    OBVIOUS
<1> DEFINE n == Len(stk)
           k == Top.k
<1>1. Running("rand") /\ Top.pc = "own" /\ Goto("buddy") /\ UNCHANGED <<high, slot, ro, rands>>
    BY DEF Own, At
<1>2. /\ n \in Nat /\ n \in DOMAIN stk /\ DOMAIN stk = 1 .. n /\ Top = stk[n] /\ k \in {2, 3}
      /\ Top.kind = "rand" /\ Top.off \in Int
    BY <1>1, RunningTop
<1>3. Address(high, k) \notin ro
    BY <1>1, <1>2 DEF WInv
<1>4. fault' = "none" /\ info' = [info EXCEPT ![k] = Changed(@, Top.off, TRUE)]
    BY <1>2, <1>3, MetadataWritable DEF Own, WInv
<1>5. PICK f \in Frame : /\ Becomes(f) /\ f.pc = "buddy" /\ f.kind = "rand" /\ f.rsp = Top.rsp
                         /\ f.k = k /\ f.off = Top.off
    BY <1>1, GotoShape DEF Pc
<1>6. \A a \in DOMAIN stk : ~Changing(stk[a])
    <2>1. \A a \in 1 .. n - 1 : ~Changing(stk[a])
        BY <1>1, OneChange
    <2> QED
        BY <1>1, <1>2, <2>1 DEF Changing
<1>7. info[2].random = info[3].random /\ ~info[2].busy /\ ~info[3].busy
    BY <1>6 DEF WInv
<1>8. /\ info'[k].random = info[k].random + Top.off /\ info'[k].busy = TRUE
      /\ info'[Other(k)] = info[Other(k)]
    BY <1>2, <1>4, InfoFacts DEF Changed, IInv, TypeOK
<1>9. info[k].random = info[Other(k)].random /\ ~info[Other(k)].busy
    BY <1>2, <1>7 DEF Other
<1>10. stk'[n] = f /\ \A i \in 1 .. n - 1 : stk'[i] = stk[i] /\ i \in DOMAIN stk
    BY <1>5, <1>2 DEF Becomes
<1>11. ASSUME NEW i \in 1 .. n - 1, stk[i].kind = "func" PROVE Owed(f, i)'
    <2>1. Settled(i) /\ Copy(stk[i].rsp) \in {2, 3}
        BY <1>6, <1>10, <1>11, SlotsApart DEF WInv
    <2>2. info[Copy(stk[i].rsp)].random = info'[Other(k)].random
        BY <1>2, <1>7, <1>8, <1>9, <2>1
    <2> QED
        BY <1>1, <1>5, <1>10, <2>1, <2>2 DEF Owed, Settled
<1>12. Address(high', k) \notin ro'
    BY <1>1, <1>3
<1> HIDE DEF k
<1>13. \A m \in Nat : m = n => ChangeInv(m)'
    BY <1>5, <1>8, <1>9, <1>10, <1>11, <1>12 DEF ChangeInv
<1>14. Changing(f)
    BY <1>5 DEF Changing
<1> QED
    BY <1>1, <1>2, <1>4, <1>5, <1>13, <1>14, StepFrame

\* Lines 100-103: so does the buddy.
LEMMA BuddyWhole == IInv /\ WInv /\ Buddy => WInv'
<1> SUFFICES ASSUME IInv, WInv, Buddy PROVE WInv'
    OBVIOUS
<1> DEFINE n == Len(stk)
           k == Top.k
<1>1. /\ Running("rand") /\ Top.pc = "buddy" /\ Goto("add") /\ UNCHANGED <<high, slot, rands, fault>>
      /\ info' = [info EXCEPT ![Other(k)] = Changed(@, Top.off, FALSE)]
      /\ ro' = ro \cup {Address(high, Other(k))}
    BY DEF Buddy, At, BuddyChanged
<1>2. /\ n \in Nat /\ n \in DOMAIN stk /\ DOMAIN stk = 1 .. n /\ Top = stk[n] /\ k \in {2, 3}
      /\ Top.kind = "rand" /\ Top.off \in Int
    BY <1>1, RunningTop
<1>3. ChangeInv(n)
    BY <1>1, <1>2 DEF WInv, Changing
<1>4. /\ info[k].busy /\ ~info[Other(k)].busy /\ Address(high, k) \notin ro
      /\ info[k].random = info[Other(k)].random + Top.off
      /\ \A i \in 1 .. n - 1 : stk[i].kind = "func" =>
            slot[Slot(stk[i].rsp)] = stk[i].ret + info[Other(k)].random
    BY <1>1, <1>2, <1>3 DEF ChangeInv, Owed
<1>5. PICK f \in Frame : /\ Becomes(f) /\ f.pc = "add" /\ f.kind = "rand" /\ f.rsp = Top.rsp
                         /\ f.k = k /\ f.off = Top.off
    BY <1>1, GotoShape DEF Pc
<1>6. /\ info'[Other(k)].random = info[Other(k)].random + Top.off /\ info'[Other(k)].busy = FALSE
      /\ info'[k] = info[k]
    BY <1>1, <1>2, InfoFacts DEF Changed, IInv, TypeOK
<1>7. stk'[n] = f /\ \A i \in 1 .. n - 1 : stk'[i] = stk[i] /\ i \in DOMAIN stk
    BY <1>5, <1>2 DEF Becomes
<1>8. ASSUME NEW i \in 1 .. n - 1, stk[i].kind = "func" PROVE Owed(f, i)'
    <2>1. slot[Slot(stk[i].rsp)] = stk[i].ret + info[Other(k)].random
        BY <1>4, <1>8
    <2>2. stk[i].ret \in Int /\ info[Other(k)].random \in Int
        BY <1>2, <1>7, SlotsApart, InfoFacts
    <2>3. slot[Slot(stk[i].rsp)] + Top.off = stk[i].ret + info[k].random
        BY <1>2, <1>4, <2>1, <2>2
    <2> QED
        BY <1>1, <1>5, <1>6, <1>7, <2>3 DEF Owed
<1>9. Address(high', k) \notin ro'
    BY <1>1, <1>2, <1>4, PagesDiffer
<1>10. info'[k].random = info'[Other(k)].random
    BY <1>4, <1>6
<1>11. info'[k].random = info'[Other(k)].random + 0
    BY <1>2, <1>6, <1>10, InfoFacts
<1> HIDE DEF k
<1>12. \A m \in Nat : m = n => ChangeInv(m)'
    BY <1>4, <1>5, <1>6, <1>7, <1>8, <1>9, <1>11 DEF ChangeInv
<1>13. Changing(f) /\ fault' = "none"
    BY <1>1, <1>5 DEF Changing, WInv
<1> QED
    BY <1>1, <1>2, <1>5, <1>12, <1>13, StepFrame

\* Lines 108-115 reach the slot of every function that is below the call.
LEMMA AddWhole == IInv /\ WInv /\ Add => WInv'
<1> SUFFICES ASSUME IInv, WInv, Add PROVE WInv'
    OBVIOUS
<1> DEFINE n == Len(stk)
           k == Top.k
<1>1. /\ Running("rand") /\ Top.pc = "add" /\ Goto("clear") /\ UNCHANGED <<high, info, ro, rands, fault>>
      /\ slot' = [a \in DOMAIN slot |->
                    IF a \in Rounded(Top.rsp - S) .. high - S - 1 THEN slot[a] + Top.off
                    ELSE slot[a]]
    BY DEF Add, At
<1>2. /\ n \in Nat /\ n \in DOMAIN stk /\ DOMAIN stk = 1 .. n /\ Top = stk[n] /\ k \in {2, 3}
      /\ Top.kind = "rand" /\ Top.off \in Int /\ Top.rsp \in Int
    BY <1>1, RunningTop
<1>3. ChangeInv(n)
    BY <1>1, <1>2 DEF WInv, Changing
<1>4. /\ info[k].busy /\ ~info[Other(k)].busy /\ Address(high, k) \notin ro
      /\ info[k].random = info[Other(k)].random + 0
      /\ \A i \in 1 .. n - 1 : stk[i].kind = "func" =>
            slot[Slot(stk[i].rsp)] + Top.off = stk[i].ret + info[k].random
    BY <1>1, <1>2, <1>3 DEF ChangeInv, Owed
<1>5. PICK f \in Frame : /\ Becomes(f) /\ f.pc = "clear" /\ f.kind = "rand" /\ f.rsp = Top.rsp
                         /\ f.k = k /\ f.off = Top.off
    BY <1>1, GotoShape DEF Pc
<1>6. stk'[n] = f /\ \A i \in 1 .. n - 1 : stk'[i] = stk[i] /\ i \in DOMAIN stk /\ i < n
    BY <1>5, <1>2 DEF Becomes
<1>7. Rounded(Top.rsp - S) \in Int /\ Rounded(Top.rsp - S) <= Top.rsp - S
    <2>1. Top.rsp - S \in Int /\ Vector \in Nat \ {0}
        BY <1>2, BuddyAssumption
    <2>2. (Top.rsp - S) % Vector \in 0 .. Vector - 1
        BY <2>1
    <2> QED
        BY <2>1, <2>2 DEF Rounded
<1>8. ASSUME NEW i \in 1 .. n - 1, stk[i].kind = "func" PROVE Owed(f, i)'
    <2>1. /\ Slot(stk[i].rsp) \in ShadowStack(high) /\ Slot(Top.rsp) < Slot(stk[i].rsp)
          /\ Copy(stk[i].rsp) \in {2, 3} /\ stk[i].ret \in Int
        BY <1>2, <1>6, SlotsApart
    <2>2. high \in Int /\ S \in Int
        BY BuddyAssumption DEF IInv, TypeOK
    <2>3. Slot(stk[i].rsp) \in Rounded(Top.rsp - S) .. high - S - 1
        BY <1>2, <1>7, <2>1, <2>2 DEF Slot, ShadowStack
    <2>4. Slot(stk[i].rsp) \in DOMAIN slot
        BY <2>1 DEF IInv, TypeOK
    <2>5. slot'[Slot(stk[i].rsp)] = slot[Slot(stk[i].rsp)] + Top.off
        BY <1>1, <2>3, <2>4
    <2>6. slot'[Slot(stk[i].rsp)] = stk[i].ret + info[k].random
        BY <1>4, <1>8, <2>5
    <2>7. info[Copy(stk[i].rsp)].random = info[k].random
        BY <1>2, <1>4, <2>1, InfoFacts DEF Other
    <2>8. Copy(stk[i].rsp)' = Copy(stk[i].rsp)
        BY <1>1, <1>6 DEF Copy, Ptr2
    <2> QED
        BY <1>1, <1>5, <1>6, <2>6, <2>7, <2>8 DEF Owed, Settled
<1> HIDE DEF k
<1>9. \A m \in Nat : m = n => ChangeInv(m)'
    BY <1>1, <1>4, <1>5, <1>6, <1>8 DEF ChangeInv, Address, Ptr2, Ptr3
<1>10. Changing(f) /\ fault' = "none"
    BY <1>1, <1>5 DEF Changing, WInv
<1> QED
    BY <1>1, <1>2, <1>5, <1>9, <1>10, StepFrame

\* Line 118 ends the change.
LEMMA ClearWhole == IInv /\ WInv /\ Clear => WInv'
<1> SUFFICES ASSUME IInv, WInv, Clear PROVE WInv'
    OBVIOUS
<1> DEFINE n == Len(stk)
           k == Top.k
<1>1. Running("rand") /\ Top.pc = "clear" /\ Goto("close") /\ UNCHANGED <<high, slot, ro, rands>>
    BY DEF Clear, At
<1>2. /\ n \in Nat /\ n \in DOMAIN stk /\ DOMAIN stk = 1 .. n /\ Top = stk[n] /\ k \in {2, 3}
      /\ Top.kind = "rand"
    BY <1>1, RunningTop
<1>3. ChangeInv(n)
    BY <1>1, <1>2 DEF WInv, Changing
<1>4. /\ ~info[Other(k)].busy /\ Address(high, k) \notin ro
      /\ info[k].random = info[Other(k)].random + 0
      /\ \A i \in 1 .. n - 1 : stk[i].kind = "func" => Settled(i)
    BY <1>1, <1>2, <1>3 DEF ChangeInv, Owed
<1>5. fault' = "none" /\ info' = [info EXCEPT ![k] = [@ EXCEPT !.busy = FALSE]]
    BY <1>2, <1>4, MetadataWritable DEF Clear, Cleared, WInv
<1>6. PICK f \in Frame : /\ Becomes(f) /\ f.pc = "close" /\ f.kind = "rand" /\ f.rsp = Top.rsp
    BY <1>1, GotoShape DEF Pc
<1>7. \A i \in 1 .. n - 1 : stk'[i] = stk[i] /\ i \in DOMAIN stk
    BY <1>6, <1>2 DEF Becomes
<1>8. /\ \A j \in {2, 3} : info'[j].random = info[j].random
      /\ info'[k].busy = FALSE /\ info'[Other(k)] = info[Other(k)]
    BY <1>2, <1>5, InfoFacts DEF IInv, TypeOK
<1>9. info'[2].random = info'[3].random /\ ~info'[2].busy /\ ~info'[3].busy
    <2>1. info[k].random = info[Other(k)].random
        BY <1>2, <1>4, InfoFacts
    <2> QED
        BY <1>2, <1>4, <1>8, <2>1 DEF Other
<1>10. ASSUME NEW i \in 1 .. n - 1, stk[i].kind = "func" PROVE Settled(i)'
    <2>1. Copy(stk[i].rsp)' = Copy(stk[i].rsp) /\ Copy(stk[i].rsp) \in {2, 3}
        BY <1>1, <1>7, SlotsApart DEF Copy, Ptr2
    <2>2. Settled(i)
        BY <1>4, <1>10
    <2> QED
        BY <1>1, <1>7, <1>8, <2>1, <2>2 DEF Settled
<1>11. ~Changing(f)
    BY <1>6 DEF Changing
<1> QED
    BY <1>1, <1>2, <1>5, <1>6, <1>9, <1>10, <1>11, StepFrame

LEMMA CloseWhole == IInv /\ WInv /\ Close => WInv'
<1> SUFFICES ASSUME IInv, WInv, Close PROVE WInv'
    OBVIOUS
<1>1. Running("rand") /\ Top.pc = "close" /\ stk' = Below /\ UNCHANGED <<high, slot, info, rands, fault>>
    BY DEF Close, At
<1>2. \A a \in 1 .. Len(stk) - 1 : ~Changing(stk[a])
    BY <1>1, OneChange
<1>3. stk # <<>> /\ ~Changing(Top) /\ fault' = "none"
    BY <1>1, RunningTop DEF Changing, WInv
<1> QED
    BY <1>1, <1>2, <1>3, Popped

LEMMA StutterWhole == WInv /\ UNCHANGED vars => WInv'
BY DEF vars, WInv, ChangeInv, Owed, Settled, Copy, Address, Ptr2, Ptr3

LEMMA NextWhole ==
    ASSUME "own" \notin SignalPlaces, IInv, WInv, [Next]_vars
    PROVE  WInv'
BY CallWhole, ReturnWhole, HookedWhole, CheckWhole, OpenWhole, OwnWhole, BuddyWhole, AddWhole,
   ClearWhole, CloseWhole, StutterWhole DEF Next

-----------------------------------------------------------------------------
(* Where a call of the library can be: what IInv leaves out and OneAtATime    *)
(* needs.                                                                     *)

RandPc == {"check", "open", "own", "buddy", "add", "clear", "close"}
Placed == \A a \in DOMAIN stk : stk[a].kind = "rand" => stk[a].pc \in RandPc

LEMMA PlacedInit == Init => Placed
<1>1. Init => DOMAIN stk = {}
    BY DEF Init
<1> QED
    BY <1>1 DEF Placed

LEMMA PlacedPop == IInv /\ Placed /\ stk # <<>> /\ stk' = Below => Placed'
<1> SUFFICES ASSUME IInv, Placed, stk # <<>>, stk' = Below PROVE Placed'
    OBVIOUS
<1>1. /\ DOMAIN stk = 1 .. Len(stk) /\ DOMAIN stk' = 1 .. Len(stk) - 1 /\ Len(stk) \in Nat
      /\ \A i \in 1 .. Len(stk) - 1 : stk'[i] = stk[i]
    BY PopShape
<1>2. \A i \in DOMAIN stk' : i \in DOMAIN stk /\ stk'[i] = stk[i]
    BY <1>1
<1> QED
    BY <1>2 DEF Placed

LEMMA PlacedPush ==
    ASSUME IInv, Placed, NEW f, stk' = Append(stk, f), f \in Frame,
           f.kind = "rand" => f.pc \in RandPc
    PROVE  Placed'
<1>1. /\ DOMAIN stk = 1 .. Len(stk) /\ DOMAIN stk' = 1 .. Len(stk) + 1 /\ Len(stk) \in Nat
      /\ \A i \in 1 .. Len(stk) : stk'[i] = stk[i]
      /\ stk'[Len(stk) + 1] = f
    BY PushShape
<1>2. \A i \in DOMAIN stk' : \/ i \in DOMAIN stk /\ stk'[i] = stk[i]
                             \/ stk'[i] = f
    BY <1>1
<1> QED
    BY <1>2 DEF Placed

LEMMA PlacedStep ==
    ASSUME Placed, NEW f, Becomes(f), f.pc \in RandPc
    PROVE  Placed'
<1>1. \A i \in DOMAIN stk' : \/ i \in DOMAIN stk /\ stk'[i] = stk[i]
                             \/ stk'[i] = f
    BY DEF Becomes
<1> QED
    BY <1>1 DEF Placed

LEMMA PlacedGoto ==
    ASSUME IInv, Placed, Running("rand"), NEW pc \in Pc, pc \in RandPc, Goto(pc)
    PROVE  Placed'
BY GotoShape, PlacedStep

LEMMA NextPlaced == IInv /\ Placed /\ [Next]_vars => Placed'
<1> SUFFICES ASSUME IInv, Placed, [Next]_vars PROVE Placed'
    OBVIOUS
<1>1. ASSUME Enter PROVE Placed'
    <2>1. CASE stk' = stk
        BY <2>1 DEF Placed
    <2>2. ASSUME NEW n \in FrameSizes, Rsp - n \in Usable(high),
                 stk' = Append(stk, Func(Rsp - n, Len(stk) + 1))
          PROVE  Placed'
        <3> DEFINE f == Func(Rsp - n, Len(stk) + 1)
        <3>1. Rsp - n \in Int /\ Len(stk) + 1 \in Int
            BY <2>2, BuddyAssumption DEF Usable, IInv, TypeOK
        <3>2. f \in Frame /\ f.kind = "func"
            BY <3>1 DEF Func, Frame, Pc
        <3> QED
            BY <2>2, <3>2, PlacedPush
    <2> QED
        BY <1>1, <2>1, <2>2 DEF Enter
<1>2. CASE Call \/ Signal
    BY <1>1, <1>2 DEF Call, Signal
<1>3. CASE Return
    BY <1>3, PlacedPop DEF Return, Running
<1>4. CASE Hooked
    <2>1. PICK n \in FrameSizes : /\ Rsp - n \in Usable(high)
                                  /\ stk' = Append(stk, Rand(Rsp - n, Copy(Rsp - n)))
        BY <1>4 DEF Hooked
    <2> DEFINE f == Rand(Rsp - n, Copy(Rsp - n))
    <2>2. Rsp - n \in Int
        BY <2>1, BuddyAssumption DEF Usable, IInv, TypeOK
    <2>3. f \in Frame /\ f.pc \in RandPc
        BY <2>2 DEF Rand, Frame, Copy, Pc, RandPc
    <2> QED
        BY <2>1, <2>3, PlacedPush
<1>5. CASE Check
    <2>1. Running("rand") /\ stk # <<>>
        BY <1>5 DEF Check, At, Running
    <2>2. CASE stk' = Below
        BY <2>1, <2>2, PlacedPop
    <2>3. ASSUME NEW x \in Offsets,
                 stk' = Append(Below, [Top EXCEPT !.pc = "open", !.off = x])
          PROVE  Placed'
        <3> DEFINE f == [Top EXCEPT !.pc = "open", !.off = x]
        <3>1. Top \in Frame /\ x \in Int
            BY <2>1, TopOK, BuddyAssumption
        <3>2. f \in Frame /\ f.pc \in RandPc /\ f.rsp = Top.rsp
            BY <3>1 DEF Frame, Pc, RandPc
        <3> HIDE DEF f
        <3>3. stk' = Append(Below, f)
            BY <2>3 DEF f
        <3>4. Becomes(f)
            BY <2>1, <3>2, <3>3, StepShape
        <3> QED
            BY <3>2, <3>4, PlacedStep
    <2> QED
        BY <1>5, <2>2, <2>3 DEF Check
<1>6. CASE Open
    BY <1>6, PlacedGoto DEF Open, At, Pc, RandPc
<1>7. CASE Own
    BY <1>7, PlacedGoto DEF Own, At, Pc, RandPc
<1>8. CASE Buddy
    BY <1>8, PlacedGoto DEF Buddy, At, Pc, RandPc
<1>9. CASE Add
    BY <1>9, PlacedGoto DEF Add, At, Pc, RandPc
<1>10. CASE Clear
    BY <1>10, PlacedGoto DEF Clear, At, Pc, RandPc
<1>11. CASE Close
    BY <1>11, PlacedPop DEF Close, At, Running
<1>12. CASE UNCHANGED vars
    BY <1>12 DEF vars, Placed
<1> QED
    BY <1>2, <1>3, <1>4, <1>5, <1>6, <1>7, <1>8, <1>9, <1>10, <1>11, <1>12 DEF Next

\* What the functions and the pages see of it.
LEMMA WholeImplies ==
    ASSUME IInv, WInv, Placed
    PROVE  ChangesAreWhole /\ ReturnsHome
<1>1. NoWriteFault /\ ReturnsHome
    BY DEF WInv, NoWriteFault, ReturnsHome
<1>2. ASSUME \A i \in DOMAIN stk : stk[i].kind = "func"
      PROVE  \A i \in DOMAIN stk : ~Changing(stk[i])
    BY <1>2 DEF Changing
<1>3. BuddiesAgree
    BY <1>2 DEF WInv, BuddiesAgree
<1>4. SlotsMatch
    BY <1>2 DEF WInv, SlotsMatch, Settled
<1>5. OneAtATime
    <2> SUFFICES ASSUME NEW i \in DOMAIN stk, NEW j \in DOMAIN stk, i # j,
                        stk[i].kind = "rand", stk[j].kind = "rand"
                 PROVE  {stk[i].pc, stk[j].pc} \cap {"check", "open", "own", "close"} # {}
        BY DEF OneAtATime
    <2>1. ASSUME NEW a \in DOMAIN stk, NEW b \in DOMAIN stk, a < b,
                 stk[a].kind = "rand", stk[b].kind = "rand"
          PROVE  stk[a].pc \in {"check", "open", "own", "close"} \/ stk[b].pc = "check"
        <3>1. stk[a].pc \in RandPc
            BY <2>1 DEF Placed
        <3>2. Changing(stk[a]) => stk[b].pc = "check"
            BY <2>1 DEF WInv
        <3> QED
            BY <2>1, <3>1, <3>2 DEF RandPc, Changing
    <2>2. i < j \/ j < i
        BY DEF IInv
    <2> QED
        BY <2>1, <2>2
<1>6. TypeOK
    BY DEF IInv
<1> QED
    BY <1>1, <1>3, <1>4, <1>5, <1>6 DEF ChangesAreWhole

\* Both facts, in the invariant that proves them.
LEMMA WholeAndHome ==
    ASSUME "own" \notin SignalPlaces
    PROVE  Spec => [](ChangesAreWhole /\ ReturnsHome)
<1>1. Init => WInv /\ Placed
    BY WInit, PlacedInit
<1>2. IInv /\ WInv /\ Placed /\ [Next]_vars => WInv' /\ Placed'
    BY NextWhole, NextPlaced
<1>3. IInv /\ WInv /\ Placed => ChangesAreWhole /\ ReturnsHome
    BY WholeImplies
<1> QED
    BY <1>1, <1>2, <1>3, Inductive, PTL DEF Spec

\* Every change of the number is whole, wherever handlers interrupt, except between mprotect
\* and is_randomizing = 1 (simd_rand.c 93-94), where a handler that changes the number too
\* would close the page that the interrupted call is about to write to.
THEOREM ChangesWhole ==
    ASSUME "own" \notin SignalPlaces
    PROVE  Spec => []ChangesAreWhole
BY WholeAndHome, PTL

\* Every function returns to its caller, whichever changes of the number and whichever
\* handlers come between its prologue and its epilogue (simd_rand.c 65-119), with the same
\* exception.
THEOREM ReturnsToCaller ==
    ASSUME "own" \notin SignalPlaces
    PROVE  Spec => []ReturnsHome
BY WholeAndHome, PTL

-----------------------------------------------------------------------------
(* The start of a stack (BuddyStart): the mask follows the environment before any     *)
(* stack is laid out, and what the code looks for follows from the mask.              *)

\* The size that the program is meant to have.
Asked == IF env = Start!Unset THEN Default ELSE env

\* The mask is what the environment asks for as soon as the constructor looks at the
\* main thread, and no stack is laid out before.
MaskInv ==
    /\ step \in {"hooker", "size", "write", "close", "main", "done"}
    /\ step \in {"hooker", "size", "write"} => mask = Default
    /\ step \in {"close", "main", "done"} => mask = Asked
    /\ step \in {"write", "close"} => env # Start!Unset
    /\ step = "write" => maskPage = "rw"
    /\ step \in {"main", "done"} /\ env # Start!Unset => maskPage = "r"
    /\ \A t \in Start!Threads : last[t] # Start!Nowhere => step = "done"

\* A stack that has been laid out.
LaidOut(t) ==
    /\ last[t] = top[t] \/ last[t] = top[t] + 1
    /\ guard[t] = last[t] - mask
    /\ low[t] <= last[t] - 4 * mask

\* Why the code, the mask and the layout agree, in one inductive invariant.
StartInv ==
    /\ Start!TypeOK
    /\ code \in {Start!Unset, Asked}
    /\ MaskInv
    /\ \A t \in Start!Threads : last[t] # Start!Nowhere => LaidOut(t)

-----------------------------------------------------------------------------
\* What the assumption says, without the names of the instance.
LEMMA ConstantsOfStart ==
    /\ Main \notin Others /\ Default \in Nat \ {0, 1} /\ EnvSizes \subseteq Nat \ {0}
    /\ Limits \subseteq Nat /\ Tops \subseteq Nat
    /\ \A l \in Limits, s \in EnvSizes \cup {Default} : l >= 4 * s
    /\ Start!Unset = -1 /\ Start!Nowhere = -1
    /\ Main \in Start!Threads /\ Others \subseteq Start!Threads
BY StartConstants DEF Start!StartAssumption, Start!Unset, Start!Nowhere, Start!Threads

\* The program starts with no stack laid out.
LEMMA StartBegins == Start!Init => StartInv
<1> SUFFICES ASSUME Start!Init  PROVE StartInv
    OBVIOUS
<1>1. \A t \in Start!Threads : last[t] = Start!Nowhere
    BY DEF Start!Init
<1>2. Start!TypeOK
    BY ConstantsOfStart DEF Start!Init, Start!TypeOK
<1>3. code \in {Start!Unset, Asked}
    BY DEF Start!Init, Asked
<1>4. MaskInv
    BY <1>1 DEF Start!Init, MaskInv
<1> QED
    BY <1>1, <1>2, <1>3, <1>4 DEF StartInv

\* One stack is laid out; its bounds come from the thread library.
LEMMA InitTlsKeeps ==
    ASSUME StartInv, step' = "done", UNCHANGED <<env, code, limit, mask, maskPage>>,
           step \in {"main", "done"},
           NEW t \in Start!Threads, last[t] = Start!Nowhere,
           NEW x \in Nat, NEW l \in Int, NEW size \in Int,
           Start!InitTls(t, x, l, size), l <= x - 4 * mask \/ l = x - 4 * mask + 1,
           l + size = x
    PROVE  StartInv'
<1>1. mask \in Nat \ {0}
    BY DEF StartInv, Start!TypeOK
<1> DEFINE h == Start!StackHigh(l, size)
<1>2. h \in Int /\ (h = x \/ h = x + 1) /\ l <= h - 4 * mask
    BY <1>1 DEF Start!StackHigh, Start!StackSize, Start!CallStackSize
<1>3. /\ top' = [top EXCEPT ![t] = x] /\ low' = [low EXCEPT ![t] = l]
      /\ last' = [last EXCEPT ![t] = h] /\ guard' = [guard EXCEPT ![t] = h - mask]
    BY DEF Start!InitTls, Start!GuardPage, Start!CallStackSize
<1> HIDE DEF h
<1>4. {top, low, last, guard} \subseteq [Start!Threads -> Int]
    BY DEF StartInv, Start!TypeOK
<1>5. Start!TypeOK'
    <2>1. {top', low', last', guard'} \subseteq [Start!Threads -> Int]
        BY <1>1, <1>2, <1>3, <1>4
    <2> QED
        BY <2>1 DEF StartInv, Start!TypeOK
<1>6. MaskInv' /\ (code \in {Start!Unset, Asked})'
    BY DEF StartInv, MaskInv, Asked
<1>7. ASSUME NEW u \in Start!Threads, last'[u] # Start!Nowhere  PROVE LaidOut(u)'
    <2>1. CASE u = t
        BY <1>1, <1>2, <1>3, <1>4, <2>1 DEF LaidOut
    <2>2. CASE u # t
        <3>1. last[u] # Start!Nowhere
            BY <1>3, <1>4, <1>7, <2>2
        <3>2. LaidOut(u)
            BY <3>1 DEF StartInv
        <3> QED
            BY <1>3, <1>4, <2>2, <3>2 DEF LaidOut
    <2> QED
        BY <2>1, <2>2
<1> QED
    BY <1>5, <1>6, <1>7 DEF StartInv

\* The other steps of the constructor touch the mask alone.
LEMMA StartKeeps == StartInv /\ [Start!Next]_startvars => StartInv'
<1> SUFFICES ASSUME StartInv, [Start!Next]_startvars  PROVE StartInv'
    OBVIOUS
<1>0. /\ Start!TypeOK /\ MaskInv /\ mask \in Nat \ {0}
      /\ {top, low, last, guard} \subseteq [Start!Threads -> Int]
    BY DEF StartInv, Start!TypeOK
<1> DEFINE Still == UNCHANGED <<env, code, limit, top, low, last, guard>>
<1>1. ASSUME Still, Start!TypeOK', MaskInv', mask' = mask \/ step # "done"  PROVE StartInv'
    <2>1. (code \in {Start!Unset, Asked})'
        BY <1>1 DEF StartInv, Asked
    <2>2. ASSUME NEW u \in Start!Threads, last'[u] # Start!Nowhere  PROVE LaidOut(u)'
        BY <1>1, <2>2 DEF StartInv, LaidOut, MaskInv
    <2> QED
        BY <1>1, <2>1, <2>2 DEF StartInv
<1> HIDE DEF Still
<1>2. CASE Start!Hooker
    BY <1>0, <1>1, <1>2 DEF Start!Hooker, Start!At, Start!AfterHooker, Start!world, Start!stacks,
        Start!TypeOK, MaskInv, Asked, Still
<1>3. CASE Start!OpenMask
    BY <1>0, <1>1, <1>3 DEF Start!OpenMask, Start!At, Start!Opened, Start!world, Start!stacks,
        Start!TypeOK, MaskInv, Asked, Still
<1>4. CASE Start!WriteMask
    <2>1. /\ step = "write" /\ maskPage = "rw" /\ mask' = env /\ step' = "close"
          /\ env \in EnvSizes /\ Still /\ maskPage' = maskPage
        BY <1>0, <1>4 DEF Start!WriteMask, Start!At, Start!SetCallStackSize, Start!world,
            Start!stacks, Start!TypeOK, MaskInv, Still
    <2>2. Start!TypeOK'
        BY <1>0, <2>1, ConstantsOfStart DEF Start!TypeOK, Still
    <2>3. MaskInv'
        BY <1>0, <2>1, ConstantsOfStart DEF MaskInv, Asked, Still
    <2> QED
        BY <1>1, <2>1, <2>2, <2>3
<1>5. CASE Start!CloseMask
    BY <1>0, <1>1, <1>5 DEF Start!CloseMask, Start!At, Start!Closed, Start!world, Start!stacks,
        Start!TypeOK, MaskInv, Asked, Still
<1>6. CASE Start!InitMain
    <2>1. PICK x \in Tops : Start!InitTls(Main, x, x - limit, limit)
        BY <1>6 DEF Start!InitMain
    <2>2. /\ x \in Nat /\ limit \in Nat /\ limit >= 4 * mask
          /\ step = "main" /\ step' = "done" /\ UNCHANGED <<env, code, limit, mask, maskPage>>
        BY <1>0, <1>6, ConstantsOfStart DEF Start!InitMain, Start!At, Start!world, Start!TypeOK,
            MaskInv, Asked
    <2>3. last[Main] = Start!Nowhere
        BY <1>0, <2>2, ConstantsOfStart DEF MaskInv
    <2>4. /\ Main \in Start!Threads /\ x - limit \in Int /\ (x - limit) + limit = x
          /\ x - limit <= x - 4 * mask /\ limit \in Int
        BY <1>0, <2>2, ConstantsOfStart
    <2> QED
        BY <2>1, <2>2, <2>3, <2>4, InitTlsKeeps
<1>7. CASE \E t \in Others : Start!InitOther(t)
    <2>1. PICK t \in Others : Start!InitOther(t)
        BY <1>7
    <2>2. PICK x \in Tops, own \in {0, 1} :
              Start!InitTls(t, x, x - Start!ThreadStackSize + own, Start!ThreadStackSize - own)
        BY <2>1 DEF Start!InitOther
    <2>3. /\ x \in Nat /\ step = "done" /\ step' = "done" /\ last[t] = Start!Nowhere
          /\ UNCHANGED <<env, code, limit, mask, maskPage>> /\ t \in Start!Threads
        BY <2>1, ConstantsOfStart DEF Start!InitOther, Start!At, Start!world
    <2>4. Start!ThreadStackSize = 4 * mask
        BY DEF Start!ThreadStackSize, Start!StackSize, Start!CallStackSize
    <2>5. x - 4 * mask + own \in Int /\ 4 * mask - own \in Int
          /\ x - 4 * mask + own <= x - 4 * mask + 1
          /\ (x - 4 * mask + own) + (4 * mask - own) = x
        BY <1>0, <2>3
    <2>6. x - 4 * mask + own <= x - 4 * mask \/ x - 4 * mask + own = x - 4 * mask + 1
        BY <1>0, <2>3
    <2> QED
        BY <2>2, <2>3, <2>4, <2>5, <2>6, InitTlsKeeps
<1>8. CASE UNCHANGED startvars
    BY <1>0, <1>1, <1>8 DEF startvars, Start!TypeOK, MaskInv, Asked, Still
<1> QED
    BY <1>2, <1>3, <1>4, <1>5, <1>6, <1>7, <1>8 DEF Start!Next

-----------------------------------------------------------------------------
(* What the layout means for the code that runs on the stack.                *)

\* BUDDY_ALIGN_CALL_STACK_POINTER gives the multiple at or below x.
LEMMA RoundDown ==
    ASSUME NEW s \in Nat \ {0}, NEW x \in Int
    PROVE  \E q \in Int : Start!Align(x, s) = q * s /\ q * s <= x /\ x < q * s + s
<1>1. x % s \in 0 .. s - 1 /\ x \div s \in Int
    OBVIOUS
<1>2. x = s * (x \div s) + (x % s)
    BY Z3
<1>3. s * (x \div s) = (x \div s) * s
    BY <1>1, Z3
<1>4. (x \div s) * s \in Int
    BY <1>1, Z3
<1>5. Start!Align(x, s) = (x \div s) * s
    BY <1>1, <1>2, <1>3, <1>4 DEF Start!Align
<1>6. (x \div s) * s <= x /\ x < (x \div s) * s + s
    BY <1>1, <1>2, <1>3, <1>4
<1> QED
    BY <1>1, <1>5, <1>6

\* Rounding leads from anywhere above h - s to the multiple below h or to the one below that.
LEMMA TwoPages ==
    ASSUME NEW s \in Nat \ {0}, NEW h \in Int, NEW r \in Int, h - s < r, r <= h
    PROVE  /\ Start!Align(h, s) \in Int /\ Start!Align(h, s) <= h /\ h - s < Start!Align(h, s)
           /\ Start!Align(r, s) = Start!Align(h, s) \/ Start!Align(r, s) = Start!Align(h, s) - s
<1>1. PICK p \in Int : Start!Align(h, s) = p * s /\ p * s <= h /\ h < p * s + s
    BY RoundDown
<1>2. PICK q \in Int : Start!Align(r, s) = q * s /\ q * s <= r /\ r < q * s + s
    BY RoundDown
<1>3. p * s \in Int /\ q * s \in Int
    BY Z3
<1>4. p * s - q * s > -s /\ p * s - q * s < 2 * s
    BY <1>1, <1>2, <1>3
<1>5. p = q \/ p = q + 1
    BY <1>4, NextMultiple
<1>6. (q + 1) * s = q * s + s
    BY Z3
<1> QED
    BY <1>1, <1>2, <1>3, <1>5, <1>6

\* The instance's own name of the standard operator.
LEMMA SameCardinality == \A A : Start!Cardinality(A) = Cardinality(A)
BY DEF Start!Cardinality, Cardinality

\* The invariant is enough.
LEMMA StartIsInOrder ==
    ASSUME StartInv, 1 \notin EnvSizes
    PROVE  Start!StartsInOrder
<1>1. /\ Start!TypeOK /\ MaskInv /\ mask \in Nat \ {0}
      /\ {top, low, last, guard} \subseteq [Start!Threads -> Int]
    BY DEF StartInv, Start!TypeOK
<1>2. Start!MaskIsClosed
    BY <1>1 DEF Start!MaskIsClosed, MaskInv
<1>3. ASSUME NEW t \in Start!Started
      PROVE  /\ t \in Start!Threads /\ LaidOut(t) /\ Start!SizeInCode = mask /\ mask >= 2
             /\ last[t] \in Int /\ top[t] \in Int /\ low[t] \in Int /\ guard[t] \in Int
    <2>1. t \in Start!Threads /\ last[t] # Start!Nowhere
        BY DEF Start!Started
    <2>2. step = "done" /\ mask = Asked
        BY <1>1, <2>1 DEF MaskInv
    <2>3. Start!SizeInCode = mask
        BY <2>2 DEF StartInv, Start!SizeInCode
    <2>4. mask >= 2
        BY <1>1, <2>2, ConstantsOfStart DEF Asked, Start!TypeOK
    <2> QED
        BY <1>1, <2>1, <2>3, <2>4 DEF StartInv
<1>4. ASSUME NEW t \in Start!Started, NEW rsp \in Start!Frames(t)
      PROVE  Start!LooksAt(rsp) \in Start!Ptrs(t)
    <2>1. /\ rsp \in Int /\ last[t] - mask < rsp /\ rsp <= last[t]
        BY <1>1, <1>3, <1>4 DEF Start!Frames, LaidOut
    <2>2. Start!Align(rsp, mask) = Start!Align(last[t], mask)
              \/ Start!Align(rsp, mask) = Start!Align(last[t], mask) - mask
        BY <1>1, <1>3, <2>1, TwoPages
    <2>3. Start!Align(last[t], mask) \in Int
        BY <1>1, <1>3, <2>1, TwoPages
    <2>4. Start!LooksAt(rsp) = Start!Align(rsp, mask) - 2 * mask
        BY <1>3 DEF Start!LooksAt
    <2>5. Start!Ptrs(t) = {Start!Align(last[t], mask) - n * mask : n \in {2, 3}}
        BY DEF Start!Ptrs, Start!CallStackSize
    <2> DEFINE a == Start!Align(last[t], mask)
    <2>6. a - 2 * mask \in Start!Ptrs(t) /\ a - 3 * mask \in Start!Ptrs(t)
        BY <2>5
    <2>7. Start!LooksAt(rsp) = a - 2 * mask \/ Start!LooksAt(rsp) = a - 3 * mask
        <3> HIDE DEF a
        <3>1. a \in Int /\ mask \in Nat /\ (Start!Align(rsp, mask) = a \/ Start!Align(rsp, mask) = a - mask)
            BY <2>2, <2>3, <1>1 DEF a
        <3> QED
            BY <3>1, <2>4
    <2> QED
        BY <2>6, <2>7
<1>5. ASSUME NEW t \in Start!Started
      PROVE  Cardinality(Start!Frames(t)) \in {Start!SizeInCode - 1, Start!SizeInCode - 2}
    <2>1. /\ guard[t] + 1 \in Int /\ top[t] - 1 \in Int
          /\ guard[t] + 1 <= top[t] - 1 + 1
        BY <1>1, <1>3 DEF LaidOut
    <2>2. Cardinality(Start!Frames(t)) = (top[t] - 1) - (guard[t] + 1) + 1
        <3>1. \A a, b \in Int : Cardinality(a .. b) = IF a > b THEN 0 ELSE b - a + 1
            BY FS_Interval
        <3> DEFINE first == guard[t] + 1
                   end == top[t] - 1
        <3>2. Start!Frames(t) = first .. end
            BY DEF Start!Frames
        <3>3. first \in Int /\ end \in Int /\ first <= end + 1
            BY <2>1
        <3> HIDE DEF first, end
        <3>4. Cardinality(first .. end) = end - first + 1
            BY <3>1, <3>3
        <3> QED
            BY <3>2, <3>4 DEF first, end
    <2>3. (top[t] - 1) - (guard[t] + 1) + 1 \in {mask - 1, mask - 2}
        BY <1>1, <1>3 DEF LaidOut
    <2> QED
        BY <2>2, <2>3, <1>3
<1>6. ASSUME NEW t \in Start!Started
      PROVE  LET pages   == Start!Ptrs(t) \cup {guard[t]}
                 shadows == {r - Start!SizeInCode : r \in Start!Frames(t)}
             IN  /\ Cardinality(pages) = 3
                 /\ pages \cap (shadows \cup Start!Frames(t)) = {}
                 /\ pages \cup shadows \subseteq low[t] .. top[t] - 1
    <2> DEFINE h == last[t]
               a == Start!Align(h, mask)
               shadows == {r - Start!SizeInCode : r \in Start!Frames(t)}
    <2>1. a \in Int /\ a <= h /\ h - mask < a
        <3>1. h \in Int /\ h - mask < h /\ h <= h /\ mask \in Nat \ {0}
            BY <1>1, <1>3
        <3> HIDE DEF h
        <3> QED
            BY <3>1, TwoPages
    <2>2. Start!Ptrs(t) = {a - 2 * mask, a - 3 * mask}
        BY DEF Start!Ptrs, Start!CallStackSize
    <2>3. /\ h \in Int /\ mask \in Nat /\ mask >= 2 /\ guard[t] = h - mask
          /\ low[t] \in Int /\ low[t] <= h - 4 * mask /\ top[t] \in Int
          /\ h = top[t] \/ h = top[t] + 1
        BY <1>1, <1>3 DEF LaidOut
    <2>4. \A r \in Start!Frames(t) : r \in Int /\ h - mask < r /\ r < top[t]
        BY <2>3 DEF Start!Frames
    <2>5. \A s \in shadows : s \in Int /\ h - 2 * mask < s /\ s < top[t] - mask
        BY <1>3, <2>3, <2>4
    <2> HIDE DEF a, h, shadows
    <2>6. /\ a - 2 * mask \in Int /\ a - 3 * mask \in Int /\ h - mask \in Int
          /\ a - 3 * mask < a - 2 * mask /\ a - 2 * mask <= h - 2 * mask
          /\ h - 2 * mask < h - mask /\ h - 4 * mask < a - 3 * mask
          /\ h - mask <= top[t] - 1 /\ top[t] - mask <= h - mask
        BY <2>1, <2>3
    <2> DEFINE pages == {a - 2 * mask, a - 3 * mask, h - mask}
    <2>7. Cardinality(pages) = 3
        <3>1. \A x, y, z : x # y /\ y # z /\ x # z => Cardinality({x, y, z}) = 3
            <4> TAKE x, y, z
            <4> HAVE x # y /\ y # z /\ x # z
            <4>1. IsFiniteSet({x}) /\ Cardinality({x}) = 1
                BY FS_Singleton
            <4>2. IsFiniteSet({x} \cup {y}) /\ Cardinality({x} \cup {y}) = 2
                BY <4>1, FS_AddElement
            <4>3. Cardinality(({x} \cup {y}) \cup {z}) = 3
                BY <4>2, FS_AddElement
            <4>4. ({x} \cup {y}) \cup {z} = {x, y, z}
                OBVIOUS
            <4> QED
                BY <4>3, <4>4
        <3>2. \A x, y \in Int : x < y => x # y
            OBVIOUS
        <3>3. a - 3 * mask # a - 2 * mask
            BY <2>6, <3>2
        <3>4. a - 2 * mask < h - mask /\ a - 3 * mask < h - mask
            <4>1. \A n, b, m \in Int : m >= 2 /\ b <= n => b - 2 * m < n - m /\ b - 3 * m < n - m
                OBVIOUS
            <4>2. mask \in Int /\ mask >= 2 /\ h \in Int /\ a \in Int /\ a <= h
                BY <2>1, <2>3
            <4> QED
                BY <4>1, <4>2
        <3>5. a - 2 * mask # h - mask /\ a - 3 * mask # h - mask
            BY <2>6, <3>2, <3>4
        <3> QED
            BY <3>1, <3>3, <3>5
    <2>8. pages \cap (shadows \cup Start!Frames(t)) = {}
        BY <2>3, <2>4, <2>5, <2>6
    <2>9. pages \cup shadows \subseteq low[t] .. top[t] - 1
        BY <2>3, <2>5, <2>6
    <2>10. Start!Ptrs(t) \cup {guard[t]} = pages
        BY <2>2, <2>3
    <2> QED
        BY <2>7, <2>8, <2>9, <2>10 DEF shadows
<1>7. Start!CodeFindsMetadata
    BY <1>4 DEF Start!CodeFindsMetadata
<1>8. Start!WholeSizeUsable
    BY <1>5, SameCardinality DEF Start!WholeSizeUsable
<1>9. Start!PagesApart
    BY <1>6, SameCardinality DEF Start!PagesApart
<1> QED
    BY <1>1, <1>2, <1>7, <1>8, <1>9 DEF Start!StartsInOrder

\* Every stack starts in the layout that BuddyStack begins with, for any number of threads,
\* any size the environment asks for but a single page, any limit of at least four times
\* the size and any place where the stack ends.  init.c 149 does not look at the size; in
\* one of a page the guard page of the thread library leaves no page for frames.
THEOREM EveryStackInOrder ==
    ASSUME 1 \notin EnvSizes
    PROVE  SpecBoth => []StartsInOrder
<1>1. InitBoth => StartInv
    BY StartBegins DEF InitBoth
<1>2. StartInv /\ [OnStack \/ Starting]_allvars => StartInv'
    BY StartKeeps DEF OnStack, Starting, allvars, startvars
<1>3. StartInv => StartsInOrder
    BY StartIsInOrder DEF StartsInOrder
<1> QED
    BY <1>1, <1>2, <1>3, PTL DEF SpecBoth
=============================================================================
