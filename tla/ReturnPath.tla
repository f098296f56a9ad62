----------------------------- MODULE ReturnPath -----------------------------
(***************************************************************************)
(* One thread of a program built by FlashStack: the prologues, epilogues   *)
(* and call sequences that afl-as.c writes for the build USE_SPA_GS_RSP,   *)
(* the moves of the shadow stack by gs.rsp.c, and signals, longjmp and     *)
(* tail calls among them.                                                  *)
(*                                                                         *)
(* Words of the call stack are numbered in the direction in which the      *)
(* stack grows, so "8(%rsp)" is word rsp - 1.  The shadow stack has a slot *)
(* for each word: gs:(rsp - 2^47) is the slot of word rsp.                 *)
(***************************************************************************)
EXTENDS Naturals, Sequences

CONSTANTS
    Sites,              \* return addresses of the calls of the program
    Restorer,           \* return address of signal handlers
    NoSite,             \* what a fresh shadow stack holds
    Nowhere,            \* no return has happened since the last call
    Bases,              \* places for the shadow stack
    Size,               \* words of the call stack
    RedZone,            \* words below rsp that the kernel leaves to the function
    CallInstrumented,   \* ENABLE_GS_RSP_CALL_INSTRUMENTED (spa.h 18-19)
    SignalsAt           \* the places, of Places, where a signal may arrive

AppCode == {"entry", "body", "link", "leave"}
RerandCode == {"look", "test", "set", "map", "gs", "clear", "exit"}
Moving == {"map", "gs", "clear"}

ASSUME SiteAssumption ==
    /\ Restorer \notin Sites
    /\ NoSite \notin Sites \cup {Restorer}
    /\ Nowhere \notin Sites \cup {Restorer, NoSite}
ASSUME SizeAssumption == Size \in Nat
ASSUME RedZoneAssumption == RedZone \in Nat \ {0}
ASSUME SwitchAssumption == CallInstrumented \in BOOLEAN
ASSUME SignalAssumption == SignalsAt \subseteq AppCode \cup RerandCode

VARIABLES
    cur,        \* the function that runs
    frames,     \* the functions that wait for it, the newest last
    shadow,     \* the slots of the shadow stack
    gs, home,   \* where gs leads to, where the shadow stack is mapped
    busy,       \* is_randomizing
    went,       \* where the last step returned to; only the properties use it
    fault       \* the thread has touched pages that are not mapped

vars == <<cur, frames, shadow, gs, home, busy, went, fault>>
stacks == <<cur, frames, went>>
region == <<shadow, gs, home, busy>>

-----------------------------------------------------------------------------
(* A function: its return address and the word that holds it, whether it   *)
(* has a prologue and an epilogue, its rsp, the place it is at and what it *)
(* holds in a register: r11 of an instrumented call, pMetadata of a move.  *)

Frame(site, prot, at, rsp, pc, reg) ==
    [site |-> site, prot |-> prot, at |-> at, rsp |-> rsp, pc |-> pc, reg |-> reg]

FrameType ==
    [site : Sites \cup {Restorer, NoSite}, prot : BOOLEAN, at : 0..Size,
     rsp : 0..Size, pc : AppCode \cup RerandCode,
     reg : Sites \cup Bases \cup {NoSite}]

Goto(pc, reg) == Frame(cur.site, cur.prot, cur.at, cur.rsp, pc, reg)

StartBehindPrologue(prot) == "body"
(* A function without a prologue starts in its body. *)
Start(prot) == IF prot THEN "entry" ELSE "body"

(* gs:(%rsp, %r10) and gs:-8(%rsp, %r10) *)
SlotAt(rsp) == rsp
SlotBelowForgotten(rsp) == rsp
SlotBelow(rsp) == rsp + 1

Enter(f, waiting) ==
    /\ cur' = f
    /\ frames' = Append(frames, waiting)
    /\ went' = Nowhere

Leave(to) ==
    /\ frames # <<>>
    /\ cur' = frames[Len(frames)]
    /\ frames' = SubSeq(frames, 1, Len(frames) - 1)
    /\ went' = to

Crash == fault' = TRUE /\ UNCHANGED <<stacks, region>>

-----------------------------------------------------------------------------
(* The code of the program. *)

Call(s, prot) ==
    /\ cur.pc = "body" /\ cur.rsp < Size
    /\ Enter(Frame(s, prot, cur.rsp + 1, cur.rsp + 1, Start(prot), NoSite), cur)
    /\ UNCHANGED <<region, fault>>

(* Copies (%rsp) to its slot. *)
Prologue ==
    /\ cur.pc = "entry" /\ gs = home
    /\ shadow' = [shadow EXCEPT ![SlotAt(cur.rsp)] = cur.site]
    /\ cur' = Goto("body", NoSite)
    /\ UNCHANGED <<frames, went, gs, home, busy, fault>>

(* The function takes or gives back room for its data. *)
Locals(n) ==
    /\ cur.pc = "body"
    /\ cur' = Frame(cur.site, cur.prot, cur.at, n, "body", NoSite)
    /\ UNCHANGED <<frames, went, region, fault>>

(* An instrumented call writes the slot of the callee, then enters the     *)
(* callee behind its prologue.                                             *)
LinkWrite(s) ==
    /\ CallInstrumented
    /\ cur.pc = "body" /\ cur.rsp < Size /\ gs = home
    /\ shadow' = [shadow EXCEPT ![SlotBelow(cur.rsp)] = s]
    /\ cur' = Goto("link", s)
    /\ UNCHANGED <<frames, went, gs, home, busy, fault>>

LinkCall ==
    /\ cur.pc = "link"
    /\ Enter(Frame(cur.reg, TRUE, cur.rsp + 1, cur.rsp + 1, "body", NoSite),
             Goto("body", NoSite))
    /\ UNCHANGED <<region, fault>>

(* A jump to another function, which finds the caller's return address. *)
TailCall(prot) ==
    /\ cur.pc = "body" /\ cur.rsp = cur.at /\ frames # <<>>
    /\ cur' = Frame(cur.site, prot, cur.at, cur.at, Start(prot), NoSite)
    /\ UNCHANGED <<frames, went, region, fault>>

(* ret, in a function that is not protected. *)
PlainReturn ==
    /\ ~cur.prot /\ cur.pc \in {"body", "exit"} /\ cur.rsp = cur.at
    /\ Leave(cur.site)
    /\ UNCHANGED <<region, fault>>

(* The epilogue drops the return address from the call stack ... *)
Drop ==
    /\ cur.prot /\ cur.pc = "body" /\ cur.rsp = cur.at
    /\ cur' = Frame(cur.site, TRUE, cur.at, cur.at - 1, "leave", NoSite)
    /\ UNCHANGED <<frames, went, region, fault>>

(* ... and jumps through the slot of the word it has dropped. *)
Jump ==
    /\ cur.pc = "leave" /\ gs = home
    /\ Leave(shadow[SlotBelow(cur.rsp)])
    /\ UNCHANGED <<region, fault>>

(* An access to a slot while gs leads to pages that have moved away. *)
SlotFault ==
    /\ gs # home
    /\ \/ cur.pc \in {"entry", "leave"}
       \/ CallInstrumented /\ cur.pc = "body" /\ cur.rsp < Size
    /\ Crash

(* longjmp, or an exception caught by the function of frames[n]. *)
Unwind(n) ==
    /\ cur.pc = "body" /\ frames[n].pc = "body"
    /\ cur' = frames[n]
    /\ frames' = SubSeq(frames, 1, n - 1)
    /\ went' = Nowhere
    /\ UNCHANGED <<region, fault>>

(* The kernel puts the handler's frame beyond the red zone.  When the      *)
(* handler returns, sigreturn resumes the function with its registers.     *)
HandlerTop == cur.rsp + RedZone + 1

Signal(prot) ==
    /\ cur.pc \in SignalsAt /\ HandlerTop <= Size
    /\ Enter(Frame(Restorer, prot, HandlerTop, HandlerTop, Start(prot), NoSite), cur)
    /\ UNCHANGED <<region, fault>>

-----------------------------------------------------------------------------
(* gs_rsp_runtime_rerandomize, called by a hook. *)

RerandCall(s) ==
    /\ cur.pc = "body" /\ cur.rsp < Size
    /\ Enter(Frame(s, FALSE, cur.rsp + 1, cur.rsp + 1, "look", NoSite), cur)
    /\ UNCHANGED <<region, fault>>

(* get_gs_rsp_metadata_by_rsp: the metadata is found through gs. *)
Look ==
    /\ cur.pc = "look"
    /\ cur' = Goto("test", gs)
    /\ UNCHANGED <<frames, went, region, fault>>

MayAlwaysMove == TRUE
(* is_randomizing keeps moves from nesting. *)
MayMove == ~busy

Test ==
    /\ cur.pc = "test" /\ cur.reg = home
    /\ cur' = IF MayMove THEN Goto("set", cur.reg) ELSE Goto("exit", NoSite)
    /\ UNCHANGED <<frames, went, region, fault>>

(* Sets is_randomizing.  Straight to the end if the period is not over, no *)
(* memory was found or gs could not hold the place.                        *)
Set ==
    /\ cur.pc = "set" /\ cur.reg = home
    /\ busy' = TRUE
    /\ \E next \in {"map", "clear"} : cur' = Goto(next, cur.reg)
    /\ UNCHANGED <<frames, went, shadow, gs, home, fault>>

CarriedNot == [w \in 1..Size |-> NoSite]
(* mremap moves the pages, and what they hold with them. *)
Carried == shadow

Map(b) ==
    /\ cur.pc = "map" /\ b # home
    /\ home' = b
    /\ shadow' = Carried
    /\ cur' = Goto("gs", cur.reg)
    /\ UNCHANGED <<frames, went, gs, busy, fault>>

MapFails ==
    /\ cur.pc = "map"
    /\ cur' = Goto("clear", cur.reg)
    /\ UNCHANGED <<frames, went, region, fault>>

GsNotSet == gs
(* ARCH_SET_GS; pMetadata is found again from the new place. *)
NewGs == home

SetGs ==
    /\ cur.pc = "gs"
    /\ gs' = NewGs
    /\ cur' = Goto("clear", home)
    /\ UNCHANGED <<frames, went, shadow, home, busy, fault>>

Clear ==
    /\ cur.pc = "clear" /\ cur.reg = home
    /\ busy' = FALSE
    /\ cur' = Goto("exit", NoSite)
    /\ UNCHANGED <<frames, went, shadow, gs, home, fault>>

(* pMetadata leads to pages that have moved away. *)
MetadataFault ==
    /\ cur.pc \in {"test", "set", "clear"} /\ cur.reg # home
    /\ Crash

-----------------------------------------------------------------------------

Init ==
    /\ cur = Frame(NoSite, FALSE, 0, 0, "body", NoSite)
    /\ frames = <<>>
    /\ shadow = [w \in 1..Size |-> NoSite]
    /\ home \in Bases
    /\ gs = home
    /\ busy = FALSE
    /\ went = Nowhere
    /\ fault = FALSE

Program ==
    \/ \E s \in Sites : LinkWrite(s) \/ RerandCall(s) \/ (\E p \in BOOLEAN : Call(s, p))
    \/ \E p \in BOOLEAN : TailCall(p) \/ Signal(p)
    \/ \E n \in cur.at..Size : Locals(n)
    \/ \E n \in 1..Len(frames) : Unwind(n)
    \/ Prologue \/ LinkCall \/ PlainReturn \/ Drop \/ Jump \/ SlotFault

Rerand ==
    \/ Look \/ Test \/ Set \/ MapFails \/ SetGs \/ Clear \/ MetadataFault
    \/ \E b \in Bases : Map(b)

Next == ~fault /\ (Program \/ Rerand)

Spec == Init /\ [][Next]_vars

-----------------------------------------------------------------------------
(* Properties *)

(* All activations, the oldest first. *)
Depth == Len(frames) + 1
Act(i) == IF i = Depth THEN cur ELSE frames[i]

(* Lines 7091-7093 and 7548-7550 of afl-as.c and 577-613 of gs.rsp.c: once *)
(* the prologue has run, the slot of a protected function holds its return *)
(* address until it returns, and so does the slot that an instrumented     *)
(* call has filled.  No handler, no unprotected function and no move       *)
(* disturbs it.                                                            *)
SlotsAgree ==
    \A i \in 1..Depth :
        /\ Act(i).prot /\ Act(i).pc # "entry" => shadow[Act(i).at] = Act(i).site
        /\ Act(i).pc = "link" => shadow[Act(i).rsp + 1] = Act(i).reg

(* Lines 531-535 and 627 of gs.rsp.c: a handler that interrupts a move may *)
(* call hooked functions, and yet no move starts inside another.           *)
OneMove ==
    \A i, j \in 1..Depth : Act(i).pc \in Moving /\ Act(j).pc \in Moving => i = j

(* Lines 522-535 and 581-597 of gs.rsp.c: signals hurt in two windows      *)
(* only, between finding the metadata and setting is_randomizing, and      *)
(* between mremap and ARCH_SET_GS.  Elsewhere in a move a handler may be   *)
(* protected and may call hooked functions.                                *)
Windows == {"test", "set", "gs"}
SafeOutsideWindows == SignalsAt \cap Windows = {} => ~fault

(* Each part of the state has its type. *)
TypeOK ==
    /\ cur \in FrameType
    /\ frames \in Seq(FrameType)
    /\ shadow \in [1..Size -> Sites \cup {Restorer, NoSite}]
    /\ gs \in Bases /\ home \in Bases
    /\ busy \in BOOLEAN /\ fault \in BOOLEAN
    /\ went \in Sites \cup {Restorer, NoSite, Nowhere}

(* Where the places of a function put rsp and what they keep in reg. *)
Shape(f) ==
    /\ f.prot => f.at > 0
    /\ f.pc \in {"entry", "leave"} => f.prot
    /\ f.pc \in RerandCode => ~f.prot
    /\ f.pc \in {"body", "link"} => f.at <= f.rsp
    /\ f.pc \in RerandCode \cup {"entry"} => f.at = f.rsp
    /\ f.pc = "leave" => f.at = f.rsp + 1
    /\ f.pc = "link" => f.rsp < Size /\ f.reg \in Sites
    /\ f.pc \in {"test", "set", "map", "gs", "clear"} => f.reg \in Bases

(* Slots of f in use are not the slots of functions entered later. *)
Below(f, g) == f.at < g.at /\ (f.pc = "link" => f.rsp + 1 < g.at)

Ordered ==
    /\ \A i \in 1..Depth : Shape(Act(i))
    /\ \A j \in 1..Depth : \A i \in 1..(j - 1) : Below(Act(i), Act(j))

MoveInv ==
    /\ OneMove
    /\ \A i \in 1..Depth : Act(i).pc \in Moving => busy
    /\ \A i \in 1..Depth : Act(i).pc \in {"map", "clear"} => Act(i).reg = home
    /\ \A j \in 1..Depth : Act(j).pc = "set" => \A i \in 1..(j - 1) : Act(i).pc \notin Moving

QuietInv ==
    SignalsAt \cap Windows = {} =>
        /\ ~fault
        /\ \A i \in 1..Depth : Act(i).pc \in Windows => i = Depth
        /\ gs # home => cur.pc = "gs"
        /\ cur.pc \in {"test", "set"} => cur.reg = home

(* The inductive invariant of ReturnPathProofs. *)
RInv == TypeOK /\ Ordered /\ SlotsAgree /\ MoveInv /\ QuietInv

(* Lines 7091-7093, 7271-7372 and 7548-7550 of afl-as.c: the thread        *)
(* implements the return stack, a return goes where its call came from.    *)
Pending ==
    [i \in 1..Len(frames) |-> IF i = Len(frames) THEN cur.site ELSE frames[i + 1].site]

Promise == INSTANCE ReturnStack
               WITH Places <- Sites \cup {Restorer}, NoPlace <- Nowhere, calls <- Pending

ReturnsMatch == Promise!Spec
=============================================================================
