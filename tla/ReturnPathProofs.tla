-------------------------- MODULE ReturnPathProofs --------------------------
(***************************************************************************)
(* Theorems about ReturnPath for every number of words, sites and places   *)
(* of the shadow stack, and every choice of where signals arrive.          *)
(***************************************************************************)
EXTENDS ReturnPath, TLAPS

-----------------------------------------------------------------------------
(* How the activations change when a function stays, enters or ends. *)

LEMMA DepthType == ASSUME TypeOK
                   PROVE  /\ Len(frames) \in Nat /\ Depth \in Nat \ {0}
                          /\ \A i \in 1..Depth : Act(i) \in FrameType
                          /\ Act(Depth) = cur
BY DEF TypeOK, Depth, Act

LEMMA ActsStay ==
  ASSUME TypeOK, frames' = frames
  PROVE  /\ Depth' = Depth
         /\ \A i \in 1..Depth : Act(i)' = IF i = Depth THEN cur' ELSE Act(i)
BY DEF TypeOK, Depth, Act

LEMMA ActsEnter ==
  ASSUME TypeOK, NEW w \in FrameType, frames' = Append(frames, w)
  PROVE  /\ Depth' = Depth + 1 /\ frames' \in Seq(FrameType)
         /\ \A i \in 1..(Depth + 1) :
              Act(i)' = IF i = Depth + 1 THEN cur' ELSE IF i = Depth THEN w ELSE Act(i)
<1>1. /\ Len(frames) \in Nat /\ Len(frames') = Len(frames) + 1
      /\ \A i \in 1..Len(frames) : frames'[i] = frames[i]
      /\ frames'[Len(frames) + 1] = w
  BY DEF TypeOK
<1>2. QED
  BY <1>1 DEF TypeOK, Depth, Act

LEMMA ActsCut ==
  ASSUME TypeOK, NEW n \in 1..Len(frames), cur' = frames[n], frames' = SubSeq(frames, 1, n - 1)
  PROVE  /\ Depth' = n /\ n < Depth /\ frames' \in Seq(FrameType) /\ cur' \in FrameType
         /\ \A i \in 1..n : Act(i)' = Act(i)
<1>1. /\ Len(frames) \in Nat /\ Len(frames') = n - 1
      /\ \A i \in 1..(n - 1) : frames'[i] = frames[i]
      /\ frames' \in Seq(FrameType)
  BY DEF TypeOK
<1>2. QED
  BY <1>1 DEF TypeOK, Depth, Act

-----------------------------------------------------------------------------

LEMMA InitHolds == ASSUME Init PROVE RInv
<1>1. TypeOK
  <2>1. cur \in FrameType
    BY SizeAssumption DEF Init, FrameType, Frame, AppCode
  <2>2. frames \in Seq(FrameType)
    BY DEF Init
  <2>3. shadow \in [1..Size -> Sites \cup {Restorer, NoSite}]
    BY DEF Init
  <2>4. gs \in Bases /\ home \in Bases /\ busy \in BOOLEAN /\ fault \in BOOLEAN
    BY DEF Init
  <2>5. QED
    BY <2>1, <2>2, <2>3, <2>4 DEF Init, TypeOK
<1>2. Depth = 1 /\ Act(1) = Frame(NoSite, FALSE, 0, 0, "body", NoSite)
  BY DEF Init, Depth, Act
<1>3. Ordered /\ SlotsAgree /\ MoveInv /\ QuietInv
  BY <1>2 DEF Init, Ordered, Shape, SlotsAgree, MoveInv, OneMove, QuietInv, Frame, RerandCode, Moving, Windows
<1>4. QED
  BY <1>1, <1>3 DEF RInv

(* Functions that end leave the others as they are. *)
LEMMA CutKeeps ==
  ASSUME RInv, NEW n \in 1..Len(frames), cur' = frames[n], frames' = SubSeq(frames, 1, n - 1),
         cur.pc \in {"body", "leave", "exit"},
         went' \in Sites \cup {Restorer, NoSite, Nowhere}, UNCHANGED <<region, fault>>
  PROVE  RInv'
<1>1. TypeOK
  BY DEF RInv
<1>2. /\ Depth' = n /\ n < Depth /\ frames' \in Seq(FrameType) /\ cur' \in FrameType
      /\ \A i \in 1..n : Act(i)' = Act(i)
  BY <1>1, ActsCut
<1>3. Depth \in Nat /\ Act(Depth) = cur /\ n \in Nat /\ Act(n)' = cur'
  BY <1>1, <1>2, DepthType DEF Act
<1>4. TypeOK'
  BY <1>1, <1>2 DEF TypeOK, region
<1>5. Ordered'
  BY <1>2, <1>3 DEF RInv, Ordered
<1>6. SlotsAgree'
  BY <1>2, <1>3 DEF RInv, SlotsAgree, region
<1>7. MoveInv'
  BY <1>2, <1>3 DEF RInv, MoveInv, OneMove, region
<1>8. QuietInv'
  BY <1>2, <1>3 DEF RInv, QuietInv, Windows, region
<1>9. QED
  BY <1>4, <1>5, <1>6, <1>7, <1>8 DEF RInv

(* A function is entered; the one that runs waits as it is. *)
LEMMA EnterKeeps ==
  ASSUME RInv, Enter(cur', cur), cur' \in FrameType, Shape(cur'), Below(cur, cur'),
         cur'.pc \in {"entry", "body", "look"}, cur'.prot => cur'.pc = "entry",
         cur.pc = "body" \/ cur.pc \in SignalsAt, UNCHANGED <<region, fault>>
  PROVE  RInv'
<1>1. TypeOK /\ cur \in FrameType /\ frames' = Append(frames, cur)
  BY DEF RInv, TypeOK, Enter
<1>2. PICK w \in FrameType : w = cur
  BY <1>1
<1>3. /\ Depth' = Depth + 1 /\ frames' \in Seq(FrameType)
      /\ \A i \in 1..(Depth + 1) :
            Act(i)' = IF i = Depth + 1 THEN cur' ELSE IF i = Depth THEN w ELSE Act(i)
  BY <1>1, <1>2, ActsEnter
<1>4. Depth \in Nat \ {0} /\ Act(Depth) = cur
  BY <1>1, DepthType
<1>5. \A i \in 1..(Depth + 1) : Act(i)' = IF i = Depth + 1 THEN cur' ELSE Act(i)
  BY <1>2, <1>3, <1>4
<1>6. TypeOK'
  BY <1>1, <1>3 DEF TypeOK, region, Enter
<1>7. Ordered'
  <2>1. \A i \in 1..Depth : Below(Act(i), cur')
    <3>1. \A i \in 1..(Depth - 1) : Below(Act(i), cur)
      BY <1>4 DEF RInv, Ordered
    <3>2. \A i \in 1..Depth : Act(i).at \in Nat /\ Act(i).rsp \in Nat
      BY <1>1, DepthType, SizeAssumption DEF FrameType
    <3>3. cur'.at \in Nat /\ cur.at \in Nat
      BY <1>1, SizeAssumption DEF FrameType
    <3>4. \A i \in 1..(Depth - 1) : Below(Act(i), cur')
      BY <3>1, <3>2, <3>3, <1>4 DEF Below
    <3>5. QED
      BY <3>4, <1>4
  <2>2. QED
    BY <2>1, <1>3, <1>4, <1>5 DEF RInv, Ordered
<1>8. SlotsAgree'
  BY <1>3, <1>4, <1>5 DEF RInv, SlotsAgree, region
<1>9. MoveInv'
  BY <1>3, <1>4, <1>5 DEF RInv, MoveInv, OneMove, Moving, region
<1>10. QuietInv'
  BY <1>3, <1>4, <1>5 DEF RInv, QuietInv, Windows, region
<1>11. QED
  BY <1>6, <1>7, <1>8, <1>9, <1>10 DEF RInv

-----------------------------------------------------------------------------
(* Steps of the function that runs. *)

LEMMA OrderedStays ==
  ASSUME TypeOK, Ordered, frames' = frames, cur'.at = cur.at, Shape(cur')
  PROVE  Ordered'
<1>1. /\ Depth' = Depth
      /\ \A i \in 1..Depth : Act(i)' = IF i = Depth THEN cur' ELSE Act(i)
  BY ActsStay
<1>2. Depth \in Nat \ {0} /\ Act(Depth) = cur
  BY DepthType
<1>3. ASSUME NEW j \in 1..Depth, NEW i \in 1..(j - 1) PROVE Below(Act(i), Act(j))'
  <2>1. Below(Act(i), Act(j)) /\ Act(i)' = Act(i) /\ i \in 1..Depth
    BY <1>1, <1>2, <1>3 DEF Ordered
  <2>2. Act(j)'.at = Act(j).at
    BY <1>1, <1>2, <1>3
  <2>3. QED
    BY <2>1, <2>2 DEF Below
<1>4. \A i \in 1..Depth : Shape(Act(i))'
  BY <1>1 DEF Ordered
<1>5. QED
  BY <1>1, <1>3, <1>4 DEF Ordered

LEMMA SlotsStay ==
  ASSUME TypeOK, SlotsAgree, frames' = frames, shadow' = shadow, cur'.pc # "link",
         cur'.prot /\ cur'.pc # "entry" => shadow[cur'.at] = cur'.site
  PROVE  SlotsAgree'
BY ActsStay DEF SlotsAgree

(* A slot is written that lies behind those of the waiting functions. *)
LEMMA SlotsWrite ==
  ASSUME TypeOK, Ordered, SlotsAgree, frames' = frames, NEW k \in 1..Size, cur.at <= k,
         NEW v, shadow' = [shadow EXCEPT ![k] = v],
         cur'.prot /\ cur'.pc # "entry" => shadow'[cur'.at] = cur'.site,
         cur'.pc = "link" => shadow'[cur'.rsp + 1] = cur'.reg
  PROVE  SlotsAgree'
<1>1. /\ Depth' = Depth
      /\ \A i \in 1..Depth : Act(i)' = IF i = Depth THEN cur' ELSE Act(i)
  BY ActsStay
<1>2. Depth \in Nat \ {0} /\ Act(Depth) = cur /\ \A i \in 1..Depth : Act(i) \in FrameType
  BY DepthType
<1>3. ASSUME NEW i \in 1..(Depth - 1)
      PROVE  /\ Act(i).at < k
             /\ Act(i).pc = "link" => Act(i).rsp + 1 < k
             /\ Act(i).at \in Nat /\ Act(i).rsp \in Nat
  BY <1>2, SizeAssumption DEF Ordered, Below, FrameType
<1>4. ASSUME NEW i \in 1..(Depth - 1)
      PROVE  /\ Act(i).prot /\ Act(i).pc # "entry" => shadow'[Act(i).at] = Act(i).site
             /\ Act(i).pc = "link" => shadow'[Act(i).rsp + 1] = Act(i).reg
  <2>1. i \in 1..Depth /\ Shape(Act(i))
    BY <1>2 DEF Ordered
  <2>2. \A w \in 1..Size : w # k => shadow'[w] = shadow[w]
    BY DEF TypeOK
  <2>3. Act(i).prot => Act(i).at \in 1..Size /\ Act(i).at # k
    BY <2>1, <1>3, SizeAssumption DEF Shape
  <2>4. Act(i).pc = "link" => Act(i).rsp + 1 \in 1..Size /\ Act(i).rsp + 1 # k
    BY <2>1, <1>3, SizeAssumption DEF Shape
  <2>5. QED
    BY <2>1, <2>2, <2>3, <2>4 DEF SlotsAgree
<1>5. QED
  BY <1>1, <1>2, <1>4 DEF SlotsAgree

(* The code of the program leaves moves alone. *)
LEMMA MovesStay ==
  ASSUME RInv, frames' = frames, UNCHANGED <<gs, home, busy, fault>>,
         cur.pc \in AppCode, cur'.pc \in AppCode
  PROVE  MoveInv' /\ QuietInv'
<1>1. /\ Depth' = Depth
      /\ \A i \in 1..Depth : Act(i)' = IF i = Depth THEN cur' ELSE Act(i)
  BY ActsStay DEF RInv
<1>2. Depth \in Nat \ {0} /\ Act(Depth) = cur
  BY DepthType DEF RInv
<1>3. MoveInv'
  BY <1>1, <1>2 DEF RInv, MoveInv, OneMove, Moving, AppCode
<1>4. QuietInv'
  BY <1>1, <1>2 DEF RInv, QuietInv, Windows, AppCode
<1>5. QED
  BY <1>3, <1>4

LEMMA ProgramStepKeeps ==
  ASSUME RInv, frames' = frames, UNCHANGED <<went, region, fault>>,
         cur' \in FrameType, cur'.at = cur.at, cur'.site = cur.site, Shape(cur'),
         cur.pc = "body", cur'.pc \in {"entry", "body", "leave"},
         cur'.pc # "entry" => cur'.prot = FALSE \/ cur.prot
  PROVE  RInv'
<1>1. TypeOK'
  BY DEF RInv, TypeOK, region
<1>2. Ordered'
  BY OrderedStays DEF RInv
<1>3. Act(Depth) = cur /\ Depth \in 1..Depth
  BY DepthType DEF RInv
<1>4. SlotsAgree'
  <2>1. cur'.prot /\ cur'.pc # "entry" => shadow[cur'.at] = cur'.site
    BY <1>3 DEF RInv, SlotsAgree
  <2>2. QED
    BY <2>1, SlotsStay DEF RInv, region
<1>5. MoveInv' /\ QuietInv'
  BY MovesStay DEF region, AppCode
<1>6. QED
  BY <1>1, <1>2, <1>4, <1>5 DEF RInv

-----------------------------------------------------------------------------
(* One lemma for each action of the program. *)

LEMMA CurFacts ==
  ASSUME RInv
  PROVE  /\ cur \in FrameType /\ Shape(cur) /\ Depth \in Nat \ {0} /\ Act(Depth) = cur
         /\ cur.prot /\ cur.pc # "entry" => shadow[cur.at] = cur.site
         /\ cur.pc = "link" => shadow[cur.rsp + 1] = cur.reg
<1>1. cur \in FrameType /\ Depth \in Nat \ {0} /\ Act(Depth) = cur
  BY DepthType DEF RInv, TypeOK
<1>2. Shape(Act(Depth))
  BY <1>1 DEF RInv, Ordered
<1>3. QED
  BY <1>1, <1>2 DEF RInv, SlotsAgree

LEMMA CallKeeps ==
  ASSUME RInv, NEW s \in Sites, NEW p \in BOOLEAN, Call(s, p)
  PROVE  RInv'
<1>1. /\ cur.at \in 0..Size /\ cur.rsp \in 0..Size
      /\ cur.at <= cur.rsp
  BY CurFacts DEF Call, Shape, FrameType
<1>2. cur' = Frame(s, p, cur.rsp + 1, cur.rsp + 1, Start(p), NoSite)
  BY DEF Call, Enter
<1>3. cur' \in FrameType
  BY <1>1, <1>2, SizeAssumption DEF Call, FrameType, Frame, Start, AppCode
<1>4. Shape(cur') /\ Below(cur, cur') /\ cur'.pc \in {"entry", "body"} /\ (cur'.prot => cur'.pc = "entry")
  BY <1>1, <1>2, SizeAssumption DEF Call, Shape, Below, Frame, Start, RerandCode
<1>5. Enter(cur', cur)
  BY <1>2 DEF Call
<1>6. QED
  BY <1>3, <1>4, <1>5, EnterKeeps DEF Call

LEMMA RerandCallKeeps ==
  ASSUME RInv, NEW s \in Sites, RerandCall(s)
  PROVE  RInv'
<1>1. /\ cur.at \in 0..Size /\ cur.rsp \in 0..Size
      /\ cur.at <= cur.rsp
  BY CurFacts DEF RerandCall, Shape, FrameType
<1>2. cur' = Frame(s, FALSE, cur.rsp + 1, cur.rsp + 1, "look", NoSite)
  BY DEF RerandCall, Enter
<1>3. cur' \in FrameType
  BY <1>1, <1>2, SizeAssumption DEF RerandCall, FrameType, Frame, RerandCode
<1>4. Shape(cur') /\ Below(cur, cur') /\ cur'.pc = "look" /\ ~cur'.prot
  BY <1>1, <1>2, SizeAssumption DEF RerandCall, Shape, Below, Frame, RerandCode
<1>5. Enter(cur', cur)
  BY <1>2 DEF RerandCall
<1>6. QED
  BY <1>3, <1>4, <1>5, EnterKeeps DEF RerandCall

(* The red zone keeps the handler off the word that an epilogue has just   *)
(* dropped and off the slot that an instrumented call has just written.    *)
LEMMA SignalKeeps ==
  ASSUME RInv, NEW p \in BOOLEAN, Signal(p)
  PROVE  RInv'
<1>1. /\ cur.at \in 0..Size /\ cur.rsp \in 0..Size
      /\ cur.at <= cur.rsp + 1
  BY CurFacts, SizeAssumption DEF Shape, FrameType, AppCode, RerandCode
<1>2. cur' = Frame(Restorer, p, HandlerTop, HandlerTop, Start(p), NoSite)
  BY DEF Signal, Enter
<1>3. HandlerTop \in 1..Size /\ cur.rsp + 1 < HandlerTop
  BY <1>1, SizeAssumption, RedZoneAssumption DEF HandlerTop, Signal
<1>4. cur' \in FrameType
  BY <1>2, <1>3 DEF FrameType, Frame, Start, AppCode
<1>5. Shape(cur') /\ Below(cur, cur') /\ cur'.pc \in {"entry", "body"} /\ (cur'.prot => cur'.pc = "entry")
  BY <1>1, <1>2, <1>3, SizeAssumption DEF Shape, Below, Frame, Start, RerandCode
<1>6. Enter(cur', cur)
  BY <1>2 DEF Signal
<1>7. QED
  BY <1>4, <1>5, <1>6, EnterKeeps DEF Signal

LEMMA PrologueKeeps ==
  ASSUME RInv, Prologue
  PROVE  RInv'
<1>1. /\ cur \in FrameType /\ Shape(cur) /\ cur.pc = "entry"
      /\ cur.at \in 1..Size /\ cur.rsp = cur.at /\ cur.prot
  BY CurFacts, SizeAssumption DEF Prologue, Shape, FrameType
<1>2. cur' = Frame(cur.site, TRUE, cur.at, cur.at, "body", NoSite)
  BY <1>1 DEF Prologue, Goto
<1>3. cur' \in FrameType /\ Shape(cur')
  BY <1>1, <1>2, SizeAssumption DEF FrameType, Frame, Shape, AppCode, RerandCode
<1>4. shadow' = [shadow EXCEPT ![cur.at] = cur.site] /\ frames' = frames
  BY <1>1 DEF Prologue, SlotAt
<1>5. shadow'[cur.at] = cur.site
  BY <1>1, <1>4 DEF RInv, TypeOK
<1>6. TypeOK'
  BY <1>1, <1>3, <1>4 DEF RInv, TypeOK, Prologue, FrameType
<1>7. Ordered'
  BY <1>2, <1>3, <1>4, OrderedStays DEF RInv, Frame
<1>8. SlotsAgree'
  <2>1. cur'.at = cur.at /\ cur'.site = cur.site /\ cur'.pc = "body" /\ cur.at <= cur.at
    BY <1>1, <1>2 DEF Frame
  <2>2. QED
    BY <2>1, <1>1, <1>4, <1>5, SlotsWrite DEF RInv
<1>9. MoveInv' /\ QuietInv'
  <2>1. cur.pc \in AppCode /\ cur'.pc \in AppCode
    BY <1>1, <1>2 DEF Frame, AppCode
  <2>2. QED
    BY <2>1, <1>4, MovesStay DEF Prologue
<1>10. QED
  BY <1>6, <1>7, <1>8, <1>9 DEF RInv

LEMMA LocalsKeeps ==
  ASSUME RInv, NEW n \in cur.at..Size, Locals(n)
  PROVE  RInv'
<1>1. cur \in FrameType /\ Shape(cur) /\ cur.pc = "body"
  BY CurFacts DEF Locals
<1>2. cur' = Frame(cur.site, cur.prot, cur.at, n, "body", NoSite)
  BY DEF Locals
<1>3. cur' \in FrameType /\ Shape(cur')
  BY <1>1, <1>2, SizeAssumption DEF FrameType, Frame, Shape, AppCode, RerandCode
<1>4. cur'.at = cur.at /\ cur'.site = cur.site /\ cur'.pc = "body" /\ cur'.prot = cur.prot
  BY <1>2 DEF Frame
<1>5. QED
  BY <1>1, <1>3, <1>4, ProgramStepKeeps DEF Locals, FrameType

LEMMA LinkWriteKeeps ==
  ASSUME RInv, NEW s \in Sites, LinkWrite(s)
  PROVE  RInv'
<1>1. /\ cur \in FrameType /\ Shape(cur) /\ cur.pc = "body"
      /\ cur.at \in 0..Size /\ cur.rsp \in 0..Size /\ cur.rsp < Size /\ cur.at <= cur.rsp
      /\ cur.prot => shadow[cur.at] = cur.site /\ cur.at > 0
  BY CurFacts, SizeAssumption DEF LinkWrite, Shape, FrameType
<1>2. cur' = Frame(cur.site, cur.prot, cur.at, cur.rsp, "link", s)
  BY DEF LinkWrite, Goto
<1>3. cur' \in FrameType /\ Shape(cur')
  BY <1>1, <1>2, SizeAssumption DEF FrameType, Frame, Shape, AppCode, RerandCode
<1>4. shadow' = [shadow EXCEPT ![cur.rsp + 1] = s] /\ frames' = frames /\ cur.rsp + 1 \in 1..Size
  BY <1>1, SizeAssumption DEF LinkWrite, SlotBelow
<1>5. shadow'[cur.rsp + 1] = s /\ (cur.prot => shadow'[cur.at] = cur.site)
  BY <1>1, <1>4, SizeAssumption DEF RInv, TypeOK
<1>6. TypeOK'
  BY <1>1, <1>3, <1>4 DEF RInv, TypeOK, LinkWrite
<1>7. Ordered'
  BY <1>2, <1>3, <1>4, OrderedStays DEF RInv, Frame
<1>8. SlotsAgree'
  <2>1. /\ cur'.at = cur.at /\ cur'.site = cur.site /\ cur'.rsp = cur.rsp /\ cur'.reg = s
        /\ cur'.prot = cur.prot /\ cur.at <= cur.rsp + 1
    BY <1>1, <1>2, SizeAssumption DEF Frame
  <2>2. QED
    BY <2>1, <1>4, <1>5, SlotsWrite DEF RInv
<1>9. MoveInv' /\ QuietInv'
  <2>1. cur.pc \in AppCode /\ cur'.pc \in AppCode
    BY <1>1, <1>2 DEF Frame, AppCode
  <2>2. QED
    BY <2>1, <1>4, MovesStay DEF LinkWrite
<1>10. QED
  BY <1>6, <1>7, <1>8, <1>9 DEF RInv

(* The slot was filled by LinkWrite, so the callee may start in its body. *)
LEMMA LinkCallKeeps ==
  ASSUME RInv, LinkCall
  PROVE  RInv'
<1>1. /\ TypeOK /\ cur \in FrameType /\ Shape(cur) /\ cur.pc = "link"
      /\ cur.at \in 0..Size /\ cur.rsp \in 0..Size /\ cur.rsp < Size /\ cur.at <= cur.rsp
      /\ shadow[cur.rsp + 1] = cur.reg /\ cur.reg \in Sites
      /\ Depth \in Nat \ {0} /\ Act(Depth) = cur
  BY CurFacts, SizeAssumption DEF RInv, LinkCall, Shape, FrameType
<1>2. /\ cur' = Frame(cur.reg, TRUE, cur.rsp + 1, cur.rsp + 1, "body", NoSite)
      /\ frames' = Append(frames, Goto("body", NoSite))
      /\ UNCHANGED <<region, fault>> /\ went' = Nowhere
  BY DEF LinkCall, Enter
<1>3. /\ Goto("body", NoSite) \in FrameType /\ cur' \in FrameType
      /\ Shape(Goto("body", NoSite)) /\ Shape(cur') /\ Below(Goto("body", NoSite), cur')
  BY <1>1, <1>2, SizeAssumption DEF FrameType, Frame, Shape, Below, Goto, AppCode, RerandCode
<1>4. PICK w \in FrameType : w = Goto("body", NoSite)
  BY <1>3
<1>5. w.at = cur.at /\ w.site = cur.site /\ w.prot = cur.prot /\ w.pc = "body"
  BY <1>4 DEF Goto, Frame
<1>6. /\ Depth' = Depth + 1 /\ frames' \in Seq(FrameType)
      /\ \A i \in 1..(Depth + 1) :
            Act(i)' = IF i = Depth + 1 THEN cur' ELSE IF i = Depth THEN w ELSE Act(i)
  BY <1>1, <1>2, <1>4, ActsEnter
<1>7. TypeOK'
  BY <1>1, <1>2, <1>3, <1>6 DEF TypeOK, region
<1>8. Ordered'
  <2>1. \A i \in 1..(Depth - 1) : Below(Act(i), cur)
    BY <1>1 DEF RInv, Ordered
  <2>2. \A i \in 1..Depth : Act(i).at \in Nat /\ Act(i).rsp \in Nat
    BY <1>1, DepthType, SizeAssumption DEF FrameType
  <2>3. \A i \in 1..(Depth - 1) : Below(Act(i), w) /\ Below(Act(i), cur')
    <3>1. cur'.at = cur.rsp + 1
      BY <1>2 DEF Frame
    <3>2. QED
      BY <2>1, <2>2, <3>1, <1>1, <1>5 DEF Below
  <2>4. Below(w, cur') /\ Shape(w)
    BY <1>3, <1>4
  <2>5. ASSUME NEW j \in 1..(Depth + 1), NEW i \in 1..(j - 1) PROVE Below(Act(i), Act(j))'
    <3>1. CASE j = Depth + 1
      <4>1. Act(j)' = cur'
        BY <1>6, <3>1
      <4>2. Act(i)' = IF i = Depth THEN w ELSE Act(i)
        BY <1>1, <1>6, <2>5, <3>1
      <4>3. Below(IF i = Depth THEN w ELSE Act(i), cur')
        BY <1>1, <2>3, <2>4, <2>5, <3>1
      <4>4. QED
        BY <4>1, <4>2, <4>3 DEF Below
    <3>2. CASE j = Depth
      <4>1. Act(j)' = w /\ Act(i)' = Act(i) /\ Below(Act(i), w)
        BY <1>1, <1>6, <2>3, <2>5, <3>2
      <4>2. QED
        BY <4>1 DEF Below
    <3>3. CASE j \in 1..(Depth - 1)
      <4>1. Act(j)' = Act(j) /\ Act(i)' = Act(i) /\ Below(Act(i), Act(j))
        BY <1>1, <1>6, <2>5, <3>3 DEF RInv, Ordered
      <4>2. QED
        BY <4>1 DEF Below
    <3>4. QED
      BY <1>1, <2>5, <3>1, <3>2, <3>3
  <2>6. \A i \in 1..(Depth + 1) : Shape(Act(i))'
    <3>1. TAKE i \in 1..(Depth + 1)
    <3>2. Act(i)' = IF i = Depth + 1 THEN cur' ELSE IF i = Depth THEN w ELSE Act(i)
      BY <1>6
    <3>3. Shape(IF i = Depth + 1 THEN cur' ELSE IF i = Depth THEN w ELSE Act(i))
      BY <1>1, <1>3, <2>4 DEF RInv, Ordered
    <3>4. QED
      BY <3>2, <3>3 DEF Shape
  <2>7. QED
    BY <1>6, <2>5, <2>6 DEF Ordered
<1>9. /\ cur'.pc = "body" /\ cur'.at = cur.rsp + 1 /\ cur'.site = cur.reg
      /\ shadow' = shadow /\ busy' = busy /\ home' = home /\ gs' = gs /\ fault' = fault
  BY <1>2 DEF Frame, region
<1>10. SlotsAgree'
  <2>1. ASSUME NEW i \in 1..(Depth + 1)
        PROVE  /\ Act(i)'.prot /\ Act(i)'.pc # "entry" => shadow[Act(i)'.at] = Act(i)'.site
               /\ Act(i)'.pc = "link" => shadow[Act(i)'.rsp + 1] = Act(i)'.reg
    <3>1. CASE i = Depth + 1
      BY <1>1, <1>6, <1>9, <3>1
    <3>2. CASE i = Depth
      <4>1. Act(i)' = w /\ (cur.prot => shadow[cur.at] = cur.site)
        BY <1>1, <1>6, <3>2, CurFacts
      <4>2. QED
        BY <4>1, <1>5
    <3>3. CASE i \in 1..(Depth - 1)
      <4>1. Act(i)' = Act(i) /\ i \in 1..Depth
        BY <1>1, <1>6, <3>3
      <4>2. QED
        BY <4>1 DEF RInv, SlotsAgree
    <3>4. QED
      BY <1>1, <2>1, <3>1, <3>2, <3>3
  <2>2. QED
    BY <1>6, <1>9, <2>1 DEF SlotsAgree
<1>11. \A i \in 1..(Depth + 1) :
         Act(i)'.pc = "body" \/ (i \in 1..(Depth - 1) /\ Act(i)' = Act(i))
  BY <1>1, <1>5, <1>6, <1>9
<1>12. MoveInv'
  BY <1>1, <1>6, <1>9, <1>11 DEF RInv, MoveInv, OneMove, Moving
<1>13. QuietInv'
  BY <1>1, <1>6, <1>9, <1>11 DEF RInv, QuietInv, Windows
<1>14. QED
  BY <1>7, <1>8, <1>10, <1>12, <1>13 DEF RInv

LEMMA TailCallKeeps ==
  ASSUME RInv, NEW p \in BOOLEAN, TailCall(p)
  PROVE  RInv'
<1>1. /\ cur \in FrameType /\ Shape(cur) /\ cur.pc = "body" /\ cur.rsp = cur.at
      /\ Depth \in Nat \ {0, 1} /\ Act(Depth) = cur /\ Act(1) \in FrameType
  BY CurFacts, DepthType DEF RInv, TypeOK, TailCall, Depth
<1>2. cur.at > 0
  <2>1. Below(Act(1), cur)
    BY <1>1 DEF RInv, Ordered
  <2>2. QED
    BY <1>1, <2>1, SizeAssumption DEF Below, FrameType
<1>3. cur' = Frame(cur.site, p, cur.at, cur.at, Start(p), NoSite)
  BY DEF TailCall
<1>4. cur' \in FrameType /\ Shape(cur')
  BY <1>1, <1>2, <1>3, SizeAssumption DEF FrameType, Frame, Start, Shape, AppCode, RerandCode
<1>5. /\ cur'.at = cur.at /\ cur'.site = cur.site /\ cur'.pc \in {"entry", "body"}
      /\ cur'.pc # "entry" => cur'.prot = FALSE
  BY <1>3 DEF Frame, Start
<1>6. QED
  BY <1>1, <1>4, <1>5, ProgramStepKeeps DEF TailCall

LEMMA DropKeeps ==
  ASSUME RInv, Drop
  PROVE  RInv'
<1>1. /\ cur \in FrameType /\ Shape(cur) /\ cur.pc = "body" /\ cur.rsp = cur.at /\ cur.prot
      /\ cur.at \in 1..Size
  BY CurFacts, SizeAssumption DEF Drop, Shape, FrameType
<1>2. cur' = Frame(cur.site, TRUE, cur.at, cur.at - 1, "leave", NoSite)
  BY DEF Drop
<1>3. cur' \in FrameType /\ Shape(cur')
  BY <1>1, <1>2, SizeAssumption DEF FrameType, Frame, Shape, AppCode, RerandCode
<1>4. cur'.at = cur.at /\ cur'.site = cur.site /\ cur'.pc = "leave"
  BY <1>2 DEF Frame
<1>5. QED
  BY <1>1, <1>3, <1>4, ProgramStepKeeps DEF Drop

(* The address that the epilogue finds in the slot. *)
LEMMA JumpTarget ==
  ASSUME RInv, cur.pc = "leave"
  PROVE  shadow[SlotBelow(cur.rsp)] = cur.site
BY CurFacts DEF Shape, SlotBelow

LEMMA ReturnKeeps ==
  ASSUME RInv, Jump \/ PlainReturn
  PROVE  RInv'
<1>1. Leave(cur.site) /\ cur.pc \in {"body", "exit", "leave"} /\ UNCHANGED <<region, fault>>
  BY JumpTarget DEF Jump, PlainReturn
<1>2. Len(frames) \in Nat \ {0} /\ cur.site \in Sites \cup {Restorer, NoSite}
  BY <1>1 DEF RInv, TypeOK, Leave, FrameType
<1>3. Len(frames) \in 1..Len(frames)
  BY <1>2
<1>4. QED
  BY <1>1, <1>2, <1>3, CutKeeps DEF Leave

LEMMA UnwindKeeps ==
  ASSUME RInv, NEW n \in 1..Len(frames), Unwind(n)
  PROVE  RInv'
BY CutKeeps DEF Unwind

LEMMA CrashKeeps ==
  ASSUME RInv, Crash, SignalsAt \cap Windows # {}
  PROVE  RInv'
<1>1. frames' = frames /\ cur' = cur
  BY DEF Crash, stacks
<1>2. Depth' = Depth /\ \A i \in 1..Depth : Act(i)' = Act(i)
  BY <1>1, ActsStay, DepthType DEF RInv
<1>3. TypeOK'
  BY <1>1 DEF RInv, TypeOK, Crash, stacks, region
<1>4. Depth \in Nat \ {0}
  BY DepthType DEF RInv
<1>5. Ordered' /\ SlotsAgree' /\ MoveInv'
  <2>1. Ordered'
    <3>1. Shape(cur')
      BY <1>1, CurFacts DEF Shape
    <3>2. QED
      BY <1>1, <3>1, OrderedStays DEF RInv
  <2>2. SlotsAgree'
    BY <1>2 DEF RInv, SlotsAgree, Crash, region
  <2>3. MoveInv'
    BY <1>2, <1>4 DEF RInv, MoveInv, OneMove, Moving, Crash, region
  <2>4. QED
    BY <2>1, <2>2, <2>3
<1>6. QED
  BY <1>3, <1>5 DEF RInv, QuietInv

LEMMA FaultKeeps ==
  ASSUME RInv, SlotFault \/ MetadataFault
  PROVE  RInv'
<1>1. Crash
  BY DEF SlotFault, MetadataFault
<1>2. SignalsAt \cap Windows # {}
  <2>1. cur.pc = "clear" => cur.reg = home
    BY CurFacts DEF RInv, MoveInv
  <2>2. QED
    BY <2>1 DEF RInv, QuietInv, SlotFault, MetadataFault
<1>3. QED
  BY <1>1, <1>2, CrashKeeps

-----------------------------------------------------------------------------
(* One lemma for each step of gs_rsp_runtime_rerandomize. *)

LEMMA RerandStepKeeps ==
  ASSUME RInv, NEW pc \in RerandCode, NEW reg \in Bases \cup {NoSite}, cur.pc \in RerandCode,
         cur' = Goto(pc, reg), pc \in {"look", "exit"} \/ reg \in Bases,
         frames' = frames, went' = went, shadow' = shadow, fault' = fault,
         gs' \in Bases, home' \in Bases, busy' \in BOOLEAN
  PROVE  /\ TypeOK' /\ Ordered' /\ SlotsAgree'
         /\ Depth' = Depth /\ Depth \in Nat \ {0} /\ Act(Depth) = cur
         /\ cur'.pc = pc /\ cur'.reg = reg
         /\ \A i \in 1..Depth : Act(i)' = IF i = Depth THEN cur' ELSE Act(i)
<1>1. cur \in FrameType /\ Shape(cur) /\ ~cur.prot /\ cur.at = cur.rsp
  BY CurFacts DEF Shape
<1>2. cur' \in FrameType /\ Shape(cur') /\ cur'.at = cur.at /\ ~cur'.prot /\ cur'.pc = pc /\ cur'.reg = reg
  BY <1>1 DEF FrameType, Frame, Shape, Goto, AppCode, RerandCode
<1>3. TypeOK'
  BY <1>2 DEF RInv, TypeOK
<1>4. Ordered'
  BY <1>2, OrderedStays DEF RInv
<1>5. SlotsAgree'
  BY <1>2, SlotsStay DEF RInv, RerandCode
<1>6. QED
  BY <1>2, <1>3, <1>4, <1>5, ActsStay, CurFacts DEF RInv

LEMMA LookKeeps ==
  ASSUME RInv, Look
  PROVE  RInv'
<1>1. gs \in Bases /\ home \in Bases /\ busy \in BOOLEAN
  BY DEF RInv, TypeOK
<1>2. PICK b \in Bases : b = gs
  BY <1>1
<1>3. /\ cur.pc \in RerandCode /\ cur' = Goto("test", b) /\ frames' = frames /\ went' = went
      /\ UNCHANGED <<shadow, gs, home, busy, fault>>
  BY <1>2 DEF Look, region, RerandCode
<1>4. /\ TypeOK' /\ Ordered' /\ SlotsAgree'
      /\ Depth' = Depth /\ Depth \in Nat \ {0} /\ Act(Depth) = cur
      /\ cur'.pc = "test" /\ cur'.reg = b
      /\ \A i \in 1..Depth : Act(i)' = IF i = Depth THEN cur' ELSE Act(i)
  BY <1>1, <1>3, RerandStepKeeps DEF RerandCode
<1>5. MoveInv'
  BY <1>3, <1>4 DEF RInv, MoveInv, OneMove, Moving
<1>6. QuietInv'
  BY <1>2, <1>3, <1>4 DEF RInv, QuietInv, Look
<1>7. QED
  BY <1>4, <1>5, <1>6 DEF RInv

LEMMA TestKeeps ==
  ASSUME RInv, Test
  PROVE  RInv'
<1>1. gs \in Bases /\ home \in Bases /\ busy \in BOOLEAN
  BY DEF RInv, TypeOK
<1>2. PICK pc \in {"set", "exit"}, reg \in Bases \cup {NoSite} :
         /\ cur' = Goto(pc, reg)
         /\ pc = "set" => reg = home /\ ~busy
  BY <1>1 DEF Test, MayMove
<1>3. /\ cur.pc = "test" /\ cur.reg = home /\ frames' = frames /\ went' = went
      /\ UNCHANGED <<shadow, gs, home, busy, fault>>
  BY DEF Test, region
<1>4. /\ TypeOK' /\ Ordered' /\ SlotsAgree'
      /\ Depth' = Depth /\ Depth \in Nat \ {0} /\ Act(Depth) = cur
      /\ cur'.pc = pc /\ cur'.reg = reg
      /\ \A i \in 1..Depth : Act(i)' = IF i = Depth THEN cur' ELSE Act(i)
  BY <1>1, <1>2, <1>3, RerandStepKeeps DEF RerandCode
<1>5. MoveInv'
  BY <1>2, <1>3, <1>4 DEF RInv, MoveInv, OneMove, Moving
<1>6. QuietInv'
  BY <1>2, <1>3, <1>4 DEF RInv, QuietInv, Windows
<1>7. QED
  BY <1>4, <1>5, <1>6 DEF RInv

(* No function that waits is in a move: it would have kept Test from       *)
(* coming here.                                                            *)
LEMMA SetKeeps ==
  ASSUME RInv, Set
  PROVE  RInv'
<1>1. gs \in Bases /\ home \in Bases /\ busy \in BOOLEAN
  BY DEF RInv, TypeOK
<1>2. PICK pc \in {"map", "clear"}, reg \in Bases : reg = home /\ cur' = Goto(pc, reg)
  BY <1>1 DEF Set
<1>3. /\ cur.pc = "set" /\ cur.reg = home /\ busy' = TRUE /\ frames' = frames /\ went' = went
      /\ UNCHANGED <<shadow, gs, home, fault>>
  BY DEF Set
<1>4. /\ TypeOK' /\ Ordered' /\ SlotsAgree'
      /\ Depth' = Depth /\ Depth \in Nat \ {0} /\ Act(Depth) = cur
      /\ cur'.pc = pc /\ cur'.reg = reg
      /\ \A i \in 1..Depth : Act(i)' = IF i = Depth THEN cur' ELSE Act(i)
  BY <1>1, <1>2, <1>3, RerandStepKeeps DEF RerandCode
<1>5. \A i \in 1..(Depth - 1) : Act(i).pc \notin Moving
  BY <1>3, <1>4 DEF RInv, MoveInv
<1>6. MoveInv'
  BY <1>2, <1>3, <1>4, <1>5 DEF RInv, MoveInv, OneMove, Moving
<1>7. QuietInv'
  BY <1>2, <1>3, <1>4 DEF RInv, QuietInv, Windows
<1>8. QED
  BY <1>4, <1>6, <1>7 DEF RInv

(* OneMove: no other function remembers where the shadow stack was. *)
LEMMA MapKeeps ==
  ASSUME RInv, NEW b \in Bases, Map(b)
  PROVE  RInv'
<1>1. /\ gs \in Bases /\ home \in Bases /\ busy \in BOOLEAN /\ cur.pc = "map"
      /\ cur.reg = home /\ busy
  BY CurFacts DEF RInv, TypeOK, MoveInv, Map, Moving
<1>2. PICK reg \in Bases : reg = home
  BY <1>1
<1>3. /\ cur' = Goto("gs", reg) /\ home' = b /\ frames' = frames /\ went' = went
      /\ UNCHANGED <<shadow, gs, busy, fault>>
  BY <1>1, <1>2 DEF Map, Carried
<1>4. /\ TypeOK' /\ Ordered' /\ SlotsAgree'
      /\ Depth' = Depth /\ Depth \in Nat \ {0} /\ Act(Depth) = cur
      /\ cur'.pc = "gs" /\ cur'.reg = reg
      /\ \A i \in 1..Depth : Act(i)' = IF i = Depth THEN cur' ELSE Act(i)
  BY <1>1, <1>3, RerandStepKeeps DEF RerandCode
<1>5. \A i \in 1..(Depth - 1) : Act(i).pc \notin Moving
  BY <1>1, <1>4 DEF RInv, MoveInv, OneMove, Moving
<1>6. MoveInv'
  BY <1>1, <1>3, <1>4, <1>5 DEF RInv, MoveInv, OneMove, Moving
<1>7. QuietInv'
  BY <1>1, <1>3, <1>4 DEF RInv, QuietInv, Windows
<1>8. QED
  BY <1>4, <1>6, <1>7 DEF RInv

LEMMA MapFailsKeeps ==
  ASSUME RInv, MapFails
  PROVE  RInv'
<1>1. /\ gs \in Bases /\ home \in Bases /\ busy \in BOOLEAN /\ cur.pc = "map"
      /\ cur.reg = home /\ busy
  BY CurFacts DEF RInv, TypeOK, MoveInv, MapFails, Moving
<1>2. PICK reg \in Bases : reg = home
  BY <1>1
<1>3. /\ cur' = Goto("clear", reg) /\ frames' = frames /\ went' = went
      /\ UNCHANGED <<shadow, gs, home, busy, fault>>
  BY <1>1, <1>2 DEF MapFails, region
<1>4. /\ TypeOK' /\ Ordered' /\ SlotsAgree'
      /\ Depth' = Depth /\ Depth \in Nat \ {0} /\ Act(Depth) = cur
      /\ cur'.pc = "clear" /\ cur'.reg = reg
      /\ \A i \in 1..Depth : Act(i)' = IF i = Depth THEN cur' ELSE Act(i)
  BY <1>1, <1>3, RerandStepKeeps DEF RerandCode
<1>5. MoveInv'
  BY <1>1, <1>2, <1>3, <1>4 DEF RInv, MoveInv, OneMove, Moving
<1>6. QuietInv'
  BY <1>1, <1>3, <1>4 DEF RInv, QuietInv, Windows
<1>7. QED
  BY <1>4, <1>5, <1>6 DEF RInv

LEMMA SetGsKeeps ==
  ASSUME RInv, SetGs
  PROVE  RInv'
<1>1. gs \in Bases /\ home \in Bases /\ busy \in BOOLEAN /\ cur.pc = "gs"
  BY DEF RInv, TypeOK, SetGs
<1>2. PICK reg \in Bases : reg = home
  BY <1>1
<1>3. /\ cur' = Goto("clear", reg) /\ gs' = home /\ frames' = frames /\ went' = went
      /\ UNCHANGED <<shadow, home, busy, fault>>
  BY <1>1, <1>2 DEF SetGs, NewGs
<1>4. /\ TypeOK' /\ Ordered' /\ SlotsAgree'
      /\ Depth' = Depth /\ Depth \in Nat \ {0} /\ Act(Depth) = cur
      /\ cur'.pc = "clear" /\ cur'.reg = reg
      /\ \A i \in 1..Depth : Act(i)' = IF i = Depth THEN cur' ELSE Act(i)
  BY <1>1, <1>3, RerandStepKeeps DEF RerandCode
<1>5. MoveInv'
  BY <1>1, <1>2, <1>3, <1>4 DEF RInv, MoveInv, OneMove, Moving
<1>6. QuietInv'
  BY <1>1, <1>3, <1>4 DEF RInv, QuietInv, Windows
<1>7. QED
  BY <1>4, <1>5, <1>6 DEF RInv

LEMMA ClearKeeps ==
  ASSUME RInv, Clear
  PROVE  RInv'
<1>1. gs \in Bases /\ home \in Bases /\ cur.pc = "clear"
  BY DEF RInv, TypeOK, Clear
<1>2. /\ cur' = Goto("exit", NoSite) /\ busy' = FALSE /\ frames' = frames /\ went' = went
      /\ UNCHANGED <<shadow, gs, home, fault>>
  BY DEF Clear
<1>3. /\ TypeOK' /\ Ordered' /\ SlotsAgree'
      /\ Depth' = Depth /\ Depth \in Nat \ {0} /\ Act(Depth) = cur
      /\ cur'.pc = "exit" /\ cur'.reg = NoSite
      /\ \A i \in 1..Depth : Act(i)' = IF i = Depth THEN cur' ELSE Act(i)
  BY <1>1, <1>2, RerandStepKeeps DEF RerandCode
<1>4. \A i \in 1..(Depth - 1) : Act(i).pc \notin Moving
  BY <1>1, <1>3 DEF RInv, MoveInv, OneMove, Moving
<1>5. MoveInv'
  BY <1>2, <1>3, <1>4 DEF RInv, MoveInv, OneMove, Moving
<1>6. QuietInv'
  BY <1>1, <1>2, <1>3 DEF RInv, QuietInv, Windows
<1>7. QED
  BY <1>3, <1>5, <1>6 DEF RInv

-----------------------------------------------------------------------------
(* The invariant. *)

LEMMA StutterKeeps ==
  ASSUME RInv, UNCHANGED vars
  PROVE  RInv'
BY DEF RInv, TypeOK, Ordered, Below, Shape, SlotsAgree, MoveInv, OneMove, QuietInv, Depth, Act, vars

LEMMA NextKeeps ==
  ASSUME RInv, [Next]_vars
  PROVE  RInv'
<1>1. CASE UNCHANGED vars
  BY <1>1, StutterKeeps
<1>2. CASE Program
  <2>1. ASSUME NEW s \in Sites, LinkWrite(s) \/ RerandCall(s) \/ \E p \in BOOLEAN : Call(s, p)
        PROVE  RInv'
    BY <2>1, LinkWriteKeeps, RerandCallKeeps, CallKeeps
  <2>2. ASSUME NEW p \in BOOLEAN, TailCall(p) \/ Signal(p)
        PROVE  RInv'
    BY <2>2, TailCallKeeps, SignalKeeps
  <2>3. ASSUME NEW n \in cur.at..Size, Locals(n)
        PROVE  RInv'
    BY <2>3, LocalsKeeps
  <2>4. ASSUME NEW n \in 1..Len(frames), Unwind(n)
        PROVE  RInv'
    BY <2>4, UnwindKeeps
  <2>5. ASSUME Prologue \/ LinkCall \/ PlainReturn \/ Drop \/ Jump \/ SlotFault
        PROVE  RInv'
    BY <2>5, PrologueKeeps, LinkCallKeeps, ReturnKeeps, DropKeeps, FaultKeeps
  <2>6. QED
    BY <1>2, <2>1, <2>2, <2>3, <2>4, <2>5 DEF Program
<1>3. CASE Rerand
  BY <1>3, LookKeeps, TestKeeps, SetKeeps, MapKeeps, MapFailsKeeps, SetGsKeeps, ClearKeeps,
     FaultKeeps DEF Rerand
<1>4. QED
  BY <1>1, <1>2, <1>3 DEF Next

(* Every reachable state satisfies the invariant of ReturnPath. *)
THEOREM PathInductive == Spec => []RInv
<1>1. Init => RInv
  BY InitHolds
<1>2. RInv /\ [Next]_vars => RInv'
  BY NextKeeps
<1>3. QED
  BY <1>1, <1>2, PTL DEF Spec

(* The slots of the functions under way hold their return addresses, for   *)
(* any signals, moves, tail calls and jumps out of several functions.      *)
THEOREM SlotsSafe == Spec => []SlotsAgree
<1>1. RInv => SlotsAgree
  BY DEF RInv
<1>2. QED
  BY <1>1, PathInductive, PTL

(* No move of the shadow stack starts inside another. *)
THEOREM MovesDoNotNest == Spec => []OneMove
<1>1. RInv => OneMove
  BY DEF RInv, MoveInv
<1>2. QED
  BY <1>1, PathInductive, PTL

(* Without signals in the two windows of a move nothing faults. *)
THEOREM WindowsOnly == Spec => []SafeOutsideWindows
<1>1. RInv => SafeOutsideWindows
  BY DEF RInv, QuietInv, SafeOutsideWindows
<1>2. QED
  BY <1>1, PathInductive, PTL

-----------------------------------------------------------------------------
(* ReturnPath implements ReturnStack. *)

LEMMA PendingType ==
  ASSUME TypeOK
  PROVE  /\ Pending \in Seq(Sites \cup {Restorer, NoSite}) /\ Len(Pending) = Len(frames)
         /\ \A i \in 1..Len(frames) : Pending[i] = Act(i + 1).site
         /\ Len(frames) > 0 => Pending[Len(Pending)] = cur.site
<1>1. Len(frames) \in Nat /\ Depth = Len(frames) + 1 /\ cur.site \in Sites \cup {Restorer, NoSite}
  BY DEF TypeOK, Depth, FrameType
<1>2. \A i \in 1..Len(frames) : Pending[i] = Act(i + 1).site
  BY <1>1 DEF Pending, Act
<1>3. \A i \in 1..Len(frames) : Pending[i] \in Sites \cup {Restorer, NoSite}
  BY <1>1, <1>2, DepthType DEF FrameType
<1>4. Pending = [i \in 1..Len(frames) |-> Pending[i]]
  BY DEF Pending
<1>5. Pending \in [1..Len(frames) -> Sites \cup {Restorer, NoSite}]
  BY <1>3, <1>4
<1>6. Pending \in Seq(Sites \cup {Restorer, NoSite}) /\ Len(Pending) = Len(frames)
  BY <1>1, <1>5
<1>7. QED
  BY <1>1, <1>2, <1>6 DEF Act, Depth

LEMMA PendingStays ==
  ASSUME TypeOK, frames' = frames, cur'.site = cur.site
  PROVE  Pending' = Pending
BY DEF Pending

LEMMA PendingGrows ==
  ASSUME TypeOK, NEW w \in FrameType, frames' = Append(frames, w), w.site = cur.site
  PROVE  Pending' = Append(Pending, cur'.site)
<1>1. /\ Len(frames) \in Nat /\ Len(frames') = Len(frames) + 1
      /\ \A i \in 1..Len(frames) : frames'[i] = frames[i]
      /\ frames'[Len(frames) + 1] = w
  BY DEF TypeOK
<1>2. Pending \in Seq(Sites \cup {Restorer, NoSite}) /\ Len(Pending) = Len(frames)
  BY PendingType
<1>3. Append(Pending, cur'.site) =
        [i \in 1..(Len(frames) + 1) |-> IF i = Len(frames) + 1 THEN cur'.site ELSE Pending[i]]
  BY <1>1, <1>2
<1>4. \A i \in 1..(Len(frames) + 1) :
         Pending'[i] = IF i = Len(frames) + 1 THEN cur'.site ELSE Pending[i]
  BY <1>1 DEF Pending
<1>5. Pending' = [i \in 1..(Len(frames) + 1) |-> Pending'[i]]
  BY <1>1 DEF Pending
<1>6. QED
  BY <1>3, <1>4, <1>5

LEMMA PendingCut ==
  ASSUME TypeOK, NEW n \in 1..Len(frames), cur' = frames[n], frames' = SubSeq(frames, 1, n - 1)
  PROVE  Pending' = SubSeq(Pending, 1, n - 1)
<1>1. /\ Len(frames) \in Nat /\ Len(frames') = n - 1
      /\ \A i \in 1..(n - 1) : frames'[i] = frames[i]
  BY DEF TypeOK
<1>2. Pending \in Seq(Sites \cup {Restorer, NoSite}) /\ Len(Pending) = Len(frames)
  BY PendingType
<1>3. SubSeq(Pending, 1, n - 1) = [i \in 1..(n - 1) |-> Pending[i]]
  BY <1>1, <1>2
<1>4. \A i \in 1..(n - 1) : Pending'[i] = Pending[i]
  BY <1>1 DEF Pending
<1>5. Pending' = [i \in 1..(n - 1) |-> Pending'[i]]
  BY <1>1 DEF Pending
<1>6. QED
  BY <1>3, <1>4, <1>5

LEMMA EnterRefines ==
  ASSUME TypeOK, NEW w \in FrameType, w.site = cur.site, Enter(cur', w),
         cur'.site \in Sites \cup {Restorer}
  PROVE  Promise!Next
<1>1. Pending' = Append(Pending, cur'.site) /\ went' = Nowhere
  BY PendingGrows DEF Enter
<1>2. PICK s \in Sites \cup {Restorer} : s = cur'.site
  OBVIOUS
<1>3. Promise!Call(s)
  BY <1>1, <1>2 DEF Promise!Call
<1>4. QED
  BY <1>3 DEF Promise!Next

LEMMA ReturnRefines ==
  ASSUME RInv, Jump \/ PlainReturn
  PROVE  Promise!Next
<1>1. TypeOK /\ Leave(cur.site)
  BY JumpTarget DEF RInv, Jump, PlainReturn
<1>2. /\ Len(frames) \in Nat \ {0} /\ Len(frames) \in 1..Len(frames)
      /\ Len(Pending) = Len(frames) /\ Pending[Len(Pending)] = cur.site
      /\ Pending \in Seq(Sites \cup {Restorer, NoSite})
  BY <1>1, PendingType DEF TypeOK, Leave
<1>3. Pending' = SubSeq(Pending, 1, Len(frames) - 1)
  BY <1>1, <1>2, PendingCut DEF Leave
<1>4. Pending # <<>> /\ went' = cur.site
  BY <1>1, <1>2 DEF Leave
<1>5. Promise!Return
  BY <1>2, <1>3, <1>4 DEF Promise!Return
<1>6. QED
  BY <1>5 DEF Promise!Next

LEMMA UnwindRefines ==
  ASSUME TypeOK, NEW n \in 1..Len(frames), Unwind(n)
  PROVE  Promise!Next
<1>1. Pending' = SubSeq(Pending, 1, n - 1) /\ went' = Nowhere
  BY PendingCut DEF Unwind
<1>2. n - 1 \in 0..(Len(Pending) - 1)
  BY PendingType DEF TypeOK
<1>3. Promise!Unwind(n - 1)
  BY <1>1 DEF Promise!Unwind
<1>4. QED
  BY <1>2, <1>3 DEF Promise!Next

(* All other steps leave the calls under way as they are. *)
LEMMA StepRefines ==
  ASSUME RInv, [Next]_vars
  PROVE  [Promise!Next]_<<Pending, went>>
<1>1. TypeOK /\ cur \in FrameType
  BY DEF RInv, TypeOK
<1>2. ASSUME frames' = frames, cur'.site = cur.site, went' = went
      PROVE  UNCHANGED <<Pending, went>>
  BY <1>1, <1>2, PendingStays
<1>3. ASSUME NEW w \in FrameType, w.site = cur.site, Enter(cur', w),
             cur'.site \in Sites \cup {Restorer}
      PROVE  Promise!Next
  BY <1>1, <1>3, EnterRefines
<1>4. CASE UNCHANGED vars
  BY <1>2, <1>4 DEF vars
<1>5. CASE Program
  <2>1. ASSUME NEW s \in Sites, NEW p \in BOOLEAN, Call(s, p)
        PROVE  Promise!Next
    <3>1. PICK w \in FrameType : w = cur
      BY <1>1
    <3>2. cur'.site = s /\ Enter(cur', w)
      BY <2>1, <3>1 DEF Call, Enter, Frame
    <3>3. QED
      BY <1>3, <3>1, <3>2
  <2>2. ASSUME NEW s \in Sites, RerandCall(s)
        PROVE  Promise!Next
    <3>1. PICK w \in FrameType : w = cur
      BY <1>1
    <3>2. cur'.site = s /\ Enter(cur', w)
      BY <2>2, <3>1 DEF RerandCall, Enter, Frame
    <3>3. QED
      BY <1>3, <3>1, <3>2
  <2>3. ASSUME NEW p \in BOOLEAN, Signal(p)
        PROVE  Promise!Next
    <3>1. PICK w \in FrameType : w = cur
      BY <1>1
    <3>2. cur'.site = Restorer /\ Enter(cur', w)
      BY <2>3, <3>1 DEF Signal, Enter, Frame
    <3>3. QED
      BY <1>3, <3>1, <3>2
  <2>4. ASSUME LinkCall
        PROVE  Promise!Next
    <3>1. cur.reg \in Sites
      BY <2>4, CurFacts DEF LinkCall, Shape
    <3>2. Goto("body", NoSite) \in FrameType
      BY <1>1 DEF FrameType, Frame, Goto, AppCode
    <3>3. PICK w \in FrameType : w = Goto("body", NoSite)
      BY <3>2
    <3>4. cur'.site = cur.reg /\ Enter(cur', w) /\ w.site = cur.site
      BY <2>4, <3>3 DEF LinkCall, Enter, Frame, Goto
    <3>5. QED
      BY <1>3, <3>1, <3>4
  <2>5. ASSUME NEW n \in 1..Len(frames), Unwind(n)
        PROVE  Promise!Next
    BY <1>1, <2>5, UnwindRefines
  <2>6. ASSUME Jump \/ PlainReturn
        PROVE  Promise!Next
    BY <2>6, ReturnRefines
  <2>7. ASSUME NEW s \in Sites, LinkWrite(s)
        PROVE  UNCHANGED <<Pending, went>>
    BY <1>2, <2>7 DEF LinkWrite, Goto, Frame
  <2>8. ASSUME NEW p \in BOOLEAN, TailCall(p)
        PROVE  UNCHANGED <<Pending, went>>
    BY <1>2, <2>8 DEF TailCall, Frame
  <2>9. ASSUME NEW n \in cur.at..Size, Locals(n)
        PROVE  UNCHANGED <<Pending, went>>
    BY <1>2, <2>9 DEF Locals, Frame
  <2>10. ASSUME Prologue \/ Drop \/ SlotFault
         PROVE  UNCHANGED <<Pending, went>>
    BY <1>2, <2>10 DEF Prologue, Drop, SlotFault, Crash, stacks, Goto, Frame
  <2>11. QED
    BY <1>5, <2>1, <2>2, <2>3, <2>4, <2>5, <2>6, <2>7, <2>8, <2>9, <2>10 DEF Program
<1>6. CASE Rerand
  <2>1. frames' = frames /\ cur'.site = cur.site /\ went' = went
    BY <1>6 DEF Rerand, Look, Test, Set, Map, MapFails, SetGs, Clear, MetadataFault, Crash, stacks, Goto, Frame
  <2>2. QED
    BY <1>2, <2>1
<1>7. QED
  BY <1>4, <1>5, <1>6 DEF Next

(* Every return of a thread goes where its call came from: ReturnPath      *)
(* implements ReturnStack.                                                 *)
THEOREM ReturnsImplement == Spec => ReturnsMatch
<1>1. Init => Promise!Init
  <2>1. ASSUME Init PROVE Pending = <<>> /\ went = Nowhere
    BY <2>1 DEF Init, Pending
  <2>2. QED
    BY <2>1 DEF Promise!Init
<1>2. RInv /\ [Next]_vars => [Promise!Next]_<<Pending, went>>
  BY StepRefines
<1>3. QED
  BY <1>1, <1>2, PathInductive, PTL DEF Spec, ReturnsMatch, Promise!Spec
=============================================================================
