--------------------------- MODULE NesMachineProofs ---------------------------
(***************************************************************************)
(* Theorems about NesMachine, for any frame and any program.               *)
(***************************************************************************)
EXTENDS NesMachine, Integers, TLAPS

-----------------------------------------------------------------------------
(* The PPU, dot by dot *)

LEMMA Dots ==
  /\ FrameDots \in Nat /\ VblDot \in Nat /\ SkipDot \in Nat /\ ClearDot = 1
  /\ 2 < SkipDot /\ SkipDot + 1 < VblDot /\ VblDot + 1 < FrameDots
BY NesAssumption DEF ClearDot

\* The flag, the bit and the line, by the dot: live tells that the program has
\* this frame's flag yet to read.
Good(p, live) ==
  /\ p.vbl <=> InVblank(p) /\ live
  /\ p.status <=> Visible(p) /\ live
  /\ p.setting <=> p.dot = VblDot + 1 /\ live
  /\ p.clearing <=> p.dot = ClearDot + 1
  /\ p.nmi <=> p.vbl /\ p.ctrl

\* One dot in fields; x is the PPU before the beam moves on.
LEMMA ClockFields ==
  ASSUME NEW p \in PpuState, NEW short \in BOOLEAN
  PROVE  LET y == Clock(p, short) IN
         /\ y \in PpuState
         /\ y.ctrl = p.ctrl
         /\ y.dot = (p.dot + (IF short /\ p.dot = SkipDot THEN 2 ELSE 1)) % FrameDots
         /\ y.status <=> (p.status \/ p.setting) /\ ~p.clearing
         /\ y.vbl <=> p.dot = VblDot \/ (p.vbl /\ p.dot # ClearDot)
         /\ y.setting <=> p.dot = VblDot
         /\ y.clearing <=> p.dot = ClearDot
         /\ p.dot \in {VblDot, ClearDot} => (y.nmi <=> y.vbl /\ y.ctrl)
         /\ p.dot \notin {VblDot, ClearDot} => (y.nmi <=> p.nmi)
<1> DEFINE c == Committed(p)
           f == Flagged(c)
           y == Clock(p, short)
           d == (p.dot + (IF short /\ p.dot = SkipDot THEN 2 ELSE 1)) % FrameDots
<1>1. /\ c \in PpuState /\ c.dot = p.dot /\ c.ctrl = p.ctrl /\ c.vbl = p.vbl /\ c.nmi = p.nmi
      /\ ~c.setting /\ ~c.clearing
      /\ c.status <=> (p.status \/ p.setting) /\ ~p.clearing
  <2> DEFINE s == (p.status \/ p.setting) /\ ~p.clearing
  <2>1. s \in BOOLEAN
    BY DEF PpuState
  <2>2. c = [p EXCEPT !.status = s, !.setting = FALSE, !.clearing = FALSE]
    BY DEF Committed
  <2> HIDE DEF s, c
  <2>3. c \in PpuState /\ c.status = s
    BY <2>1, <2>2 DEF PpuState
  <2>4. c.dot = p.dot /\ c.ctrl = p.ctrl /\ c.vbl = p.vbl /\ c.nmi = p.nmi
        /\ ~c.setting /\ ~c.clearing
    BY <2>2 DEF PpuState
  <2> QED BY <2>3, <2>4 DEF s
<1> HIDE DEF c
<1>2. /\ f \in PpuState /\ f.dot = c.dot /\ f.ctrl = c.ctrl /\ f.status = c.status
      /\ f.vbl <=> c.dot = VblDot \/ (c.vbl /\ c.dot # ClearDot)
      /\ f.setting <=> c.dot = VblDot
      /\ f.clearing <=> c.dot = ClearDot
      /\ c.dot \in {VblDot, ClearDot} => (f.nmi <=> f.vbl /\ f.ctrl)
      /\ c.dot \notin {VblDot, ClearDot} => (f.nmi <=> c.nmi)
  <2>1. ASSUME NEW v \in BOOLEAN, NEW s \in BOOLEAN, NEW k \in BOOLEAN
        PROVE  LET g == Driven([c EXCEPT !.vbl = v, !.setting = s, !.clearing = k]) IN
               /\ g \in PpuState /\ g.dot = c.dot /\ g.ctrl = c.ctrl /\ g.status = c.status
               /\ g.vbl = v /\ g.setting = s /\ g.clearing = k
               /\ g.nmi <=> g.vbl /\ g.ctrl
    <3> DEFINE h == [c EXCEPT !.vbl = v, !.setting = s, !.clearing = k]
               n == h.vbl /\ h.ctrl
               g == Driven(h)
    <3>1. /\ h \in PpuState /\ h.dot = c.dot /\ h.ctrl = c.ctrl /\ h.status = c.status
          /\ h.vbl = v /\ h.setting = s /\ h.clearing = k
      BY <1>1 DEF PpuState
    <3> HIDE DEF h
    <3>2. n \in BOOLEAN /\ g = [h EXCEPT !.nmi = n]
      BY <3>1 DEF Driven, PpuState
    <3> HIDE DEF n, g
    <3>3. /\ g \in PpuState /\ g.dot = h.dot /\ g.ctrl = h.ctrl /\ g.status = h.status
          /\ g.vbl = h.vbl /\ g.setting = h.setting /\ g.clearing = h.clearing /\ g.nmi = n
      BY <3>1, <3>2 DEF PpuState
    <3> QED BY <3>1, <3>3 DEF n, g, h
  <2>2. CASE c.dot = VblDot
    <3>1. [c EXCEPT !.vbl = TRUE, !.setting = TRUE]
            = [c EXCEPT !.vbl = TRUE, !.setting = TRUE, !.clearing = FALSE]
      BY <1>1 DEF PpuState
    <3>2. f = Driven([c EXCEPT !.vbl = TRUE, !.setting = TRUE])
      BY <2>2, Dots DEF Flagged
    <3> DEFINE g == Driven([c EXCEPT !.vbl = TRUE, !.setting = TRUE, !.clearing = FALSE])
    <3>3. f = g
      BY <3>1, <3>2
    <3>4. /\ g \in PpuState /\ g.dot = c.dot /\ g.ctrl = c.ctrl /\ g.status = c.status
          /\ g.vbl = TRUE /\ g.setting = TRUE /\ g.clearing = FALSE
          /\ g.nmi <=> g.vbl /\ g.ctrl
      BY <2>1
    <3> HIDE DEF f, g
    <3> QED BY <2>2, <3>3, <3>4, Dots
  <2>3. CASE c.dot = ClearDot
    <3>1. [c EXCEPT !.vbl = FALSE, !.clearing = TRUE]
            = [c EXCEPT !.vbl = FALSE, !.setting = FALSE, !.clearing = TRUE]
      BY <1>1 DEF PpuState
    <3>2. f = Driven([c EXCEPT !.vbl = FALSE, !.clearing = TRUE])
      BY <2>3, Dots DEF Flagged
    <3> DEFINE g == Driven([c EXCEPT !.vbl = FALSE, !.setting = FALSE, !.clearing = TRUE])
    <3>3. f = g
      BY <3>1, <3>2
    <3>4. /\ g \in PpuState /\ g.dot = c.dot /\ g.ctrl = c.ctrl /\ g.status = c.status
          /\ g.vbl = FALSE /\ g.setting = FALSE /\ g.clearing = TRUE
          /\ g.nmi <=> g.vbl /\ g.ctrl
      BY <2>1
    <3> HIDE DEF f, g
    <3> QED BY <2>3, <3>3, <3>4, Dots
  <2>4. CASE c.dot \notin {VblDot, ClearDot}
    <3>1. f = c
      BY <2>4 DEF Flagged
    <3> HIDE DEF f
    <3> QED BY <1>1, <2>4, <3>1
  <2> QED BY <2>2, <2>3, <2>4
<1> HIDE DEF f
<1>3. y = [f EXCEPT !.dot = d]
  BY <1>1, <1>2 DEF Clock, Advanced, c, f
<1>4. d \in 0 .. FrameDots - 1
  BY Dots DEF PpuState
<1> HIDE DEF d, y
<1>5. /\ y \in PpuState /\ y.dot = d /\ y.ctrl = f.ctrl /\ y.status = f.status
      /\ y.vbl = f.vbl /\ y.setting = f.setting /\ y.clearing = f.clearing /\ y.nmi = f.nmi
  BY <1>2, <1>3, <1>4 DEF PpuState
<1> QED BY <1>1, <1>2, <1>5 DEF d, y

\* The mark of the beam: in a dot the flag changes at VblDot and ClearDot only.
LEMMA GoodDot ==
  ASSUME NEW p \in PpuState, NEW live \in BOOLEAN, Good(p, live), NEW short \in BOOLEAN
  PROVE  Good(Clock(p, short), live \/ p.dot = VblDot)
<1> DEFINE y == Clock(p, short)
           a == p.dot
           b == y.dot
           later == live \/ a = VblDot
<1>1. /\ y.ctrl = p.ctrl
      /\ b = (a + (IF short /\ a = SkipDot THEN 2 ELSE 1)) % FrameDots
      /\ y.status <=> (p.status \/ p.setting) /\ ~p.clearing
      /\ y.vbl <=> a = VblDot \/ (p.vbl /\ a # ClearDot)
      /\ y.setting <=> a = VblDot
      /\ y.clearing <=> a = ClearDot
      /\ a \in {VblDot, ClearDot} => (y.nmi <=> y.vbl /\ y.ctrl)
      /\ a \notin {VblDot, ClearDot} => (y.nmi <=> p.nmi)
  BY ClockFields
<1>2. a \in 0 .. FrameDots - 1
  BY DEF PpuState
<1>3. /\ a = FrameDots - 1 => b = 0
      /\ a # FrameDots - 1 => b = a + 1 \/ (a = SkipDot /\ b = a + 2)
  BY <1>1, <1>2, Dots
<1>4. /\ p.vbl <=> (a > VblDot \/ a <= ClearDot) /\ live
      /\ p.status <=> (a > VblDot + 1 \/ a <= ClearDot + 1) /\ live
      /\ p.setting <=> a = VblDot + 1 /\ live
      /\ p.clearing <=> a = ClearDot + 1
      /\ p.nmi <=> p.vbl /\ p.ctrl
  BY DEF Good, InVblank, Visible
<1> HIDE DEF y, a, b
<1>5. y.vbl <=> (b > VblDot \/ b <= ClearDot) /\ later
  BY <1>1, <1>2, <1>3, <1>4, Dots
<1>6. y.status <=> (b > VblDot + 1 \/ b <= ClearDot + 1) /\ later
  BY <1>1, <1>2, <1>3, <1>4, Dots
<1>7. y.setting <=> b = VblDot + 1 /\ later
  BY <1>1, <1>2, <1>3, Dots
<1>8. y.clearing <=> b = ClearDot + 1
  BY <1>1, <1>2, <1>3, Dots
<1>9. y.nmi <=> y.vbl /\ y.ctrl
  BY <1>1, <1>4
<1> QED BY <1>5, <1>6, <1>7, <1>8, <1>9 DEF Good, InVblank, Visible, y, b, a

\* Where the beam goes from one dot.
Follows(b, a) == /\ b \in 0 .. FrameDots - 1
                 /\ a = FrameDots - 1 => b = 0
                 /\ a # FrameDots - 1 => b = a + 1 \/ (a = SkipDot /\ b = a + 2)

LEMMA Beam ==
  ASSUME NEW p \in PpuState, NEW short \in BOOLEAN
  PROVE  Follows(Clock(p, short).dot, p.dot)
<1>1. /\ Clock(p, short).dot = (p.dot + (IF short /\ p.dot = SkipDot THEN 2 ELSE 1)) % FrameDots
      /\ Clock(p, short) \in PpuState
  BY ClockFields
<1>2. p.dot \in 0 .. FrameDots - 1 /\ Clock(p, short).dot \in 0 .. FrameDots - 1
  BY <1>1 DEF PpuState
<1> QED BY <1>1, <1>2, Dots DEF Follows

\* Between two CPU cycles: the flag is set in one of the dots, or none of them
\* begins the vertical blank.
LEMMA ClockedGood ==
  ASSUME ppu \in PpuState, NEW live \in BOOLEAN, Good(ppu, live), NEW short \in BOOLEAN
  PROVE  LET p == Clocked(short) IN
         /\ p \in PpuState /\ p.ctrl = ppu.ctrl
         /\ \/ Good(p, TRUE) /\ ~InVblank(ppu) /\ InVblank(p)
            \/ Good(p, live) /\ (InVblank(p) => InVblank(ppu))
<1> DEFINE x == Clock(ppu, short)
           y == Clock(x, short)
           z == Clock(y, short)
           a == ppu.dot
<1>0. a \in 0 .. FrameDots - 1
  BY DEF PpuState
<1>1. /\ x \in PpuState /\ x.ctrl = ppu.ctrl /\ Follows(x.dot, a)
      /\ Good(x, live \/ a = VblDot)
  BY ClockFields, Beam, GoodDot
<1> HIDE DEF x
<1> DEFINE l1 == live \/ a = VblDot
<1>2. l1 \in BOOLEAN
  OBVIOUS
<1>3. /\ y \in PpuState /\ y.ctrl = x.ctrl /\ Follows(y.dot, x.dot)
      /\ Good(y, l1 \/ x.dot = VblDot)
  BY <1>1, <1>2, ClockFields, Beam, GoodDot
<1> HIDE DEF y, l1
<1> DEFINE l2 == l1 \/ x.dot = VblDot
<1>4. l2 \in BOOLEAN
  BY <1>2
<1>5. /\ z \in PpuState /\ z.ctrl = y.ctrl /\ Follows(z.dot, y.dot)
      /\ Good(z, l2 \/ y.dot = VblDot)
  BY <1>3, <1>4, ClockFields, Beam, GoodDot
<1> HIDE DEF z, l2
<1>6. CASE cpu_div = 0
  <2>1. Clocked(short) = x
    BY <1>6 DEF Clocked, x
  <2>2. CASE a = VblDot
    <3>1. Good(x, TRUE)
      BY <1>1, <2>2
    <3>2. x.dot = VblDot + 1
      BY <1>1, <2>2, Dots DEF Follows
    <3>3. ~InVblank(ppu) /\ InVblank(x)
      BY <2>2, <3>2, Dots DEF InVblank
    <3> QED BY <1>1, <2>1, <3>1, <3>3
  <2>3. CASE a # VblDot
    <3>1. Good(x, live)
      BY <1>1, <2>3
    <3>2. InVblank(x) => InVblank(ppu)
      BY <1>0, <1>1, <2>3, Dots DEF InVblank, Follows
    <3> QED BY <1>1, <2>1, <3>1, <3>2
  <2> QED BY <2>2, <2>3
<1>7. CASE cpu_div # 0
  <2>1. Clocked(short) = z
    BY <1>7 DEF Clocked, x, y, z
  <2>2. CASE VblDot \in {a, x.dot, y.dot}
    <3>1. Good(z, TRUE)
      <4>1. (l2 \/ y.dot = VblDot) = TRUE
        BY <1>2, <2>2 DEF l2, l1
      <4> QED BY <1>5, <4>1
    <3>2. ~InVblank(ppu) /\ InVblank(z)
      BY <1>0, <1>1, <1>3, <1>5, <2>2, Dots DEF InVblank, Follows
    <3> QED BY <1>1, <1>3, <1>5, <2>1, <3>1, <3>2
  <2>3. CASE VblDot \notin {a, x.dot, y.dot}
    <3>1. Good(z, live)
      <4>1. (l2 \/ y.dot = VblDot) = live
        BY <2>3 DEF l2, l1
      <4> QED BY <1>5, <4>1
    <3>2. InVblank(z) => InVblank(ppu)
      BY <1>0, <1>1, <1>3, <1>5, <2>3, Dots DEF InVblank, Follows
    <3> QED BY <1>1, <1>3, <1>5, <2>1, <3>1, <3>2
  <2> QED BY <2>2, <2>3
<1> QED BY <1>6, <1>7

-----------------------------------------------------------------------------
(* The vertical blank, as the program meets it *)

LEMMA ReadFields ==
  ASSUME NEW p \in PpuState
  PROVE  LET q == StatusRead(p) IN
         /\ q \in PpuState /\ q.dot = p.dot /\ q.ctrl = p.ctrl /\ q.clearing = p.clearing
         /\ ~q.vbl /\ ~q.status /\ ~q.setting /\ ~q.nmi
<1> DEFINE h == [p EXCEPT !.status = FALSE, !.vbl = FALSE, !.setting = FALSE]
           n == h.vbl /\ h.ctrl
           q == StatusRead(p)
<1>1. /\ h \in PpuState /\ h.dot = p.dot /\ h.ctrl = p.ctrl /\ h.clearing = p.clearing
      /\ ~h.vbl /\ ~h.status /\ ~h.setting
  BY DEF PpuState
<1> HIDE DEF h
<1>2. ~n /\ n \in BOOLEAN /\ q = [h EXCEPT !.nmi = n]
  BY <1>1 DEF StatusRead, Driven, h
<1> HIDE DEF n, q
<1>3. /\ q \in PpuState /\ q.dot = h.dot /\ q.ctrl = h.ctrl /\ q.clearing = h.clearing
      /\ q.vbl = h.vbl /\ q.status = h.status /\ q.setting = h.setting /\ q.nmi = n
  BY <1>1, <1>2 DEF PpuState
<1> QED BY <1>1, <1>2, <1>3 DEF q

LEMMA WriteFields ==
  ASSUME NEW p \in PpuState, NEW e \in BOOLEAN
  PROVE  LET q == CtrlWritten(p, e) IN
         /\ q \in PpuState /\ q.dot = p.dot /\ q.ctrl = e /\ q.clearing = p.clearing
         /\ q.vbl = p.vbl /\ q.status = p.status /\ q.setting = p.setting
         /\ q.nmi <=> p.vbl /\ e
<1> DEFINE h == [p EXCEPT !.ctrl = e]
           n == h.vbl /\ h.ctrl
           q == CtrlWritten(p, e)
<1>1. /\ h \in PpuState /\ h.dot = p.dot /\ h.ctrl = e /\ h.clearing = p.clearing
      /\ h.vbl = p.vbl /\ h.status = p.status /\ h.setting = p.setting
  BY DEF PpuState
<1> HIDE DEF h
<1>2. (n <=> p.vbl /\ e) /\ n \in BOOLEAN /\ q = [h EXCEPT !.nmi = n]
  BY <1>1 DEF CtrlWritten, Driven, h
<1> HIDE DEF n, q
<1>3. /\ q \in PpuState /\ q.dot = h.dot /\ q.ctrl = h.ctrl /\ q.clearing = h.clearing
      /\ q.vbl = h.vbl /\ q.status = h.status /\ q.setting = h.setting /\ q.nmi = n
  BY <1>1, <1>2 DEF PpuState
<1> QED BY <1>1, <1>2, <1>3 DEF q

\* A cycle, as far as the PPU is concerned.
Accessed(p, q, reads) ==
  /\ ppu' = q /\ Witness(p, q, reads)
  /\ IF reads THEN q = StatusRead(p)
     ELSE q = p \/ \E e \in BOOLEAN : q = CtrlWritten(p, e)

LEMMA EachCycle ==
  ASSUME Next, ~Reset
  PROVE  \E short, reads, q : /\ short \in BOOLEAN /\ reads \in BOOLEAN
                                /\ Accessed(Clocked(short), q, reads) /\ cpu_div' = 2
<1>1. CASE Cycle \/ StartDma \/ WriteMapper \/ DmaCycle
  <2>1. PICK short \in BOOLEAN : /\ ppu' = Clocked(short) /\ cpu_div' = 2
                                 /\ Witness(Clocked(short), Clocked(short), FALSE)
    BY <1>1 DEF Cycle, StartDma, WriteMapper, DmaCycle, Run
  <2>2. Accessed(Clocked(short), Clocked(short), FALSE)
    BY <2>1 DEF Accessed
  <2> QED BY <2>1, <2>2
<1>2. CASE ReadStatus
  <2>1. PICK short \in BOOLEAN : /\ ppu' = StatusRead(Clocked(short)) /\ cpu_div' = 2
                                 /\ Witness(Clocked(short), StatusRead(Clocked(short)), TRUE)
    BY <1>2 DEF ReadStatus, Run
  <2>2. Accessed(Clocked(short), StatusRead(Clocked(short)), TRUE)
    BY <2>1 DEF Accessed
  <2> QED BY <2>1, <2>2
<1>3. CASE WriteCtrl
  <2>1. PICK short \in BOOLEAN, e \in BOOLEAN :
          /\ ppu' = CtrlWritten(Clocked(short), e) /\ cpu_div' = 2
          /\ Witness(Clocked(short), CtrlWritten(Clocked(short), e), FALSE)
    BY <1>3 DEF WriteCtrl, Run
  <2>2. Accessed(Clocked(short), CtrlWritten(Clocked(short), e), FALSE)
    BY <2>1 DEF Accessed
  <2> QED BY <2>1, <2>2
<1> QED BY <1>1, <1>2, <1>3 DEF Next

\* What the program has read decides about the flag; with NMIs enabled ever since
\* it was set, the CPU has had its edge unless the read came first.
VInv ==
  /\ Good(ppu, told = "due")
  /\ armed => ppu.ctrl /\ (heard <=> ~hushed)

\* The ghosts at the start of a cycle, before its access.
LEMMA BeforeGood ==
  ASSUME ppu \in PpuState, Good(ppu, told = "due"), NEW short \in BOOLEAN
  PROVE  LET p == Clocked(short) IN
         /\ p \in PpuState /\ p.ctrl = ppu.ctrl
         /\ Good(p, Before(p) = "due")
         /\ Over(p) => ~p.vbl /\ ~Met(p)
<1> DEFINE p == Clocked(short)
           live == told = "due"
<1>1. live \in BOOLEAN
  OBVIOUS
<1>2. /\ p \in PpuState /\ p.ctrl = ppu.ctrl
      /\ \/ Good(p, TRUE) /\ ~InVblank(ppu) /\ InVblank(p)
         \/ Good(p, live) /\ (InVblank(p) => InVblank(ppu))
  <2> HIDE DEF live
  <2>1. Good(ppu, live)
    BY DEF live
  <2> QED BY <1>1, <2>1, ClockedGood
<1> HIDE DEF p
<1>3. CASE Good(p, TRUE) /\ ~InVblank(ppu) /\ InVblank(p)
  <2>1. Met(p) /\ ~Over(p)
    BY <1>3 DEF Met, Over, Good
  <2>2. Before(p) = "due"
    BY <2>1 DEF Before, Over
  <2>3. (Before(p) = "due") = TRUE
    BY <2>2
  <2> QED BY <1>2, <1>3, <2>1, <2>3 DEF p
<1>4. CASE Good(p, live) /\ (InVblank(p) => InVblank(ppu))
  <2>1. ~Met(p)
    BY <1>4 DEF Met, Good
  <2>2. CASE Over(p)
    <3>1. ~InVblank(p) /\ ~Visible(p) /\ p.dot # VblDot + 1
      <4>1. p.dot \in Int
        BY <1>2, Dots DEF PpuState
      <4> QED BY <2>2, <4>1, Dots DEF Over, Visible, InVblank
    <3>2. Before(p) = "none"
      BY <2>1, <2>2 DEF Before
    <3>3. (Before(p) = "due") = FALSE
      BY <3>2
    <3>4. Good(p, FALSE) /\ ~p.vbl
      BY <1>4, <3>1 DEF Good
    <3> QED BY <1>2, <2>1, <3>3, <3>4 DEF p
  <2>3. CASE ~Over(p)
    <3>1. Before(p) = told
      BY <2>1, <2>3 DEF Before
    <3> QED BY <1>2, <1>4, <2>1, <2>3, <3>1 DEF p
  <2> QED BY <2>2, <2>3
<1> QED BY <1>2, <1>3, <1>4

LEMMA ReadGood ==
  ASSUME NEW p \in PpuState, Good(p, Before(p) = "due")
  PROVE  Good(StatusRead(p), Answered(p) = "due")
<1> DEFINE q == StatusRead(p)
<1>1. /\ q.dot = p.dot /\ q.clearing = p.clearing
      /\ ~q.vbl /\ ~q.status /\ ~q.setting /\ ~q.nmi
  BY ReadFields
<1>2. InVblank(q) = InVblank(p) /\ Visible(q) = Visible(p)
  BY <1>1 DEF InVblank, Visible
<1> HIDE DEF q
<1>3. CASE p.status \/ p.setting
  <2>1. Answered(p) # "due"
    BY <1>3 DEF Answered
  <2> QED BY <1>1, <2>1 DEF Good, q
<1>4. CASE ~p.status /\ ~p.setting
  <2>1. Answered(p) = Before(p)
    BY <1>4 DEF Answered
  <2>2. Before(p) = "due" => ~InVblank(p) /\ ~Visible(p) /\ p.dot # VblDot + 1
    <3>1. p.dot \in Int
      BY Dots DEF PpuState
    <3> QED BY <1>4, <3>1, Dots DEF Good, InVblank, Visible
  <2> QED BY <1>1, <1>2, <2>1, <2>2 DEF Good, q
<1> QED BY <1>3, <1>4

LEMMA VNext ==
  ASSUME ppu \in PpuState, VInv, NEW short \in BOOLEAN, NEW reads \in BOOLEAN, NEW q,
         Accessed(Clocked(short), q, reads)
  PROVE  ppu' \in PpuState /\ VInv'
<1> DEFINE p == Clocked(short)
<1>1. /\ p \in PpuState /\ p.ctrl = ppu.ctrl
      /\ Good(p, Before(p) = "due")
      /\ Over(p) => ~p.vbl /\ ~Met(p)
  BY BeforeGood DEF VInv
<1> HIDE DEF p
<1>2. /\ ppu' = q
      /\ told' = IF reads THEN Answered(p) ELSE Before(p)
      /\ armed' = (q.ctrl /\ ~Over(p) /\ IF Met(p) THEN p.ctrl ELSE armed)
      /\ hushed' = (~Over(p) /\ IF Met(p) THEN reads ELSE hushed)
      /\ heard' = (~Over(p) /\ ((q.nmi /\ ~ppu.nmi) \/ (heard /\ ~Met(p))))
  BY DEF Accessed, Witness, p
<1>3. /\ q \in PpuState /\ Good(q, told' = "due")
      /\ q.vbl <=> p.vbl /\ ~reads
      /\ q.nmi <=> q.vbl /\ q.ctrl
  <2>1. CASE reads
    <3>1. q = StatusRead(p)
      BY <2>1 DEF Accessed, p
    <3>2. told' = Answered(p)
      BY <1>2, <2>1
    <3> QED BY <1>1, <2>1, <3>1, <3>2, ReadFields, ReadGood
  <2>2. CASE ~reads /\ q = p
    BY <1>1, <1>2, <2>2 DEF Good
  <2>3. CASE ~reads /\ \E e \in BOOLEAN : q = CtrlWritten(p, e)
    <3>1. PICK e \in BOOLEAN : q = CtrlWritten(p, e)
      BY <2>3
    <3>2. /\ q \in PpuState /\ q.dot = p.dot /\ q.ctrl = e /\ q.clearing = p.clearing
          /\ q.vbl = p.vbl /\ q.status = p.status /\ q.setting = p.setting
          /\ q.nmi <=> p.vbl /\ e
      BY <1>1, <3>1, WriteFields
    <3>3. InVblank(q) = InVblank(p) /\ Visible(q) = Visible(p)
      BY <3>2 DEF InVblank, Visible
    <3>4. told' = Before(p)
      BY <1>2, <2>3
    <3>5. Good(q, Before(p) = "due")
      BY <1>1, <3>2, <3>3 DEF Good
    <3> QED BY <2>3, <3>2, <3>4, <3>5
  <2> QED BY <2>1, <2>2, <2>3 DEF Accessed, p
<1>4. armed' => q.ctrl /\ (heard' <=> ~hushed')
  <2> SUFFICES ASSUME armed' PROVE q.ctrl /\ (heard' <=> ~hushed')
    OBVIOUS
  <2>1. q.ctrl /\ ~Over(p)
    BY <1>2
  <2>2. CASE Met(p)
    <3>1. p.vbl /\ ~ppu.vbl /\ ~ppu.nmi
      BY <2>2 DEF Met, VInv, Good
    <3>2. hushed' <=> reads
      BY <1>2, <2>1, <2>2
    <3>3. heard' <=> q.nmi
      BY <1>2, <2>1, <2>2, <3>1
    <3> QED BY <1>3, <2>1, <3>1, <3>2, <3>3
  <2>3. CASE ~Met(p)
    <3>1. armed
      BY <1>2, <2>3
    <3>2. ppu.ctrl /\ (heard <=> ~hushed)
      BY <3>1 DEF VInv
    <3>3. ~(q.nmi /\ ~ppu.nmi)
      BY <1>3, <2>3, <3>2 DEF Met, VInv, Good
    <3>4. (heard' <=> heard) /\ (hushed' <=> hushed)
      BY <1>2, <2>1, <2>3, <3>3
    <3> QED BY <2>1, <3>2, <3>4
  <2> QED BY <2>2, <2>3
<1>5. Good(ppu', told' = "due")
  BY <1>2, <1>3
<1> QED BY <1>2, <1>3, <1>4, <1>5 DEF VInv

PpuInv == ppu \in PpuState /\ VInv

LEMMA ResetGood ==
  ASSUME NEW t, t # "due"
  PROVE  PpuReset \in PpuState /\ Good(PpuReset, t = "due") /\ ~PpuReset.nmi
<1>1. PpuReset \in PpuState
  BY Dots DEF PpuReset, PpuState
<1>2. (t = "due") = FALSE
  OBVIOUS
<1>3. Good(PpuReset, FALSE)
  BY Dots DEF PpuReset, Good, InVblank, Visible
<1> QED BY <1>1, <1>2, <1>3 DEF PpuReset

LEMMA PpuInit == Init => PpuInv
BY ResetGood DEF Init, PpuInv, VInv

LEMMA PpuNext == PpuInv /\ [Next]_vars => PpuInv'
<1> SUFFICES ASSUME PpuInv, [Next]_vars PROVE PpuInv'
  OBVIOUS
<1>1. CASE Reset
  <2>1. ppu' = PpuReset /\ told' = "none" /\ ~armed'
    BY <1>1 DEF Reset
  <2> QED BY <2>1, ResetGood DEF PpuInv, VInv
<1>2. CASE Next /\ ~Reset
  <2>1. PICK short, reads, q : /\ short \in BOOLEAN /\ reads \in BOOLEAN
                               /\ Accessed(Clocked(short), q, reads)
    BY <1>2, EachCycle
  <2> QED BY <2>1, VNext DEF PpuInv
<1>3. CASE UNCHANGED vars
  BY <1>3 DEF vars, PpuInv, VInv, Good, InVblank, Visible
<1> QED BY <1>1, <1>2, <1>3

\* The PPU's clock, status read and update_nmi_output: the program gets each
\* frame's flag, or its NMI, exactly as VblankReported says, wherever in the frame
\* the flag is set and cleared, and whatever the program reads and writes when.
THEOREM VblankIsReported == Spec => []VblankReported
<1>1. PpuInv => VblankReported
  BY DEF PpuInv, VInv, Good, VblankReported
<1> QED BY <1>1, PpuInit, PpuNext, PTL DEF Spec

-----------------------------------------------------------------------------
(* The CPU *)

LEMMA Lengths ==
  /\ Ops = {"nop", "cli", "sei", "branch", "crossing", "absolute", "rti", "op_brk"}
  /\ Length["nop"] = 1 /\ Length["cli"] = 1 /\ Length["sei"] = 1 /\ Length["branch"] = 2
  /\ Length["crossing"] = 3 /\ Length["absolute"] = 3 /\ Length["rti"] = 5 /\ Length["op_brk"] = 6
BY DEF Ops, Length

LEMMA LengthOf ==
  ASSUME NEW op \in Ops
  PROVE  Length[op] \in 1 .. 6
BY Lengths

\* A CPU that is within an instruction, or at its fetch.
CpuOK(c) == /\ c \in CpuState
            /\ IF c.op = "fetch" THEN c.cycle = 0 ELSE c.cycle < Length[c.op]

LEMMA ShiftedType ==
  ASSUME NEW c \in CpuState, NEW irq \in BOOLEAN
  PROVE  /\ Shifted(c, irq) \in 0 .. 7
         /\ irq /\ c.irqs % 4 = 3 => Shifted(c, irq) = 7
         /\ irq => Shifted(c, irq) % 2 = 1
         /\ irq /\ c.irqs % 2 = 1 => Shifted(c, irq) % 4 = 3
<1>1. c.irqs \in 0 .. 7
  BY DEF CpuState
<1> QED BY <1>1 DEF Shifted

\* The fields an interrupt does not take.
Same(d, c) ==
  /\ d.op = c.op /\ d.cycle = c.cycle /\ d.I = c.I /\ d.I_sample = c.I_sample
  /\ d.suppressed = c.suppressed /\ d.irq_at_poll = c.irq_at_poll
  /\ d.nmi_at_poll = c.nmi_at_poll

LEMMA Phi2Fields ==
  ASSUME NEW c \in CpuState, NEW nmi \in BOOLEAN, NEW irq \in BOOLEAN
  PROVE  LET d == Phi2(c, nmi, irq)
             int == Detected(c, irq)
         IN /\ d \in CpuState /\ Same(d, c)
            /\ IF Hijacks(c, irq)
                 THEN /\ d.active = int /\ d.hijack /\ ~d.software /\ d.irqs = 0
                      /\ IF int = "nmi" THEN d.nmi_prev = nmi /\ ~d.latch /\ ~d.output
                         ELSE d.nmi_prev = c.nmi_prev /\ d.latch = c.latch /\ d.output = c.latch
                 ELSE /\ d.active = c.active /\ d.hijack = c.hijack /\ d.software = c.software
                      /\ d.irqs = Shifted(c, irq)
                      /\ d.nmi_prev = c.nmi_prev /\ d.latch = c.latch /\ d.output = c.latch
<1> DEFINE d == Phi2(c, nmi, irq)
           int == Detected(c, irq)
           t == [c EXCEPT !.active = int, !.hijack = TRUE, !.software = FALSE, !.irqs = 0]
<1>1. int \in {"nmi", "irq", "none"}
  BY DEF Detected
<1>2. Shifted(c, irq) \in 0 .. 7
  BY ShiftedType
<1> HIDE DEF int
<1>3. /\ t \in CpuState /\ Same(t, c)
      /\ t.active = int /\ t.hijack /\ ~t.software /\ t.irqs = 0
      /\ t.nmi_prev = c.nmi_prev /\ t.latch = c.latch /\ t.output = c.output
  <2>1. t \in CpuState
    <3>1. ASSUME NEW x \in CpuState, NEW i \in Interrupts PROVE [x EXCEPT !.active = i] \in CpuState
      BY DEF CpuState
    <3>2. ASSUME NEW x \in CpuState
          PROVE  [x EXCEPT !.hijack = TRUE] \in CpuState /\ [x EXCEPT !.software = FALSE] \in CpuState
      BY DEF CpuState
    <3>n. ASSUME NEW x \in CpuState, NEW n \in 0 .. 7 PROVE [x EXCEPT !.irqs = n] \in CpuState
      BY DEF CpuState
    <3>3. int \in Interrupts
      BY <1>1 DEF Interrupts
    <3> DEFINE t1 == [c EXCEPT !.active = int]
               t2 == [t1 EXCEPT !.hijack = TRUE]
               t3 == [t2 EXCEPT !.software = FALSE]
    <3>4. t = [t3 EXCEPT !.irqs = 0] /\ 0 \in 0 .. 7
      OBVIOUS
    <3>5. t1 \in CpuState
      BY <3>1, <3>3
    <3> HIDE DEF t1
    <3>6. t2 \in CpuState
      BY <3>2, <3>5
    <3> HIDE DEF t2
    <3>7. t3 \in CpuState
      BY <3>2, <3>6
    <3> HIDE DEF t3, t
    <3> QED BY <3>n, <3>4, <3>7
  <2>2. /\ Same(t, c)
        /\ t.active = int /\ t.hijack /\ ~t.software /\ t.irqs = 0
        /\ t.nmi_prev = c.nmi_prev /\ t.latch = c.latch /\ t.output = c.output
    BY DEF CpuState, Same
  <2> QED BY <2>1, <2>2
<1> DEFINE s == Shifted(c, irq)
<1>4. d = IF Hijacks(c, irq)
            THEN IF int = "nmi" THEN [t EXCEPT !.nmi_prev = nmi, !.latch = FALSE, !.output = FALSE]
                 ELSE [t EXCEPT !.output = c.latch]
            ELSE [c EXCEPT !.irqs = s, !.output = c.latch]
  <2>1. t.active = int
    BY <1>3
  <2> QED BY <2>1 DEF Phi2, int
<1> HIDE DEF s, t, d
<1>5. CASE Hijacks(c, irq) /\ int = "nmi"
  <2>1. d = [t EXCEPT !.nmi_prev = nmi, !.latch = FALSE, !.output = FALSE]
    BY <1>4, <1>5
  <2>2. d \in CpuState
    <3> DEFINE u == [t EXCEPT !.latch = FALSE]
               v == [u EXCEPT !.output = FALSE]
    <3>1. u \in CpuState
      BY <1>3 DEF CpuState
    <3>2. d = [v EXCEPT !.nmi_prev = nmi]
      BY <2>1
    <3> HIDE DEF u
    <3>3. v \in CpuState
      BY <3>1 DEF CpuState
    <3> HIDE DEF v
    <3> QED BY <3>2, <3>3 DEF CpuState
  <2>3. /\ Same(d, t) /\ d.active = t.active /\ d.hijack = t.hijack /\ d.software = t.software
        /\ d.irqs = t.irqs /\ d.nmi_prev = nmi /\ ~d.latch /\ ~d.output
    BY <1>3, <2>1 DEF CpuState, Same
  <2> QED BY <1>3, <1>5, <2>2, <2>3 DEF Same, d, int
<1>6. CASE Hijacks(c, irq) /\ int # "nmi"
  <2>1. d = [t EXCEPT !.output = c.latch] /\ c.latch \in BOOLEAN
    BY <1>4, <1>6 DEF CpuState
  <2>2. d \in CpuState
    BY <1>3, <2>1 DEF CpuState
  <2>3. /\ Same(d, t) /\ d.active = t.active /\ d.hijack = t.hijack /\ d.software = t.software
        /\ d.irqs = t.irqs /\ d.nmi_prev = t.nmi_prev /\ d.latch = t.latch /\ d.output = c.latch
    BY <1>3, <2>1 DEF CpuState, Same
  <2> QED BY <1>3, <1>6, <2>2, <2>3 DEF Same, d, int
<1>7. CASE ~Hijacks(c, irq)
  <2>1. d = [c EXCEPT !.irqs = s, !.output = c.latch] /\ c.latch \in BOOLEAN
    BY <1>4, <1>7 DEF CpuState
  <2>2. s \in 0 .. 7
    BY <1>2 DEF s
  <2>3. d \in CpuState
    BY <2>1, <2>2 DEF CpuState
  <2>4. /\ Same(d, c) /\ d.active = c.active /\ d.hijack = c.hijack /\ d.software = c.software
        /\ d.irqs = s /\ d.nmi_prev = c.nmi_prev /\ d.latch = c.latch /\ d.output = c.latch
    BY <2>1 DEF CpuState, Same
  <2> QED BY <1>7, <2>3, <2>4 DEF s, d
<1> QED BY <1>5, <1>6, <1>7

LEMMA SampleFields ==
  ASSUME NEW c \in CpuState, NEW nmi \in BOOLEAN
  PROVE  LET d == Sample(c, nmi) IN
         /\ d \in CpuState /\ Same(d, c)
         /\ d.active = c.active /\ d.hijack = c.hijack /\ d.software = c.software
         /\ d.irqs = c.irqs /\ d.output = c.output
         /\ d.latch <=> c.latch \/ (nmi /\ ~c.nmi_prev)
         /\ d.nmi_prev = nmi
<1> DEFINE l == c.latch \/ (nmi /\ ~c.nmi_prev)
           d == Sample(c, nmi)
<1>1. l \in BOOLEAN /\ d = [c EXCEPT !.latch = l, !.nmi_prev = nmi]
  BY DEF Sample, CpuState
<1> HIDE DEF l, d
<1>2. d \in CpuState /\ d.latch = l
  BY <1>1 DEF CpuState
<1>3. /\ Same(d, c)
      /\ d.active = c.active /\ d.hijack = c.hijack /\ d.software = c.software
      /\ d.irqs = c.irqs /\ d.output = c.output /\ d.nmi_prev = nmi
  BY <1>1 DEF CpuState, Same
<1> QED BY <1>2, <1>3 DEF l, d


LEMMA SampledFlag ==
  ASSUME NEW c \in CpuState
  PROVE  LET s == [c EXCEPT !.I_sample = c.I] IN
         /\ s \in CpuState /\ s.op = c.op /\ s.cycle = c.cycle /\ s.active = c.active
         /\ s.hijack = c.hijack /\ s.irqs = c.irqs /\ s.nmi_prev = c.nmi_prev
         /\ s.latch = c.latch /\ s.output = c.output /\ s.I = c.I /\ s.I_sample = c.I
         /\ s.software = c.software /\ s.suppressed = c.suppressed
         /\ s.irq_at_poll = c.irq_at_poll /\ s.nmi_at_poll = c.nmi_at_poll
BY DEF CpuState

\* What the fetch leaves to the instruction, or to the entry of the handler.
LEMMA FetchedFields ==
  ASSUME NEW c \in CpuState, NEW op \in Ops
  PROVE  LET d == Fetched(c, op) IN
         /\ d \in CpuState /\ d.op = (IF c.hijack THEN "op_brk" ELSE op) /\ d.cycle = 0
         /\ d.active = c.active /\ d.irqs = c.irqs /\ d.nmi_prev = c.nmi_prev
         /\ d.latch = c.latch /\ d.output = c.output /\ d.I_sample = c.I_sample
         /\ ~d.suppressed
<1> DEFINE f == PollForgotten(c)
           d == Fetched(c, op)
<1>1. /\ f \in CpuState /\ f.op = c.op /\ f.active = c.active /\ f.irqs = c.irqs
      /\ f.nmi_prev = c.nmi_prev /\ f.latch = c.latch /\ f.output = c.output
      /\ f.I_sample = c.I_sample /\ ~f.suppressed
  BY DEF PollForgotten, CpuState
<1>2. c.hijack \in BOOLEAN /\ "op_brk" \in Ops
  BY Lengths DEF CpuState
<1>a. ASSUME NEW x \in CpuState, NEW o \in Ops PROVE [x EXCEPT !.op = o, !.cycle = 0] \in CpuState
  <2>1. o \in Ops \cup {"fetch"} /\ 0 \in 0 .. 5
    OBVIOUS
  <2>2. [x EXCEPT !.op = o] \in CpuState
    BY <2>1 DEF CpuState
  <2>3. ASSUME NEW y \in CpuState PROVE [y EXCEPT !.cycle = 0] \in CpuState
    BY DEF CpuState
  <2> DEFINE y == [x EXCEPT !.op = o]
  <2>4. [x EXCEPT !.op = o, !.cycle = 0] = [y EXCEPT !.cycle = 0] /\ y \in CpuState
    BY <2>2
  <2> HIDE DEF y
  <2> QED BY <2>3, <2>4
<1>b. ASSUME NEW x \in CpuState PROVE [x EXCEPT !.hijack = FALSE] \in CpuState
  BY DEF CpuState
<1>c. ASSUME NEW x \in CpuState, NEW b \in BOOLEAN PROVE [x EXCEPT !.software = b] \in CpuState
  BY DEF CpuState
<1> HIDE DEF f
<1>3. CASE c.hijack
  <2>1. d = [f EXCEPT !.op = "op_brk", !.cycle = 0, !.hijack = FALSE]
    BY <1>3 DEF Fetched, f
  <2> HIDE DEF d
  <2>2. d \in CpuState
    <3> DEFINE x == [f EXCEPT !.op = "op_brk", !.cycle = 0]
    <3>1. x \in CpuState
      BY <1>1, <1>2, <1>a
    <3>2. d = [x EXCEPT !.hijack = FALSE]
      BY <2>1
    <3> HIDE DEF x
    <3> QED BY <1>b, <3>1, <3>2
  <2>3. /\ d.op = "op_brk" /\ d.cycle = 0
        /\ d.active = f.active /\ d.irqs = f.irqs /\ d.nmi_prev = f.nmi_prev
        /\ d.latch = f.latch /\ d.output = f.output /\ d.I_sample = f.I_sample
        /\ d.suppressed = f.suppressed
    BY <1>1, <2>1 DEF CpuState
  <2> QED BY <1>1, <1>3, <2>2, <2>3 DEF d
<1>4. CASE ~c.hijack
  <2> DEFINE b == op = "op_brk"
  <2>1. b \in BOOLEAN /\ d = [f EXCEPT !.op = op, !.cycle = 0, !.software = b]
    BY <1>4 DEF Fetched, f
  <2> HIDE DEF d, b
  <2>2. d \in CpuState
    <3> DEFINE x == [f EXCEPT !.op = op, !.cycle = 0]
    <3>1. x \in CpuState
      BY <1>1, <1>a
    <3>2. d = [x EXCEPT !.software = b]
      BY <2>1
    <3> HIDE DEF x
    <3> QED BY <1>c, <2>1, <3>1, <3>2
  <2>3. /\ d.op = op /\ d.cycle = 0
        /\ d.active = f.active /\ d.irqs = f.irqs /\ d.nmi_prev = f.nmi_prev
        /\ d.latch = f.latch /\ d.output = f.output /\ d.I_sample = f.I_sample
        /\ d.suppressed = f.suppressed
    BY <1>1, <2>1 DEF CpuState
  <2> QED BY <1>1, <1>4, <2>2, <2>3 DEF d
<1> QED BY <1>2, <1>3, <1>4

\* The parts of the state that no handler of an instruction changes, and those
\* that only the entry of an interrupt does.
Base(d, c) == /\ d.op = c.op /\ d.cycle = c.cycle /\ d.hijack = c.hijack
              /\ d.software = c.software /\ d.I_sample = c.I_sample
Polls(d, c) == /\ d.suppressed = c.suppressed
               /\ d.irq_at_poll = c.irq_at_poll /\ d.nmi_at_poll = c.nmi_at_poll
Lines(d, c) == /\ d.irqs = c.irqs /\ d.nmi_prev = c.nmi_prev /\ d.latch = c.latch
               /\ d.output = c.output

VectorOf(c) == IF c.output THEN "nmi" ELSE c.active

LEMMA VectorFields ==
  ASSUME NEW c \in CpuState, NEW nmi \in BOOLEAN
  PROVE  LET d == AtVector(c, nmi) IN
         /\ d \in CpuState /\ Base(d, c) /\ Polls(d, c)
         /\ d.active = VectorOf(c) /\ d.I /\ d.irqs = 0 /\ d.nmi_prev = nmi
         /\ d.latch <=> c.latch /\ VectorOf(c) # "nmi"
         /\ ~d.output
<1> DEFINE v == VectorOf(c)
           l == c.latch /\ v # "nmi"
           o == c.output /\ v # "nmi"
           d == AtVector(c, nmi)
<1>1. v \in Interrupts /\ l \in BOOLEAN /\ o \in BOOLEAN /\ ~o /\ 0 \in 0 .. 7
  BY DEF VectorOf, CpuState, Interrupts
<1>2. d = [c EXCEPT !.active = v, !.I = TRUE, !.irqs = 0, !.latch = l, !.output = o,
                    !.nmi_prev = nmi]
  BY DEF AtVector, VectorOf, LatchKept
<1> HIDE DEF v, l, o, d
<1>3. d \in CpuState
  <2>1. ASSUME NEW x \in CpuState, NEW i \in Interrupts, NEW n \in 0 .. 7
        PROVE  [x EXCEPT !.active = i, !.irqs = n] \in CpuState
    BY DEF CpuState
  <2>2. ASSUME NEW x \in CpuState, NEW a \in BOOLEAN, NEW b \in BOOLEAN, NEW e \in BOOLEAN, NEW f \in BOOLEAN
        PROVE  [x EXCEPT !.I = a, !.latch = b, !.output = e, !.nmi_prev = f] \in CpuState
    BY DEF CpuState
  <2> DEFINE x == [c EXCEPT !.active = v, !.irqs = 0]
  <2>3. x \in CpuState
    BY <1>1, <2>1
  <2>4. d = [x EXCEPT !.I = TRUE, !.latch = l, !.output = o, !.nmi_prev = nmi]
    BY <1>2
  <2> HIDE DEF x
  <2> QED BY <1>1, <2>2, <2>3, <2>4
<1>4. /\ Base(d, c) /\ Polls(d, c)
      /\ d.active = v /\ d.I /\ d.irqs = 0 /\ d.nmi_prev = nmi
      /\ d.latch = l /\ d.output = o
  BY <1>2 DEF CpuState, Base, Polls
<1> QED BY <1>1, <1>3, <1>4 DEF d, v, l

AtPoll(c)  == c.op \in {"branch", "crossing"} /\ c.cycle = 0
AtEntry(c) == c.op = "op_brk" /\ c.cycle = 3
AtExit(c)  == c.op = "op_brk" /\ c.cycle = 5

\* What a cycle of an instruction does: it polls, if it is a branch's first; it
\* enters the handler, if it is the fourth of op_brk.
Worked(d, c, nmi) ==
  /\ d.suppressed <=> c.suppressed \/ (c.op = "branch" /\ c.cycle = 1)
  /\ d.irq_at_poll <=> IF AtPoll(c) THEN c.irqs % 4 = 3 ELSE c.irq_at_poll
  /\ d.nmi_at_poll <=> IF AtPoll(c) THEN c.output ELSE c.nmi_at_poll
  /\ d.irqs = IF AtEntry(c) THEN 0 ELSE c.irqs
  /\ d.nmi_prev = IF AtEntry(c) THEN nmi ELSE c.nmi_prev
  /\ d.latch <=> c.latch /\ (AtEntry(c) => VectorOf(c) # "nmi")
  /\ d.output <=> c.output /\ ~AtEntry(c) /\ ~AtExit(c)
  /\ c.op = "op_brk" => (d.I <=> c.I \/ AtEntry(c))
  /\ d.active = "nmi" <=> CASE AtEntry(c) -> VectorOf(c) = "nmi"
                            [] AtExit(c) \/ (c.op = "rti" /\ c.cycle = 4) -> FALSE
                            [] OTHER -> c.active = "nmi"
Handled(d, c, nmi) == Base(d, c) /\ Worked(d, c, nmi)

LEMMA BreakFields ==
  ASSUME NEW c \in CpuState, NEW nmi \in BOOLEAN, c.op = "op_brk"
  PROVE  LET d == Break(c, nmi) IN d \in CpuState /\ Handled(d, c, nmi)
<1> DEFINE d == Break(c, nmi)
<1>0. /\ ~AtPoll(c)
      /\ c.suppressed \in BOOLEAN /\ c.irq_at_poll \in BOOLEAN /\ c.nmi_at_poll \in BOOLEAN
      /\ c.latch \in BOOLEAN /\ c.output \in BOOLEAN /\ c.I \in BOOLEAN /\ c.active \in Interrupts
  BY DEF AtPoll, CpuState
<1>1. CASE c.cycle = 0
  <2> DEFINE a == IF c.software /\ c.active = "none" THEN "brk" ELSE c.active
  <2>1. a \in Interrupts /\ (a = "nmi" <=> c.active = "nmi")
    BY <1>0 DEF Interrupts
  <2>2. d = [c EXCEPT !.active = a]
    BY <1>1 DEF Break
  <2> HIDE DEF a, d
  <2>3. d \in CpuState
    BY <2>1, <2>2 DEF CpuState
  <2>4. Base(d, c) /\ Polls(d, c) /\ Lines(d, c) /\ d.I = c.I /\ d.active = a
    BY <2>2 DEF CpuState, Base, Polls, Lines
  <2>5. Handled(d, c, nmi)
    BY <1>0, <1>1, <2>1, <2>4 DEF Handled, Worked, Polls, Lines, AtEntry, AtExit
  <2> QED BY <2>3, <2>5 DEF d
<1>2. CASE c.cycle = 3
  <2>1. d = AtVector(c, nmi)
    BY <1>2 DEF Break
  <2>2. /\ d \in CpuState /\ Base(d, c) /\ Polls(d, c)
        /\ d.active = VectorOf(c) /\ d.I /\ d.irqs = 0 /\ d.nmi_prev = nmi
        /\ d.latch <=> c.latch /\ VectorOf(c) # "nmi"
        /\ ~d.output
    BY <2>1, VectorFields
  <2> HIDE DEF d
  <2>3. AtEntry(c) /\ ~AtExit(c)
    BY <1>2 DEF AtEntry, AtExit
  <2>4. Handled(d, c, nmi)
    BY <1>0, <1>2, <2>2, <2>3 DEF Handled, Worked, Polls
  <2> QED BY <2>2, <2>4 DEF d
<1>3. CASE c.cycle = 5
  <2>1. d = [c EXCEPT !.active = "none", !.output = FALSE]
    BY <1>3 DEF Break
  <2> HIDE DEF d
  <2>2. d \in CpuState
    <3>1. [c EXCEPT !.active = "none"] \in CpuState
      BY DEF CpuState, Interrupts
    <3>2. ASSUME NEW x \in CpuState PROVE [x EXCEPT !.output = FALSE] \in CpuState
      BY DEF CpuState
    <3> DEFINE x == [c EXCEPT !.active = "none"]
    <3>3. d = [x EXCEPT !.output = FALSE] /\ x \in CpuState
      BY <2>1, <3>1
    <3> HIDE DEF x
    <3> QED BY <3>2, <3>3
  <2>3. /\ Base(d, c) /\ Polls(d, c) /\ d.I = c.I /\ d.active = "none" /\ d.irqs = c.irqs
        /\ d.nmi_prev = c.nmi_prev /\ d.latch = c.latch /\ ~d.output
    BY <2>1 DEF CpuState, Base, Polls
  <2>4. ~AtEntry(c) /\ AtExit(c)
    BY <1>3 DEF AtEntry, AtExit
  <2>5. Handled(d, c, nmi)
    BY <1>0, <2>3, <2>4 DEF Handled, Worked, Polls
  <2> QED BY <2>2, <2>5 DEF d
<1>4. CASE c.cycle \notin {0, 3, 5}
  <2>1. d = c
    BY <1>4 DEF Break
  <2>2. ~AtEntry(c) /\ ~AtExit(c)
    BY <1>4 DEF AtEntry, AtExit
  <2> HIDE DEF d
  <2>3. Handled(d, c, nmi)
    BY <1>0, <2>1, <2>2 DEF Handled, Worked, Base
  <2> QED BY <2>1, <2>3 DEF d
<1> QED BY <1>1, <1>2, <1>3, <1>4

LEMMA EffectFields ==
  ASSUME NEW c \in CpuState, NEW nmi \in BOOLEAN, NEW pulled \in BOOLEAN
  PROVE  LET d == Effect(c, nmi, pulled) IN d \in CpuState /\ Handled(d, c, nmi)
<1> DEFINE d == Effect(c, nmi, pulled)
<1>0. /\ c.suppressed \in BOOLEAN /\ c.irq_at_poll \in BOOLEAN /\ c.nmi_at_poll \in BOOLEAN
      /\ c.latch \in BOOLEAN /\ c.output \in BOOLEAN /\ c.I \in BOOLEAN
  BY DEF CpuState
<1>1. ASSUME c.op \in {"cli", "sei", "rti"}, NEW i \in BOOLEAN, d = [c EXCEPT !.I = i],
             ~(c.op = "rti" /\ c.cycle = 4)
      PROVE  d \in CpuState /\ Handled(d, c, nmi)
  <2> HIDE DEF d
  <2>1. d \in CpuState
    BY <1>1 DEF CpuState
  <2>2. Base(d, c) /\ Polls(d, c) /\ Lines(d, c) /\ d.active = c.active
    BY <1>1 DEF CpuState, Base, Polls, Lines
  <2>3. ~AtEntry(c) /\ ~AtExit(c) /\ ~AtPoll(c) /\ c.op # "branch" /\ c.op # "op_brk"
    BY <1>1 DEF AtEntry, AtExit, AtPoll
  <2>4. Handled(d, c, nmi)
    BY <1>0, <1>1, <2>2, <2>3 DEF Handled, Worked, Polls, Lines
  <2> QED BY <2>1, <2>4
<1>2. CASE c.op = "cli"
  <2>1. d = [c EXCEPT !.I = FALSE]
    BY <1>2 DEF Effect
  <2> HIDE DEF d
  <2> QED BY <1>1, <1>2, <2>1 DEF d
<1>8. CASE c.op = "sei"
  <2>1. d = [c EXCEPT !.I = TRUE]
    BY <1>8 DEF Effect
  <2> HIDE DEF d
  <2> QED BY <1>1, <1>8, <2>1 DEF d
<1>9. CASE c.op = "rti" /\ c.cycle = 2
  <2>1. d = [c EXCEPT !.I = pulled]
    BY <1>9 DEF Effect
  <2> HIDE DEF d
  <2> QED BY <1>1, <1>9, <2>1 DEF d
<1>3. CASE AtPoll(c)
  <2> DEFINE i == c.irqs % 4 = 3
             n == c.output
  <2>1. i \in BOOLEAN /\ n \in BOOLEAN /\ d = [c EXCEPT !.irq_at_poll = i, !.nmi_at_poll = n]
    BY <1>0, <1>3 DEF Effect, AtPoll
  <2> HIDE DEF i, n, d
  <2>2. d \in CpuState
    BY <2>1 DEF CpuState
  <2>3. /\ Base(d, c) /\ Lines(d, c) /\ d.active = c.active /\ d.suppressed = c.suppressed
        /\ d.irq_at_poll = i /\ d.nmi_at_poll = n
    BY <2>1 DEF CpuState, Base, Lines
  <2>4. ~AtEntry(c) /\ ~AtExit(c) /\ c.op \notin {"op_brk", "rti"} /\ c.cycle = 0
    BY <1>3 DEF AtPoll, AtEntry, AtExit
  <2>5. Handled(d, c, nmi)
    <3>1. (d.irq_at_poll <=> c.irqs % 4 = 3) /\ (d.nmi_at_poll <=> c.output)
      BY <2>3 DEF i, n
    <3> QED BY <1>0, <1>3, <2>3, <2>4, <3>1 DEF Handled, Worked, Lines
  <2> QED BY <2>2, <2>5 DEF d
<1>4. CASE c.op = "branch" /\ c.cycle = 1
  <2>1. d = [c EXCEPT !.suppressed = TRUE]
    BY <1>4 DEF Effect
  <2> HIDE DEF d
  <2>2. d \in CpuState
    BY <2>1 DEF CpuState
  <2>3. /\ Base(d, c) /\ Lines(d, c) /\ d.active = c.active /\ d.suppressed
        /\ d.irq_at_poll = c.irq_at_poll /\ d.nmi_at_poll = c.nmi_at_poll
    BY <2>1 DEF CpuState, Base, Lines
  <2>4. ~AtEntry(c) /\ ~AtExit(c) /\ ~AtPoll(c) /\ c.op \notin {"op_brk", "rti"}
    BY <1>4 DEF AtPoll, AtEntry, AtExit
  <2>5. Handled(d, c, nmi)
    BY <1>0, <1>4, <2>3, <2>4 DEF Handled, Worked, Lines
  <2> QED BY <2>2, <2>5 DEF d
<1>5. CASE c.op = "rti" /\ c.cycle = 4
  <2>1. d = [c EXCEPT !.active = "none"]
    BY <1>5 DEF Effect
  <2> HIDE DEF d
  <2>2. d \in CpuState
    BY <2>1 DEF CpuState, Interrupts
  <2>3. Base(d, c) /\ Polls(d, c) /\ Lines(d, c) /\ d.active = "none"
    BY <2>1 DEF CpuState, Base, Polls, Lines
  <2>4. ~AtEntry(c) /\ ~AtExit(c) /\ ~AtPoll(c) /\ c.op \notin {"op_brk", "branch"}
    BY <1>5 DEF AtPoll, AtEntry, AtExit
  <2>5. Handled(d, c, nmi)
    BY <1>0, <1>5, <2>3, <2>4 DEF Handled, Worked, Polls, Lines
  <2> QED BY <2>2, <2>5 DEF d
<1>6. CASE c.op = "op_brk"
  <2>1. d = Break(c, nmi)
    BY <1>6 DEF Effect
  <2> QED BY <1>6, <2>1, BreakFields
<1>7. CASE /\ c.op \notin {"cli", "sei", "op_brk"} /\ ~AtPoll(c)
           /\ ~(c.op = "branch" /\ c.cycle = 1) /\ ~(c.op = "rti" /\ c.cycle \in {2, 4})
  <2>1. d = c
    BY <1>7 DEF Effect, AtPoll
  <2>2. ~AtEntry(c) /\ ~AtExit(c)
    BY <1>7 DEF AtEntry, AtExit
  <2> HIDE DEF d
  <2>3. Handled(d, c, nmi)
    BY <1>0, <1>7, <2>1, <2>2 DEF Handled, Worked, Base
  <2> QED BY <2>1, <2>3 DEF d
<1> QED BY <1>2, <1>3, <1>4, <1>5, <1>6, <1>7, <1>8, <1>9

\* A cycle's second half: the flag is snapped, and the instruction goes on.
LEMMA Phi1Fields ==
  ASSUME NEW c, CpuOK(c), NEW nmi \in BOOLEAN, NEW op \in Ops, NEW pulled \in BOOLEAN
  PROVE  LET d == Phi1(c, nmi, op, pulled) IN
         /\ CpuOK(d) /\ d.I_sample = c.I
         /\ c.op = "fetch" =>
              /\ d.op = (IF c.hijack THEN "op_brk" ELSE op) /\ d.cycle = 0
              /\ d.active = c.active /\ d.irqs = c.irqs /\ d.nmi_prev = c.nmi_prev
              /\ d.latch = c.latch /\ d.output = c.output /\ ~d.suppressed
         /\ c.op # "fetch" =>
              /\ IF c.cycle + 1 = Length[c.op] THEN d.op = "fetch"
                 ELSE d.op = c.op /\ d.cycle = c.cycle + 1
              /\ Worked(d, c, nmi)
<1> DEFINE s == [c EXCEPT !.I_sample = c.I]
           e == Effect(s, nmi, pulled)
           d == Phi1(c, nmi, op, pulled)
<1>1. c \in CpuState
  BY DEF CpuOK
<1>2. /\ s \in CpuState /\ s.op = c.op /\ s.cycle = c.cycle /\ s.active = c.active
      /\ s.hijack = c.hijack /\ s.irqs = c.irqs /\ s.nmi_prev = c.nmi_prev
      /\ s.latch = c.latch /\ s.output = c.output /\ s.I = c.I /\ s.I_sample = c.I
      /\ s.software = c.software /\ s.suppressed = c.suppressed
      /\ s.irq_at_poll = c.irq_at_poll /\ s.nmi_at_poll = c.nmi_at_poll
  BY <1>1, SampledFlag
<1>3. CASE c.op = "fetch"
  <2>1. d = Fetched(s, op)
    BY <1>3 DEF Phi1
  <2> HIDE DEF s, d
  <2>2. /\ d \in CpuState /\ d.op = (IF s.hijack THEN "op_brk" ELSE op) /\ d.cycle = 0
        /\ d.active = s.active /\ d.irqs = s.irqs /\ d.nmi_prev = s.nmi_prev
        /\ d.latch = s.latch /\ d.output = s.output /\ d.I_sample = s.I_sample
        /\ ~d.suppressed
    BY <1>2, <2>1, FetchedFields
  <2>3. d.op \in Ops /\ d.op # "fetch" /\ 0 < Length[d.op]
    <3>1. d.op \in Ops
      BY <2>2, Lengths
    <3> QED BY <3>1, LengthOf, Lengths
  <2>4. CpuOK(d)
    BY <2>2, <2>3 DEF CpuOK
  <2> QED BY <1>2, <1>3, <2>2, <2>4 DEF d
<1>4. CASE c.op # "fetch"
  <2>1. c.op \in Ops /\ c.cycle \in 0 .. 5 /\ c.cycle < Length[c.op]
    BY <1>1, <1>4 DEF CpuOK, CpuState
  <2>2. e \in CpuState /\ Handled(e, s, nmi)
    BY <1>2, EffectFields
  <2>3. d = IF c.cycle + 1 = Length[c.op] THEN ToFetch(e) ELSE [e EXCEPT !.cycle = e.cycle + 1]
    BY <1>4 DEF Phi1
  <2> HIDE DEF s, e, d
  <2>4. /\ e.op = c.op /\ e.cycle = c.cycle /\ e.I_sample = c.I /\ Worked(e, c, nmi)
    BY <1>2, <2>2 DEF Handled, Base, Worked, AtPoll, AtEntry, AtExit, VectorOf
  <2>5. CASE c.cycle + 1 = Length[c.op]
    <3>1. d = [e EXCEPT !.op = "fetch", !.cycle = 0]
      BY <2>3, <2>5 DEF ToFetch
    <3>2. d \in CpuState
      <4>1. ASSUME NEW x \in CpuState PROVE [x EXCEPT !.op = "fetch"] \in CpuState
        BY DEF CpuState
      <4>2. ASSUME NEW x \in CpuState PROVE [x EXCEPT !.cycle = 0] \in CpuState
        BY DEF CpuState
      <4> DEFINE x == [e EXCEPT !.op = "fetch"]
      <4>3. d = [x EXCEPT !.cycle = 0] /\ x \in CpuState
        BY <2>2, <3>1, <4>1
      <4> HIDE DEF x
      <4> QED BY <4>2, <4>3
    <3>3. /\ d.op = "fetch" /\ d.cycle = 0 /\ d.I_sample = e.I_sample /\ d.I = e.I
          /\ d.active = e.active /\ Polls(d, e) /\ Lines(d, e)
      BY <2>2, <3>1 DEF CpuState, Polls, Lines
    <3>4. Worked(d, c, nmi)
      BY <2>4, <3>3 DEF Worked, Polls, Lines
    <3>5. CpuOK(d)
      BY <3>2, <3>3 DEF CpuOK
    <3> QED BY <1>4, <2>4, <2>5, <3>3, <3>4, <3>5 DEF d
  <2>6. CASE c.cycle + 1 # Length[c.op]
    <3> DEFINE n == c.cycle + 1
    <3>1. d = [e EXCEPT !.cycle = n]
      BY <2>3, <2>4, <2>6
    <3>2. n \in 0 .. 5 /\ n < Length[c.op]
      BY <2>1, <2>6, LengthOf
    <3>n. n = c.cycle + 1
      OBVIOUS
    <3> HIDE DEF n
    <3>3. d \in CpuState
      BY <2>2, <3>1, <3>2 DEF CpuState
    <3>4. /\ d.op = e.op /\ d.cycle = n /\ d.I_sample = e.I_sample /\ d.I = e.I
          /\ d.active = e.active /\ Polls(d, e) /\ Lines(d, e)
      BY <2>2, <3>1 DEF CpuState, Polls, Lines
    <3>5. Worked(d, c, nmi)
      BY <2>4, <3>4 DEF Worked, Polls, Lines
    <3>6. CpuOK(d)
      BY <1>4, <2>4, <3>2, <3>3, <3>4 DEF CpuOK
    <3> QED BY <1>4, <2>4, <2>6, <3>n, <3>4, <3>5, <3>6 DEF d
  <2> QED BY <2>5, <2>6
<1> QED BY <1>3, <1>4

\* A cycle in which the CPU runs, up to the system's part of it, and to its end.
LEMMA TurnFields ==
  ASSUME CpuOK(cpu), NEW before \in BOOLEAN, NEW after \in BOOLEAN, NEW irq \in BOOLEAN
  PROVE  LET b == Sample(Phi2(cpu, before, irq), after)
             int == Detected(cpu, irq)
         IN /\ CpuOK(b) /\ Same(b, cpu) /\ b.nmi_prev = after
            /\ IF Hijacks(cpu, irq)
                 THEN /\ b.active = int /\ b.hijack /\ b.irqs = 0
                      /\ int = "nmi" => (b.latch <=> after /\ ~before) /\ ~b.output
                      /\ int # "nmi" => /\ b.latch <=> cpu.latch \/ (after /\ ~cpu.nmi_prev)
                                        /\ b.output = cpu.latch
                 ELSE /\ b.active = cpu.active /\ b.hijack = cpu.hijack
                      /\ b.irqs = Shifted(cpu, irq)
                      /\ b.latch <=> cpu.latch \/ (after /\ ~cpu.nmi_prev)
                      /\ b.output = cpu.latch
<1> DEFINE a == Phi2(cpu, before, irq)
           b == Sample(a, after)
           int == Detected(cpu, irq)
<1>1. cpu \in CpuState
  BY DEF CpuOK
<1>2. /\ a \in CpuState /\ Same(a, cpu)
      /\ IF Hijacks(cpu, irq)
           THEN /\ a.active = int /\ a.hijack /\ ~a.software /\ a.irqs = 0
                /\ IF int = "nmi" THEN a.nmi_prev = before /\ ~a.latch /\ ~a.output
                   ELSE a.nmi_prev = cpu.nmi_prev /\ a.latch = cpu.latch /\ a.output = cpu.latch
           ELSE /\ a.active = cpu.active /\ a.hijack = cpu.hijack /\ a.software = cpu.software
                /\ a.irqs = Shifted(cpu, irq)
                /\ a.nmi_prev = cpu.nmi_prev /\ a.latch = cpu.latch /\ a.output = cpu.latch
  BY <1>1, Phi2Fields
<1> HIDE DEF a, int
<1>3. /\ b \in CpuState /\ Same(b, a)
      /\ b.active = a.active /\ b.hijack = a.hijack /\ b.software = a.software
      /\ b.irqs = a.irqs /\ b.output = a.output
      /\ b.latch <=> a.latch \/ (after /\ ~a.nmi_prev)
      /\ b.nmi_prev = after
  BY <1>2, SampleFields
<1> HIDE DEF b
<1>4. Same(b, cpu)
  BY <1>2, <1>3 DEF Same
<1>5. CpuOK(b)
  BY <1>3, <1>4 DEF CpuOK, Same
<1> QED BY <1>2, <1>3, <1>4, <1>5 DEF a, b, int

\* The two kinds of a step that is no reset: the CPU runs, with the lines as the
\* system serves them, or a transfer stops it.
Executes(p, q, irq) ==
  /\ ~dma.on
  /\ \E op \in Ops, pulled \in BOOLEAN :
       cpu' = Phi1(Sample(Phi2(cpu, p.nmi, irq), q.nmi), q.nmi, op, pulled)
  /\ \/ dma' = dma /\ (q # p => AtAccess)
     \/ dma' = [dma EXCEPT !.on = TRUE, !.addr = 0] /\ AtAccess /\ q = p
Transfers(p, q) ==
  /\ dma.on /\ q = p
  /\ cpu' = Sample(cpu, q.nmi)
  /\ dma' = [Transferred EXCEPT !.odd = ~@]

MapperOK == mapper \in [enabled : BOOLEAN, active : BOOLEAN]

LEMMA CountedType ==
  ASSUME MapperOK, NEW m \in Counted(mapper)
  PROVE  m \in [enabled : BOOLEAN, active : BOOLEAN] /\ m.active \in BOOLEAN
<1>1. m = mapper \/ m = [mapper EXCEPT !.active = TRUE]
  BY DEF Counted
<1>2. m \in [enabled : BOOLEAN, active : BOOLEAN]
  BY <1>1 DEF MapperOK
<1> QED BY <1>2

LEMMA EachTurn ==
  ASSUME Next, ~Reset, MapperOK, CpuOK(cpu)
  PROVE  /\ MapperOK' /\ cpu_div' = 2
         /\ \E short, reads, irq, q :
              /\ short \in BOOLEAN /\ reads \in BOOLEAN /\ irq \in BOOLEAN
              /\ Accessed(Clocked(short), q, reads)
              /\ Waiting(irq, q)
              /\ Executes(Clocked(short), q, irq) \/ Transfers(Clocked(short), q)
<1>0. Program \subseteq Ops /\ (cpu.op # "fetch" => cpu.op \in Ops)
  BY NesAssumption DEF CpuOK, CpuState
<1>1. ASSUME NEW p, NEW q, NEW m, Run(p, q, m)
      PROVE  /\ ~dma.on /\ ppu' = q /\ cpu_div' = 2 /\ Waiting(m.active, q)
             /\ \E op \in Ops, pulled \in BOOLEAN :
                  cpu' = Phi1(Sample(Phi2(cpu, p.nmi, m.active), q.nmi), q.nmi, op, pulled)
  <2>1. PICK op \in IF cpu.op = "fetch" THEN Program ELSE {cpu.op},
             pulled \in IF cpu.op = "rti" THEN BOOLEAN ELSE {FALSE} :
          cpu' = Phi1(Sample(Phi2(cpu, p.nmi, m.active), q.nmi), q.nmi, op, pulled)
    BY <1>1 DEF Run
  <2>2. op \in Ops /\ pulled \in BOOLEAN
    BY <1>0
  <2> QED BY <1>1, <2>1, <2>2 DEF Run
<1>2. CASE Cycle
  <2>1. PICK short \in BOOLEAN, m \in Counted(mapper) :
          /\ Run(Clocked(short), Clocked(short), m) /\ mapper' = m
          /\ Witness(Clocked(short), Clocked(short), FALSE) /\ dma' = dma
    BY <1>2 DEF Cycle
  <2> DEFINE p == Clocked(short)
  <2> HIDE DEF p
  <2>2. Run(p, p, m) /\ Witness(p, p, FALSE)
    BY <2>1 DEF p
  <2>3. /\ ~dma.on /\ ppu' = p /\ cpu_div' = 2 /\ Waiting(m.active, p)
        /\ \E op \in Ops, pulled \in BOOLEAN :
             cpu' = Phi1(Sample(Phi2(cpu, p.nmi, m.active), p.nmi), p.nmi, op, pulled)
    BY <1>1, <2>2
  <2>4. Accessed(p, p, FALSE) /\ Executes(p, p, m.active)
    BY <2>1, <2>2, <2>3 DEF Accessed, Executes
  <2> QED BY <2>1, <2>3, <2>4, CountedType DEF p, MapperOK
<1>3. CASE ReadStatus
  <2>1. PICK short \in BOOLEAN, m \in Counted(mapper) :
          /\ AtAccess
          /\ Run(Clocked(short), StatusRead(Clocked(short)), m) /\ mapper' = m
          /\ Witness(Clocked(short), StatusRead(Clocked(short)), TRUE) /\ dma' = dma
    BY <1>3 DEF ReadStatus
  <2> DEFINE p == Clocked(short)
             q == StatusRead(p)
  <2>e. q = StatusRead(p)
    OBVIOUS
  <2>2. Run(p, q, m) /\ Witness(p, q, TRUE)
    BY <2>1
  <2> HIDE DEF p, q
  <2>3. /\ ~dma.on /\ ppu' = q /\ cpu_div' = 2 /\ Waiting(m.active, q)
        /\ \E op \in Ops, pulled \in BOOLEAN :
             cpu' = Phi1(Sample(Phi2(cpu, p.nmi, m.active), q.nmi), q.nmi, op, pulled)
    BY <1>1, <2>2
  <2>4. Accessed(p, q, TRUE) /\ Executes(p, q, m.active)
    BY <2>1, <2>e, <2>2, <2>3 DEF Accessed, Executes
  <2> QED BY <2>1, <2>3, <2>4, CountedType DEF p, MapperOK
<1>4. CASE WriteCtrl
  <2>1. PICK short \in BOOLEAN, m \in Counted(mapper), enable \in BOOLEAN :
          /\ AtAccess
          /\ Run(Clocked(short), CtrlWritten(Clocked(short), enable), m) /\ mapper' = m
          /\ Witness(Clocked(short), CtrlWritten(Clocked(short), enable), FALSE) /\ dma' = dma
    BY <1>4 DEF WriteCtrl
  <2> DEFINE p == Clocked(short)
             q == CtrlWritten(p, enable)
  <2>e. q = CtrlWritten(p, enable)
    OBVIOUS
  <2>2. Run(p, q, m) /\ Witness(p, q, FALSE)
    BY <2>1
  <2> HIDE DEF p, q
  <2>3. /\ ~dma.on /\ ppu' = q /\ cpu_div' = 2 /\ Waiting(m.active, q)
        /\ \E op \in Ops, pulled \in BOOLEAN :
             cpu' = Phi1(Sample(Phi2(cpu, p.nmi, m.active), q.nmi), q.nmi, op, pulled)
    BY <1>1, <2>2
  <2>4. Accessed(p, q, FALSE) /\ Executes(p, q, m.active)
    BY <2>1, <2>e, <2>2, <2>3 DEF Accessed, Executes
  <2> QED BY <2>1, <2>3, <2>4, CountedType DEF p, MapperOK
<1>5. CASE StartDma
  <2>1. PICK short \in BOOLEAN, m \in Counted(mapper) :
          /\ AtAccess
          /\ Run(Clocked(short), Clocked(short), m) /\ mapper' = m
          /\ Witness(Clocked(short), Clocked(short), FALSE)
          /\ dma' = [dma EXCEPT !.on = TRUE, !.addr = 0]
    BY <1>5 DEF StartDma
  <2> DEFINE p == Clocked(short)
  <2> HIDE DEF p
  <2>2. Run(p, p, m) /\ Witness(p, p, FALSE)
    BY <2>1 DEF p
  <2>3. /\ ~dma.on /\ ppu' = p /\ cpu_div' = 2 /\ Waiting(m.active, p)
        /\ \E op \in Ops, pulled \in BOOLEAN :
             cpu' = Phi1(Sample(Phi2(cpu, p.nmi, m.active), p.nmi), p.nmi, op, pulled)
    BY <1>1, <2>2
  <2>4. Accessed(p, p, FALSE) /\ Executes(p, p, m.active)
    BY <2>1, <2>2, <2>3 DEF Accessed, Executes
  <2> QED BY <2>1, <2>3, <2>4, CountedType DEF p, MapperOK
<1>6. CASE WriteMapper
  <2>1. PICK short \in BOOLEAN, m \in Counted(mapper), enable \in BOOLEAN :
          /\ AtAccess
          /\ Run(Clocked(short), Clocked(short), m)
          /\ mapper' = [enabled |-> enable, active |-> enable /\ m.active]
          /\ Witness(Clocked(short), Clocked(short), FALSE) /\ dma' = dma
    BY <1>6 DEF WriteMapper
  <2> DEFINE p == Clocked(short)
  <2> HIDE DEF p
  <2>2. Run(p, p, m) /\ Witness(p, p, FALSE)
    BY <2>1 DEF p
  <2>3. /\ ~dma.on /\ ppu' = p /\ cpu_div' = 2 /\ Waiting(m.active, p)
        /\ \E op \in Ops, pulled \in BOOLEAN :
             cpu' = Phi1(Sample(Phi2(cpu, p.nmi, m.active), p.nmi), p.nmi, op, pulled)
    BY <1>1, <2>2
  <2>4. Accessed(p, p, FALSE) /\ Executes(p, p, m.active)
    BY <2>1, <2>2, <2>3 DEF Accessed, Executes
  <2>5. m.active \in BOOLEAN /\ (enable /\ m.active) \in BOOLEAN
    BY CountedType
  <2>6. MapperOK'
    BY <2>1, <2>5 DEF MapperOK
  <2> QED BY <2>1, <2>3, <2>4, <2>5, <2>6 DEF p
<1>7. CASE DmaCycle
  <2>1. PICK short \in BOOLEAN, m \in Counted(mapper) :
          /\ ppu' = Clocked(short) /\ cpu' = Sample(cpu, Clocked(short).nmi) /\ mapper' = m
          /\ Witness(Clocked(short), Clocked(short), FALSE)
          /\ Waiting(m.active, Clocked(short))
    BY <1>7 DEF DmaCycle
  <2>2. dma.on /\ dma' = [Transferred EXCEPT !.odd = ~@] /\ cpu_div' = 2
    BY <1>7 DEF DmaCycle
  <2> DEFINE p == Clocked(short)
  <2> HIDE DEF p
  <2>3. Accessed(p, p, FALSE) /\ Transfers(p, p) /\ Waiting(m.active, p)
    BY <2>1, <2>2 DEF Accessed, Transfers, p
  <2> QED BY <2>1, <2>2, <2>3, CountedType DEF p, MapperOK
<1> QED BY <1>2, <1>3, <1>4, <1>5, <1>6, <1>7 DEF Next

-----------------------------------------------------------------------------
(* The state stays in range *)

DmaState == [on : BOOLEAN, dummy : BOOLEAN, odd : BOOLEAN, addr : 0 .. DmaBytes - 1]

\* A transfer stops the CPU at a fetch, and is ready to start when it is over.
DmaInv ==
  /\ dma \in DmaState
  /\ dma.on => cpu.op = "fetch"
  /\ ~dma.on => dma.dummy /\ ~dma.odd
  /\ dma.on /\ dma.dummy => dma.addr = 0

GhostOK ==
  /\ cpu_div \in {0, 2}
  /\ told \in {"none", "due", "read", "raced"}
  /\ {armed, hushed, heard, owed} \subseteq BOOLEAN
  /\ nmi_wait \in 0 .. MaxNmiWait + 1
  /\ irq_wait \in 0 .. MaxIrqWait + 1

MachineInv == PpuInv /\ MapperOK /\ CpuOK(cpu) /\ DmaInv /\ GhostOK

LEMMA Limits == DmaBytes \in Nat \ {0} /\ MaxNmiWait \in Nat \ {0} /\ MaxIrqWait \in Nat \ {0}
BY NesAssumption

\* The turn of the CPU, or of the transfer that stops it.
LEMMA CpuTurn ==
  ASSUME CpuOK(cpu), NEW p \in PpuState, NEW q \in PpuState, NEW irq \in BOOLEAN,
         Executes(p, q, irq)
  PROVE  /\ CpuOK(cpu')
         /\ AtAccess => cpu'.op = "fetch"
<1>1. PICK op \in Ops, pulled \in BOOLEAN :
        cpu' = Phi1(Sample(Phi2(cpu, p.nmi, irq), q.nmi), q.nmi, op, pulled)
  BY DEF Executes
<1> DEFINE b == Sample(Phi2(cpu, p.nmi, irq), q.nmi)
<1>2. p.nmi \in BOOLEAN /\ q.nmi \in BOOLEAN
  BY DEF PpuState
<1>3. CpuOK(b) /\ Same(b, cpu) /\ cpu' = Phi1(b, q.nmi, op, pulled)
  BY <1>1, <1>2, TurnFields
<1> HIDE DEF b
<1> DEFINE d == Phi1(b, q.nmi, op, pulled)
<1>4. /\ CpuOK(d)
      /\ b.op # "fetch" =>
           IF b.cycle + 1 = Length[b.op] THEN d.op = "fetch"
           ELSE d.op = b.op /\ d.cycle = b.cycle + 1
  BY <1>2, <1>3, Phi1Fields
<1>5. cpu' = d
  BY <1>3
<1> HIDE DEF d
<1> QED BY <1>3, <1>4, <1>5, Lengths DEF AtAccess, Same

LEMMA TransferTurn ==
  ASSUME DmaInv, dma' = [Transferred EXCEPT !.odd = ~@]
  PROVE  /\ dma' \in DmaState
         /\ dma'.odd = ~dma.odd
         /\ dma.dummy => dma'.on = dma.on /\ dma'.dummy = ~dma.odd /\ dma'.addr = dma.addr
         /\ ~dma.dummy /\ ~dma.odd => dma'.on = dma.on /\ ~dma'.dummy /\ dma'.addr = dma.addr
         /\ ~dma.dummy /\ dma.odd =>
              IF dma.addr + 1 = DmaBytes THEN ~dma'.on /\ dma'.dummy /\ dma'.addr = 0
              ELSE dma'.on /\ ~dma'.dummy /\ dma'.addr = dma.addr + 1
<1> DEFINE t == Transferred
           D == DmaState
           n == (dma.addr + 1) % DmaBytes
           next == n # 0
           last == n = 0
<1>0. dma \in D /\ dma.addr \in 0 .. DmaBytes - 1 /\ dma.odd \in BOOLEAN /\ dma.dummy \in BOOLEAN
      /\ dma.on \in BOOLEAN
  BY DEF DmaInv, DmaState
<1>1. /\ n \in 0 .. DmaBytes - 1
      /\ IF dma.addr + 1 = DmaBytes THEN n = 0 ELSE n = dma.addr + 1
      /\ next \in BOOLEAN /\ last \in BOOLEAN
  <2>1. CASE dma.addr + 1 = DmaBytes
    BY <2>1, Limits
  <2>2. CASE dma.addr + 1 # DmaBytes
    BY <1>0, <2>2, Limits
  <2> QED BY <2>1, <2>2
<1>2. t = CASE dma.dummy -> [dma EXCEPT !.dummy = ~dma.odd]
            [] ~dma.dummy /\ ~dma.odd -> dma
            [] ~dma.dummy /\ dma.odd ->
                 [dma EXCEPT !.addr = n, !.on = next, !.dummy = last]
  BY DEF Transferred
<1>n. /\ ~dma.on => dma.dummy /\ ~dma.odd
      /\ next <=> n # 0
      /\ last <=> n = 0
  BY DEF DmaInv, DmaState
<1> HIDE DEF t, n, next, last
<1>3. /\ t \in D /\ t.odd = dma.odd
      /\ dma.dummy => t.on = dma.on /\ t.dummy = ~dma.odd /\ t.addr = dma.addr
      /\ ~dma.dummy /\ ~dma.odd => t.on = dma.on /\ ~t.dummy /\ t.addr = dma.addr
      /\ ~dma.dummy /\ dma.odd => t.on = next /\ t.dummy = last /\ t.addr = n
  <2>1. CASE dma.dummy
    <3> DEFINE o == ~dma.odd
    <3>1. t = [dma EXCEPT !.dummy = o] /\ o \in BOOLEAN
      BY <1>2, <2>1
    <3> HIDE DEF o
    <3>2. t \in D /\ t.odd = dma.odd /\ t.on = dma.on /\ t.dummy = o /\ t.addr = dma.addr
      BY <1>0, <3>1 DEF DmaState
    <3> HIDE DEF D
    <3> QED BY <2>1, <3>2 DEF o
  <2>2. CASE ~dma.dummy /\ ~dma.odd
    BY <1>0, <1>2, <2>2
  <2>3. CASE ~dma.dummy /\ dma.odd
    <3>1. t = [dma EXCEPT !.addr = n, !.on = next, !.dummy = last]
      BY <1>2, <2>3
    <3>2. t \in D /\ t.odd = dma.odd /\ t.on = next /\ t.dummy = last /\ t.addr = n
      BY <1>0, <1>1, <3>1 DEF DmaState
    <3> HIDE DEF D
    <3> QED BY <2>3, <3>2
  <2> QED BY <1>0, <2>1, <2>2, <2>3
<1>4. dma' = [t EXCEPT !.odd = ~t.odd]
  BY DEF t
<1> DEFINE o == ~t.odd
<1>5. o \in BOOLEAN /\ dma' = [t EXCEPT !.odd = o] /\ (o <=> ~dma.odd)
  BY <1>3, <1>4
<1> HIDE DEF o
<1>6. /\ dma' \in D /\ dma'.on = t.on /\ dma'.dummy = t.dummy /\ dma'.addr = t.addr
      /\ dma'.odd = o
  BY <1>3, <1>5 DEF DmaState
<1>7. dma'.odd = ~dma.odd
  BY <1>0, <1>5, <1>6
<1>8. dma' \in D
  BY <1>6
<1> HIDE DEF D
<1>9. ~dma.dummy /\ dma.odd =>
        IF dma.addr + 1 = DmaBytes THEN ~dma'.on /\ dma'.dummy /\ dma'.addr = 0
        ELSE dma'.on /\ ~dma'.dummy /\ dma'.addr = dma.addr + 1
  <2>1. dma.addr + 1 # 0
    BY <1>0
  <2> QED BY <1>1, <1>3, <1>6, <1>n, <2>1
<1> QED BY <1>3, <1>6, <1>7, <1>8, <1>9 DEF D

LEMMA DmaNext ==
  ASSUME CpuOK(cpu), DmaInv, NEW p \in PpuState, NEW q \in PpuState, NEW irq \in BOOLEAN,
         Executes(p, q, irq) \/ Transfers(p, q)
  PROVE  DmaInv'
<1>1. CASE Executes(p, q, irq) /\ dma' = dma
  BY <1>1, Limits DEF DmaInv, DmaState, Executes
<1>2. CASE Executes(p, q, irq) /\ dma' # dma
  <2>1. dma' = [dma EXCEPT !.on = TRUE, !.addr = 0] /\ AtAccess
    BY <1>2 DEF Executes
  <2>2. cpu'.op = "fetch"
    BY <1>2, <2>1, CpuTurn
  <2>3. 0 \in 0 .. DmaBytes - 1
    BY Limits
  <2>4. dma' \in DmaState
        /\ dma'.on /\ dma'.addr = 0
    BY <2>1, <2>3 DEF DmaInv, DmaState
  <2> QED BY <2>2, <2>4 DEF DmaInv, DmaState
<1>3. CASE Transfers(p, q)
  <2>1. cpu'.op = cpu.op
    <3>1. cpu \in CpuState /\ q.nmi \in BOOLEAN /\ cpu' = Sample(cpu, q.nmi)
      BY <1>3 DEF Transfers, CpuOK, PpuState
    <3>2. Same(cpu', cpu)
      BY <3>1, SampleFields
    <3> QED BY <3>2 DEF Same
  <2>2. dma.on /\ cpu.op = "fetch"
    BY <1>3 DEF Transfers, DmaInv, DmaState
  <2>3. /\ dma' \in DmaState
        /\ dma'.odd = ~dma.odd
        /\ dma.dummy => dma'.on = dma.on /\ dma'.dummy = ~dma.odd /\ dma'.addr = dma.addr
        /\ ~dma.dummy /\ ~dma.odd => dma'.on = dma.on /\ ~dma'.dummy /\ dma'.addr = dma.addr
        /\ ~dma.dummy /\ dma.odd =>
             IF dma.addr + 1 = DmaBytes THEN ~dma'.on /\ dma'.dummy /\ dma'.addr = 0
             ELSE dma'.on /\ ~dma'.dummy /\ dma'.addr = dma.addr + 1
    BY <1>3, TransferTurn DEF Transfers
  <2>4. dma.odd \in BOOLEAN /\ dma.dummy \in BOOLEAN /\ (dma.dummy => dma.addr = 0)
    BY <2>2 DEF DmaInv, DmaState
  <2>5. /\ ~dma'.on => dma'.dummy /\ ~dma'.odd
        /\ dma'.on /\ dma'.dummy => dma'.addr = 0
    BY <2>2, <2>3, <2>4
  <2> QED BY <2>1, <2>2, <2>3, <2>5 DEF DmaInv, DmaState
<1> QED BY <1>1, <1>2, <1>3

LEMMA CpuResetOK ==
  ASSUME NEW I \in BOOLEAN
  PROVE  LET c == CpuReset(I) IN
         /\ CpuOK(c) /\ c.op = "fetch" /\ ~c.suppressed
         /\ c.active = "reset" /\ ~c.nmi_prev /\ ~c.latch /\ ~c.output
BY DEF CpuReset, CpuOK, CpuState, Interrupts

LEMMA MachineInit == Init => MachineInv
<1> SUFFICES ASSUME Init PROVE MachineInv
  OBVIOUS
<1>1. PpuInv
  BY PpuInit
<1>2. MapperOK
  BY DEF Init, MapperReset, MapperOK
<1>3. CpuOK(cpu) /\ cpu.op = "fetch"
  BY CpuResetOK DEF Init
<1>4. DmaInv
  BY <1>3, Limits DEF Init, DmaReset, DmaInv, DmaState
<1>5. GhostOK
  <2>1. {armed, hushed, heard, owed} \subseteq BOOLEAN
    BY DEF Init
  <2>2. cpu_div = 0 /\ told = "none" /\ nmi_wait = 0 /\ irq_wait = 0
    BY DEF Init
  <2>3. nmi_wait \in 0 .. MaxNmiWait + 1 /\ irq_wait \in 0 .. MaxIrqWait + 1
    BY <2>2, Limits
  <2> QED BY <2>1, <2>2, <2>3 DEF GhostOK
<1> QED BY <1>1, <1>2, <1>3, <1>4, <1>5 DEF MachineInv

\* What a step that is no reset does to the ghosts.
LEMMA GhostTurn ==
  ASSUME GhostOK, cpu_div' = 2, NEW p, NEW q, NEW reads, NEW irq, Accessed(p, q, reads), Waiting(irq, q)
  PROVE  GhostOK'
<1>1. told' \in {"none", "due", "read", "raced"}
  <2>1. told \in {"none", "due", "read", "raced"}
    BY DEF GhostOK
  <2>2. Before(p) \in {"none", "due", "read", "raced"}
    BY <2>1 DEF Before
  <2>3. Answered(p) \in {"none", "due", "read", "raced"}
    BY <2>2 DEF Answered
  <2> QED BY <2>2, <2>3 DEF Accessed, Witness
<1>2. {armed', hushed', heard'} \subseteq BOOLEAN
  BY DEF Accessed, Witness
<1>3. owed' \in BOOLEAN
  BY DEF Waiting
<1>4. nmi_wait' \in 0 .. MaxNmiWait + 1
  <2>1. nmi_wait' \in {0, Begun(nmi_wait, MaxNmiWait)}
    BY DEF Waiting
  <2>2. Begun(nmi_wait, MaxNmiWait) \in 0 .. MaxNmiWait + 1
    BY Limits DEF Begun, GhostOK
  <2> QED BY <2>1, <2>2, Limits
<1>5. irq_wait' \in 0 .. MaxIrqWait + 1
  <2>1. irq_wait' \in {0, Begun(irq_wait, MaxIrqWait)}
    BY DEF Waiting
  <2>2. Begun(irq_wait, MaxIrqWait) \in 0 .. MaxIrqWait + 1
    BY Limits DEF Begun, GhostOK
  <2> QED BY <2>1, <2>2, Limits
<1> QED BY <1>1, <1>2, <1>3, <1>4, <1>5 DEF GhostOK

\* The shape of a step, as the proofs below meet it.
Turn(short, p, q, reads, irq) ==
  /\ short \in BOOLEAN /\ reads \in BOOLEAN /\ irq \in BOOLEAN
  /\ p = Clocked(short) /\ p \in PpuState /\ q \in PpuState /\ ppu' = q
  /\ Accessed(p, q, reads) /\ Waiting(irq, q)
  /\ Executes(p, q, irq) \/ Transfers(p, q)

LEMMA SomeTurn ==
  ASSUME MachineInv, Next, ~Reset
  PROVE  /\ MapperOK' /\ cpu_div' = 2
         /\ \E short, reads, irq, p, q : Turn(short, p, q, reads, irq)
<1>0. MapperOK /\ CpuOK(cpu) /\ PpuInv
  BY DEF MachineInv
<1>1. PICK short, reads, irq, q :
        /\ short \in BOOLEAN /\ reads \in BOOLEAN /\ irq \in BOOLEAN
        /\ Accessed(Clocked(short), q, reads)
        /\ Waiting(irq, q)
        /\ Executes(Clocked(short), q, irq) \/ Transfers(Clocked(short), q)
  BY <1>0, EachTurn
<1>2. Clocked(short) \in PpuState
  BY <1>0, <1>1, BeforeGood DEF PpuInv, VInv
<1>3. q \in PpuState /\ ppu' = q
  <2>1. ppu' \in PpuState
    BY <1>0, <1>1, VNext DEF PpuInv
  <2> QED BY <1>1, <2>1 DEF Accessed
<1> DEFINE p == Clocked(short)
<1>4. Turn(short, p, q, reads, irq)
  BY <1>1, <1>2, <1>3 DEF Turn
<1>5. MapperOK' /\ cpu_div' = 2
  BY <1>0, EachTurn
<1> HIDE DEF p
<1> QED BY <1>4, <1>5

LEMMA MachineNext == MachineInv /\ [Next]_vars => MachineInv'
<1> SUFFICES ASSUME MachineInv, [Next]_vars PROVE MachineInv'
  OBVIOUS
<1>0. PpuInv'
  BY PpuNext DEF MachineInv
<1>1. CASE Reset
  <2>1. MapperOK'
    BY <1>1 DEF Reset, MapperReset, MapperOK
  <2>2. CpuOK(cpu') /\ cpu'.op = "fetch"
    <3>1. cpu.I \in BOOLEAN
      BY DEF MachineInv, CpuOK, CpuState
    <3> QED BY <1>1, <3>1, CpuResetOK DEF Reset
  <2>3. DmaInv'
    BY <1>1, <2>2, Limits DEF Reset, DmaReset, DmaInv, DmaState
  <2>4. GhostOK'
    <3>1. {armed', hushed', heard', owed'} \subseteq BOOLEAN
      BY <1>1 DEF Reset
    <3>2. cpu_div' = 0 /\ told' = "none" /\ nmi_wait' = 0 /\ irq_wait' = 0
      BY <1>1 DEF Reset
    <3>3. nmi_wait' \in 0 .. MaxNmiWait + 1 /\ irq_wait' \in 0 .. MaxIrqWait + 1
      BY <3>2, Limits
    <3> QED BY <3>1, <3>2, <3>3 DEF GhostOK
  <2> QED BY <1>0, <2>1, <2>2, <2>3, <2>4 DEF MachineInv
<1>2. CASE Next /\ ~Reset
  <2>1. MapperOK' /\ cpu_div' = 2
    BY <1>2, SomeTurn
  <2>2. PICK short, reads, irq, p, q : Turn(short, p, q, reads, irq)
    BY <1>2, SomeTurn
  <2>3. GhostOK'
    BY <2>1, <2>2, GhostTurn DEF MachineInv, Turn
  <2>4. DmaInv'
    BY <2>2, DmaNext DEF MachineInv, Turn
  <2>5. CpuOK(cpu')
    <3>1. CASE Executes(p, q, irq)
      BY <2>2, <3>1, CpuTurn DEF MachineInv, Turn
    <3>2. CASE Transfers(p, q)
      <4>1. q.nmi \in BOOLEAN /\ CpuOK(cpu) /\ cpu' = Sample(cpu, q.nmi)
        BY <2>2, <3>2 DEF MachineInv, Turn, Transfers, PpuState
      <4>2. cpu' \in CpuState /\ Same(cpu', cpu)
        BY <4>1, SampleFields DEF CpuOK
      <4> QED BY <4>1, <4>2 DEF CpuOK, Same
    <3> QED BY <2>2, <3>1, <3>2 DEF Turn
  <2> QED BY <1>0, <2>1, <2>3, <2>4, <2>5 DEF MachineInv
<1>3. CASE UNCHANGED vars
  BY <1>0, <1>3 DEF vars, MachineInv, MapperOK, DmaInv, DmaState, GhostOK
<1> QED BY <1>1, <1>2, <1>3

\* The state of the NES stays in range, whatever the program does: the DMA's
\* address and the dot wrap, the pin's three samples are three bits, and no
\* instruction runs past its last cycle.
THEOREM TypeCorrect == Spec => []TypeOK
<1>1. MachineInv => TypeOK
  <2> SUFFICES ASSUME MachineInv PROVE TypeOK
    OBVIOUS
  <2>1. cpu \in CpuState /\ (cpu.cycle = 0 \/ cpu.cycle < Length[cpu.op])
    BY DEF MachineInv, CpuOK
  <2> QED BY <2>1 DEF MachineInv, PpuInv, MapperOK, DmaInv, DmaState, GhostOK, TypeOK
<1> QED BY <1>1, MachineInit, MachineNext, PTL DEF Spec

-----------------------------------------------------------------------------
(* An IRQ is taken after one instruction *)

\* With the IRQ low since an instruction began, its samples fill the register
\* cycle by cycle: at the next fetch the IRQ is seen, or is masked.
IrqClose(c) ==
  CASE c.op = "fetch"  -> c.I_sample \/ (c.irqs % 4 = 3 /\ (c.suppressed => c.irq_at_poll))
    [] c.op = "op_brk" -> (c.cycle > 3 => c.I) /\ (c.cycle > 4 => c.I_sample)
    [] OTHER -> /\ IF c.cycle = 0 THEN c.irqs % 2 = 1 ELSE c.irqs % 4 = 3
                /\ c.op = "branch" /\ c.cycle = 1 => c.irq_at_poll

IrqInv ==
  /\ irq_wait \in {0, 1}
  /\ irq_wait = 1 => IrqClose(cpu)
  /\ cpu.op # "fetch" => ~cpu.suppressed

\* At a fetch: the IRQ that has waited is taken.
LEMMA IrqTaken ==
  ASSUME CpuOK(cpu), cpu.op = "fetch", ~cpu.I_sample, IrqClose(cpu)
  PROVE  Hijacks(cpu, TRUE)
<1>1. cpu.irqs % 4 = 3 /\ (cpu.suppressed => cpu.irq_at_poll)
  BY DEF IrqClose
<1>2. Shifted(cpu, TRUE) = 7
  <2>1. TRUE \in BOOLEAN /\ cpu \in CpuState
    BY DEF CpuOK
  <2> QED BY <1>1, <2>1, ShiftedType
<1>3. Detected(cpu, TRUE) \in {"nmi", "irq"}
  BY <1>2 DEF Detected
<1> QED BY <1>1, <1>3 DEF Hijacks, CanHijack, ShouldService

LEMMA HijackActive ==
  ASSUME NEW irq, Hijacks(cpu, irq)
  PROVE  cpu.op = "fetch" /\ Detected(cpu, irq) \in {"nmi", "irq"}
BY DEF Hijacks, CanHijack, ShouldService

\* The CPU's turn in fields: b is the CPU as the system leaves it, between its two
\* phases.
Served(b, p, q, irq) ==
  /\ CpuOK(b) /\ Same(b, cpu) /\ b.nmi_prev = q.nmi
  /\ IF Hijacks(cpu, irq)
       THEN /\ b.active = Detected(cpu, irq) /\ b.irqs = 0
            /\ Detected(cpu, irq) = "nmi" => (b.latch <=> q.nmi /\ ~p.nmi) /\ ~b.output
            /\ Detected(cpu, irq) # "nmi" => /\ b.latch <=> cpu.latch \/ (q.nmi /\ ~cpu.nmi_prev)
                                             /\ b.output = cpu.latch
       ELSE /\ b.active = cpu.active /\ b.irqs = Shifted(cpu, irq)
            /\ b.latch <=> cpu.latch \/ (q.nmi /\ ~cpu.nmi_prev)
            /\ b.output = cpu.latch
Finished(b, q, irq) ==
  /\ CpuOK(cpu') /\ cpu'.I_sample = cpu.I
  /\ cpu.op = "fetch" =>
       /\ cpu'.op # "fetch" /\ cpu'.cycle = 0 /\ (Hijacks(cpu, irq) => cpu'.op = "op_brk")
       /\ cpu'.active = b.active /\ cpu'.irqs = b.irqs /\ cpu'.nmi_prev = b.nmi_prev
       /\ cpu'.latch = b.latch /\ cpu'.output = b.output /\ ~cpu'.suppressed
  /\ cpu.op # "fetch" =>
       /\ IF cpu.cycle + 1 = Length[cpu.op] THEN cpu'.op = "fetch"
          ELSE cpu'.op = cpu.op /\ cpu'.cycle = cpu.cycle + 1
       /\ Worked(cpu', b, q.nmi)

LEMMA TurnOf ==
  ASSUME CpuOK(cpu), NEW p \in PpuState, NEW q \in PpuState, NEW irq \in BOOLEAN,
         Executes(p, q, irq)
  PROVE  \E b : Served(b, p, q, irq) /\ Finished(b, q, irq)
<1>1. PICK op \in Ops, pulled \in BOOLEAN :
        cpu' = Phi1(Sample(Phi2(cpu, p.nmi, irq), q.nmi), q.nmi, op, pulled)
  BY DEF Executes
<1> DEFINE b == Sample(Phi2(cpu, p.nmi, irq), q.nmi)
           d == Phi1(b, q.nmi, op, pulled)
<1>2. p.nmi \in BOOLEAN /\ q.nmi \in BOOLEAN
  BY DEF PpuState
<1>3. /\ CpuOK(b) /\ Same(b, cpu) /\ b.nmi_prev = q.nmi
      /\ IF Hijacks(cpu, irq)
           THEN /\ b.active = Detected(cpu, irq) /\ b.hijack /\ b.irqs = 0
                /\ Detected(cpu, irq) = "nmi" => (b.latch <=> q.nmi /\ ~p.nmi) /\ ~b.output
                /\ Detected(cpu, irq) # "nmi" => /\ b.latch <=> cpu.latch \/ (q.nmi /\ ~cpu.nmi_prev)
                                                 /\ b.output = cpu.latch
           ELSE /\ b.active = cpu.active /\ b.hijack = cpu.hijack
                /\ b.irqs = Shifted(cpu, irq)
                /\ b.latch <=> cpu.latch \/ (q.nmi /\ ~cpu.nmi_prev)
                /\ b.output = cpu.latch
  BY <1>2, TurnFields
<1>4. cpu' = d
  BY <1>1
<1> HIDE DEF b
<1>5. /\ CpuOK(d) /\ d.I_sample = b.I
      /\ b.op = "fetch" =>
           /\ d.op = (IF b.hijack THEN "op_brk" ELSE op) /\ d.cycle = 0
           /\ d.active = b.active /\ d.irqs = b.irqs /\ d.nmi_prev = b.nmi_prev
           /\ d.latch = b.latch /\ d.output = b.output /\ ~d.suppressed
      /\ b.op # "fetch" =>
           /\ IF b.cycle + 1 = Length[b.op] THEN d.op = "fetch"
              ELSE d.op = b.op /\ d.cycle = b.cycle + 1
           /\ Worked(d, b, q.nmi)
  BY <1>2, <1>3, Phi1Fields
<1> HIDE DEF d
<1>6. op # "fetch"
  BY Lengths
<1> DEFINE h == Hijacks(cpu, irq)
           int == Detected(cpu, irq)
           s == Shifted(cpu, irq)
<1>7. /\ CpuOK(b) /\ Same(b, cpu) /\ b.nmi_prev = q.nmi
      /\ IF h THEN /\ b.active = int /\ b.irqs = 0
                   /\ int = "nmi" => (b.latch <=> q.nmi /\ ~p.nmi) /\ ~b.output
                   /\ int # "nmi" => /\ b.latch <=> cpu.latch \/ (q.nmi /\ ~cpu.nmi_prev)
                                     /\ b.output = cpu.latch
         ELSE /\ b.active = cpu.active /\ b.irqs = s
              /\ b.latch <=> cpu.latch \/ (q.nmi /\ ~cpu.nmi_prev)
              /\ b.output = cpu.latch
      /\ h => b.hijack
  BY <1>3
<1> HIDE DEF h, int, s
<1>8. b.op = cpu.op /\ b.cycle = cpu.cycle /\ b.I = cpu.I
  BY <1>7 DEF Same
<1>9. /\ CpuOK(cpu') /\ cpu'.I_sample = cpu.I
      /\ cpu.op = "fetch" =>
           /\ cpu'.op # "fetch" /\ cpu'.cycle = 0 /\ (h => cpu'.op = "op_brk")
           /\ cpu'.active = b.active /\ cpu'.irqs = b.irqs /\ cpu'.nmi_prev = b.nmi_prev
           /\ cpu'.latch = b.latch /\ cpu'.output = b.output /\ ~cpu'.suppressed
      /\ cpu.op # "fetch" =>
           /\ IF cpu.cycle + 1 = Length[cpu.op] THEN cpu'.op = "fetch"
              ELSE cpu'.op = cpu.op /\ cpu'.cycle = cpu.cycle + 1
           /\ Worked(cpu', b, q.nmi)
  BY <1>4, <1>5, <1>6, <1>7, <1>8
<1>a. Served(b, p, q, irq)
  BY <1>7 DEF Served, h, int, s
<1>b. Finished(b, q, irq)
  BY <1>9 DEF Finished, h
<1> QED BY <1>a, <1>b

LEMMA IrqTurn ==
  ASSUME CpuOK(cpu), IrqInv, NEW p \in PpuState, NEW q \in PpuState, NEW irq \in BOOLEAN,
         Executes(p, q, irq), Waiting(irq, q)
  PROVE  IrqInv'
<1>1. PICK b : Served(b, p, q, irq) /\ Finished(b, q, irq)
  BY TurnOf
<1> DEFINE d == cpu'
           hijacked == Begins /\ d.active # "none"
<1>2. irq_wait' = IF irq /\ ~hijacked /\ ~(cpu.op = "fetch" /\ cpu.I_sample)
                    THEN Begun(irq_wait, MaxIrqWait) ELSE 0
  BY DEF Waiting
<1>3. irq_wait \in {0, 1} /\ MaxIrqWait >= 1
  BY Limits DEF IrqInv
<1>4. CASE cpu.op = "fetch"
  <2>1. d.op # "fetch" /\ d.cycle = 0 /\ d.active = b.active /\ d.irqs = b.irqs /\ ~d.suppressed
    BY <1>1, <1>4 DEF Finished
  <2>2. Begins
    BY <1>4, <2>1 DEF Begins
  <2>3. CASE irq /\ ~cpu.I_sample /\ d.active = "none"
    <3>1. ~Hijacks(cpu, irq)
      <4> SUFFICES ASSUME Hijacks(cpu, irq) PROVE FALSE
        OBVIOUS
      <4>1. b.active = Detected(cpu, irq)
        BY <1>1 DEF Served
      <4> QED BY <2>1, <2>3, <4>1, HijackActive
    <3>2. irq_wait = 0
      <4> SUFFICES ASSUME irq_wait = 1 PROVE FALSE
        BY <1>3
      <4>1. IrqClose(cpu)
        BY DEF IrqInv
      <4>2. irq = TRUE
        BY <2>3
      <4> QED BY <1>4, <2>3, <3>1, <4>1, <4>2, IrqTaken
    <3>3. irq_wait' = 1
      <4>1. irq_wait' = Begun(irq_wait, MaxIrqWait)
        BY <1>2, <1>4, <2>3
      <4>2. irq_wait <= MaxIrqWait
        BY <3>2, Limits
      <4> QED BY <2>2, <3>2, <4>1, <4>2 DEF Begun
    <3>4. d.irqs % 2 = 1
      <4>1. d.irqs = Shifted(cpu, irq)
        BY <1>1, <2>1, <3>1 DEF Served
      <4> QED BY <2>3, <4>1, ShiftedType DEF CpuOK
    <3>5. IrqClose(d)
      BY <2>1, <3>4 DEF IrqClose
    <3> HIDE DEF d
    <3> QED BY <2>1, <3>3, <3>5 DEF IrqInv, d
  <2>4. CASE ~(irq /\ ~cpu.I_sample /\ d.active = "none")
    <3>1. irq_wait' = 0
      BY <1>2, <1>4, <2>2, <2>4
    <3> QED BY <2>1, <3>1 DEF IrqInv
  <2> QED BY <2>3, <2>4
<1>5. CASE cpu.op # "fetch"
  <2>1. ~Begins
    BY <1>5 DEF Begins
  <2>2. irq_wait' \in {0, irq_wait} /\ (irq_wait' = 1 => irq)
    BY <1>2, <2>1 DEF Begun
  <2>3. ~Hijacks(cpu, irq) /\ cpu \in CpuState
    BY <1>5, HijackActive DEF CpuOK
  <2>4. /\ b.op = cpu.op /\ b.cycle = cpu.cycle /\ b.I = cpu.I /\ ~b.suppressed
        /\ b.irq_at_poll = cpu.irq_at_poll /\ b.irqs = Shifted(cpu, irq)
    BY <1>1, <1>5, <2>3 DEF Served, Same, IrqInv
  <2>5. /\ d \in CpuState /\ d.I_sample = cpu.I
        /\ IF cpu.cycle + 1 = Length[cpu.op] THEN d.op = "fetch"
           ELSE d.op = cpu.op /\ d.cycle = cpu.cycle + 1
        /\ d.suppressed <=> cpu.op = "branch" /\ cpu.cycle = 1
        /\ d.irq_at_poll <=> IF AtPoll(cpu) THEN b.irqs % 4 = 3 ELSE cpu.irq_at_poll
        /\ d.irqs = IF AtEntry(cpu) THEN 0 ELSE b.irqs
        /\ cpu.op = "op_brk" => (d.I <=> cpu.I \/ AtEntry(cpu))
    BY <1>1, <1>5, <2>4 DEF Finished, CpuOK, Worked, AtPoll, AtEntry
  <2>6. d.op # "fetch" => ~d.suppressed
    BY <2>5, Lengths
  <2>7. cpu.op \in Ops /\ cpu.cycle \in 0 .. 5 /\ cpu.cycle < Length[cpu.op]
    BY <1>5 DEF CpuOK, CpuState
  <2> HIDE DEF d
  <2>8. ASSUME irq_wait' = 1 PROVE IrqClose(d)
    <3>1. irq = TRUE /\ IrqClose(cpu)
      BY <1>3, <2>2, <2>8 DEF IrqInv
    <3>2. CASE cpu.op = "op_brk"
      <4>1. (cpu.cycle > 3 => cpu.I) /\ (cpu.cycle > 4 => cpu.I_sample)
        BY <3>1, <3>2 DEF IrqClose
      <4>2. CASE d.op = "fetch"
        <5>1. cpu.cycle = 5
          BY <2>5, <2>7, <3>2, <4>2, Lengths
        <5>2. d.I_sample
          BY <2>5, <4>1, <5>1
        <5> QED BY <4>2, <5>2 DEF IrqClose
      <4>3. CASE d.op # "fetch"
        <5>1. d.op = "op_brk" /\ d.cycle = cpu.cycle + 1
          BY <2>5, <3>2, <4>3
        <5>2. d.cycle > 3 => d.I
          BY <2>5, <2>7, <3>2, <4>1, <5>1 DEF AtEntry
        <5>3. d.cycle > 4 => d.I_sample
          BY <2>5, <2>7, <4>1, <5>1
        <5> QED BY <4>3, <5>1, <5>2, <5>3 DEF IrqClose
      <4> QED BY <4>2, <4>3
    <3>3. CASE cpu.op # "op_brk"
      <4>1. /\ IF cpu.cycle = 0 THEN cpu.irqs % 2 = 1 ELSE cpu.irqs % 4 = 3
            /\ cpu.op = "branch" /\ cpu.cycle = 1 => cpu.irq_at_poll
        BY <1>5, <3>1, <3>3 DEF IrqClose
      <4>2. d.irqs % 4 = 3 /\ b.irqs % 4 = 3
        <5>1. d.irqs = b.irqs
          BY <2>5, <3>3 DEF AtEntry
        <5>2. Shifted(cpu, irq) % 4 = 3
          <6>1. TRUE \in BOOLEAN /\ 7 % 4 = 3
            OBVIOUS
          <6>2. CASE cpu.cycle = 0
            BY <2>3, <3>1, <4>1, <6>1, <6>2, ShiftedType
          <6>3. CASE cpu.cycle # 0
            <7>1. Shifted(cpu, irq) = 7
              BY <2>3, <3>1, <4>1, <6>1, <6>3, ShiftedType
            <7> QED BY <6>1, <7>1
          <6> QED BY <6>2, <6>3
        <5> QED BY <2>4, <5>1, <5>2
      <4>3. CASE d.op = "fetch"
        <5>1. d.suppressed => d.irq_at_poll
          BY <2>5, <4>1 DEF AtPoll
        <5> QED BY <4>2, <4>3, <5>1 DEF IrqClose
      <4>4. CASE d.op # "fetch"
        <5>1. d.op = cpu.op /\ d.cycle = cpu.cycle + 1 /\ d.cycle # 0
          BY <2>5, <2>7, <4>4
        <5>2. d.op = "branch" /\ d.cycle = 1 => d.irq_at_poll
          <6> SUFFICES ASSUME d.op = "branch", d.cycle = 1 PROVE d.irq_at_poll
            OBVIOUS
          <6>1. AtPoll(cpu)
            BY <2>7, <5>1 DEF AtPoll
          <6> QED BY <2>5, <4>2, <6>1
        <5> QED BY <3>3, <4>2, <4>4, <5>1, <5>2 DEF IrqClose
      <4> QED BY <4>3, <4>4
    <3> QED BY <3>2, <3>3
  <2>9. irq_wait' \in {0, 1}
    BY <1>3, <2>2
  <2> QED BY <2>6, <2>8, <2>9 DEF IrqInv, d
<1> QED BY <1>4, <1>5

LEMMA IrqInit == Init => IrqInv
<1> SUFFICES ASSUME Init PROVE IrqInv
  OBVIOUS
<1>1. cpu.op = "fetch" /\ irq_wait = 0
  BY CpuResetOK DEF Init
<1> QED BY <1>1 DEF IrqInv

LEMMA IrqNext == MachineInv /\ IrqInv /\ [Next]_vars => IrqInv'
<1> SUFFICES ASSUME MachineInv, IrqInv, [Next]_vars PROVE IrqInv'
  OBVIOUS
<1>1. CASE Reset
  <2>1. cpu.I \in BOOLEAN
    BY DEF MachineInv, CpuOK, CpuState
  <2>2. cpu'.op = "fetch" /\ irq_wait' = 0
    BY <1>1, <2>1, CpuResetOK DEF Reset
  <2> QED BY <2>2 DEF IrqInv
<1>2. CASE Next /\ ~Reset
  <2>1. PICK short, reads, irq, p, q : Turn(short, p, q, reads, irq)
    BY <1>2, SomeTurn
  <2>2. p \in PpuState /\ q \in PpuState /\ Waiting(irq, q) /\ CpuOK(cpu)
    BY <2>1 DEF Turn, MachineInv
  <2>3. CASE Executes(p, q, irq)
    BY <2>1, <2>2, <2>3, IrqTurn DEF Turn
  <2>4. CASE Transfers(p, q)
    <3>1. q.nmi \in BOOLEAN /\ cpu \in CpuState /\ cpu' = Sample(cpu, q.nmi)
      BY <2>2, <2>4 DEF Transfers, CpuOK, PpuState
    <3>2. Same(cpu', cpu) /\ cpu'.irqs = cpu.irqs
      BY <3>1, SampleFields
    <3>3. ~Begins
      BY <3>2 DEF Begins, Same
    <3>4. irq_wait' \in {0, irq_wait}
      BY <2>2, <3>3 DEF Waiting, Begun
    <3>5. IrqClose(cpu) => IrqClose(cpu')
      BY <3>2 DEF Same, IrqClose
    <3> QED BY <3>2, <3>4, <3>5 DEF IrqInv, Same
  <2> QED BY <2>1, <2>3, <2>4 DEF Turn
<1>3. CASE UNCHANGED vars
  BY <1>3 DEF vars, IrqInv
<1> QED BY <1>1, <1>2, <1>3

\* process_interrupt_detection's three samples, the branch that does not poll in
\* its last cycle and the flag that is snapped before it changes: whatever the
\* program is made of, an IRQ that is held and not masked is taken at the second
\* fetch at the latest.
THEOREM IrqIsServed == Spec => []IrqServed
<1>1. IrqInv => IrqServed
  BY Limits DEF IrqInv, IrqServed
<1> QED BY <1>1, IrqInit, MachineInit, MachineNext, IrqNext, PTL DEF Spec

-----------------------------------------------------------------------------
(* An NMI is never lost *)

\* The dots before the flag is set again, at least: the line before it may be short.
Ahead(d) == CASE d > VblDot -> FrameDots - d + VblDot - 1
              [] d <= SkipDot -> VblDot - d - 1
              [] OTHER -> VblDot - d

\* A transfer takes its two dummies and two cycles for each byte.
DmaTurns == 2 * DmaBytes + 2
DmaRest(x) ==
  CASE ~x.on -> 0
    [] x.on /\ x.dummy -> 2 * DmaBytes + (IF x.odd THEN 1 ELSE 2)
    [] OTHER -> 2 * (DmaBytes - x.addr) - (IF x.odd THEN 1 ELSE 0)

\* The two edges that may come one after the other are far enough apart: from an
\* enabling write in the vertical blank to the next flag, and from flag to flag.
\* On an NTSC NES that is 82521 and 89338 dots, against 1569 and 3111.
LongFrame == /\ VblDot - 2 >= 3 * (DmaTurns + 9)
             /\ FrameDots - 4 >= 3 * (2 * DmaTurns + 9)

LEMMA AheadDot ==
  ASSUME NEW a \in 0 .. FrameDots - 1, NEW b, Follows(b, a)
  PROVE  /\ b \in 0 .. FrameDots - 1 /\ Ahead(a) \in Nat /\ Ahead(b) \in Nat
         /\ a # VblDot => Ahead(b) >= Ahead(a) - 1
         /\ Ahead(a) >= 1 => a # VblDot
<1>1. b \in 0 .. FrameDots - 1
  BY DEF Follows
<1>2. ASSUME NEW d \in 0 .. FrameDots - 1
      PROVE  /\ Ahead(d) \in Nat
             /\ d > VblDot => Ahead(d) = FrameDots - d + VblDot - 1
             /\ d <= SkipDot => Ahead(d) = VblDot - d - 1
             /\ SkipDot < d /\ d <= VblDot => Ahead(d) = VblDot - d
  <2>1. /\ d > VblDot => Ahead(d) = FrameDots - d + VblDot - 1
        /\ d <= SkipDot => Ahead(d) = VblDot - d - 1
        /\ SkipDot < d /\ d <= VblDot => Ahead(d) = VblDot - d
    BY Dots DEF Ahead
  <2> QED BY <2>1, Dots
<1>3. /\ a # FrameDots - 1 => b = a + 1 \/ (a = SkipDot /\ b = a + 2)
      /\ a = FrameDots - 1 => b = 0
  BY DEF Follows
<1>4. Ahead(a) \in Nat /\ Ahead(b) \in Nat
  BY <1>1, <1>2
<1>5. a = VblDot => Ahead(a) = 0
  BY <1>2, Dots
<1>6. a # VblDot => Ahead(b) >= Ahead(a) - 1
  <2>1. CASE a > VblDot
    BY <1>1, <1>2, <1>3, <2>1, Dots
  <2>2. CASE a <= SkipDot
    BY <1>1, <1>2, <1>3, <2>2, Dots
  <2>3. CASE SkipDot < a /\ a < VblDot
    BY <1>1, <1>2, <1>3, <2>3, Dots
  <2> QED BY <2>1, <2>2, <2>3, Dots
<1> QED BY <1>1, <1>4, <1>5, <1>6

\* In a CPU cycle the beam moves three dots, at most, towards the next flag; in the
\* cycle that sets it, it is a frame away from the next but for four.
LEMMA AheadMoves ==
  ASSUME ppu \in PpuState, NEW short \in BOOLEAN
  PROVE  LET p == Clocked(short) IN
         /\ Ahead(ppu.dot) >= 3 => /\ Ahead(p.dot) >= Ahead(ppu.dot) - 3
                                   /\ InVblank(p) => InVblank(ppu)
         /\ ~InVblank(ppu) /\ InVblank(p) => Ahead(p.dot) >= FrameDots - 4
         /\ InVblank(p) => Ahead(p.dot) >= VblDot - 2
<1> DEFINE x == Clock(ppu, short)
           y == Clock(x, short)
           z == Clock(y, short)
           a == ppu.dot
<1>0. a \in 0 .. FrameDots - 1
  BY DEF PpuState
<1>1. x \in PpuState /\ Follows(x.dot, a)
  BY ClockFields, Beam
<1> HIDE DEF x
<1>2. y \in PpuState /\ Follows(y.dot, x.dot)
  BY <1>1, ClockFields, Beam
<1> HIDE DEF y
<1>3. z \in PpuState /\ Follows(z.dot, y.dot)
  BY <1>2, ClockFields, Beam
<1> HIDE DEF z
<1>4. ASSUME NEW c \in 0 .. FrameDots - 1, NEW e, Follows(e, c)
      PROVE  /\ c # VblDot => ((e > VblDot \/ e <= ClearDot) => (c > VblDot \/ c <= ClearDot))
  BY <1>4, Dots DEF Follows
<1>5. ASSUME NEW d \in 0 .. FrameDots - 1
      PROVE  /\ d > VblDot => Ahead(d) = FrameDots - d + VblDot - 1
             /\ d <= ClearDot => Ahead(d) = VblDot - d - 1
  BY <1>5, Dots DEF Ahead
<1> DEFINE b == x.dot
           c == y.dot
           e == z.dot
<1>6. b \in 0 .. FrameDots - 1 /\ c \in 0 .. FrameDots - 1 /\ e \in 0 .. FrameDots - 1
  BY <1>1, <1>2, <1>3 DEF Follows
<1>7. Follows(b, a) /\ Follows(c, b) /\ Follows(e, c)
  BY <1>1, <1>2, <1>3
<1>8. /\ ppu.dot = a /\ x.dot = b /\ z.dot = e
      /\ Clocked(short) = IF cpu_div = 0 THEN x ELSE z
  BY DEF Clocked, x, y, z
<1> DEFINE far(d) == d > VblDot \/ d <= ClearDot
<1>9. /\ InVblank(ppu) <=> far(a)
      /\ InVblank(x) <=> far(b)
      /\ InVblank(z) <=> far(e)
  BY DEF InVblank
<1> HIDE DEF a, b, c, e
<1>10. /\ Ahead(a) \in Nat /\ Ahead(b) \in Nat /\ Ahead(c) \in Nat /\ Ahead(e) \in Nat
       /\ a # VblDot => Ahead(b) >= Ahead(a) - 1
       /\ b # VblDot => Ahead(c) >= Ahead(b) - 1
       /\ c # VblDot => Ahead(e) >= Ahead(c) - 1
       /\ Ahead(a) >= 1 => a # VblDot
       /\ Ahead(b) >= 1 => b # VblDot
       /\ Ahead(c) >= 1 => c # VblDot
  BY <1>0, <1>6, <1>7, AheadDot
<1>11. /\ a # VblDot => (far(b) => far(a))
       /\ b # VblDot => (far(c) => far(b))
       /\ c # VblDot => (far(e) => far(c))
  BY <1>0, <1>4, <1>6, <1>7
<1>12. ASSUME NEW d \in 0 .. FrameDots - 1, far(d) PROVE Ahead(d) >= VblDot - 2
  BY <1>5, <1>12, Dots
<1> DEFINE since(k, d) == \/ d > VblDot /\ d <= VblDot + k
                          \/ d <= ClearDot /\ d + FrameDots <= VblDot + k
<1>13. ASSUME NEW k \in 0 .. 2, NEW d \in 0 .. FrameDots - 1, NEW f \in 0 .. FrameDots - 1,
              Follows(f, d), ~far(d) \/ since(k, d)
       PROVE  ~far(f) \/ since(k + 1, f)
  <2>1. CASE d = FrameDots - 1
    <3>1. f = 0
      BY <1>13, <2>1 DEF Follows
    <3>2. d > VblDot /\ d <= VblDot + k
      BY <1>13, <2>1, Dots
    <3> QED BY <2>1, <3>1, <3>2, Dots
  <2>2. CASE d # FrameDots - 1 /\ d <= VblDot
    <3>1. f = d + 1 \/ (d = SkipDot /\ f = d + 2)
      BY <1>13, <2>2 DEF Follows
    <3>2. CASE ~far(d)
      BY <1>13, <2>2, <3>1, <3>2, Dots
    <3>3. CASE since(k, d)
      BY <1>13, <2>2, <3>1, <3>3, Dots
    <3> QED BY <1>13, <3>2, <3>3
  <2>3. CASE d # FrameDots - 1 /\ d > VblDot
    <3>1. f = d + 1
      BY <1>13, <2>3, Dots DEF Follows
    <3>2. d <= VblDot + k
      BY <1>13, <2>3, Dots
    <3> QED BY <1>13, <2>3, <3>1, <3>2, Dots
  <2> QED BY <2>1, <2>2, <2>3, Dots
<1>14. ASSUME NEW d \in 0 .. FrameDots - 1, since(1, d) \/ since(3, d)
       PROVE Ahead(d) >= FrameDots - 4
  BY <1>5, <1>14, Dots
<1> HIDE DEF since
<1>15. ~far(a) => /\ ~far(b) \/ since(1, b)
                  /\ ~far(e) \/ since(3, e)
  <2> SUFFICES ASSUME ~far(a) PROVE (~far(b) \/ since(1, b)) /\ (~far(e) \/ since(3, e))
    OBVIOUS
  <2>1. 0 \in 0 .. 2 /\ 1 \in 0 .. 2 /\ 2 \in 0 .. 2 /\ 0 + 1 = 1 /\ 1 + 1 = 2 /\ 2 + 1 = 3
    OBVIOUS
  <2> HIDE DEF far
  <2>2. ~far(b) \/ since(1, b)
    BY <1>0, <1>6, <1>7, <1>13, <2>1
  <2>3. ~far(c) \/ since(2, c)
    BY <1>6, <1>7, <1>13, <2>1, <2>2
  <2>4. ~far(e) \/ since(3, e)
    BY <1>6, <1>7, <1>13, <2>1, <2>3
  <2> QED BY <2>2, <2>4
<1> HIDE DEF far
<1>16. CASE cpu_div = 0
  <2>1. Ahead(a) >= 3 => Ahead(b) >= Ahead(a) - 3 /\ (far(b) => far(a))
    BY <1>10, <1>11
  <2>2. ~far(a) /\ far(b) => Ahead(b) >= FrameDots - 4
    BY <1>6, <1>14, <1>15
  <2>3. far(b) => Ahead(b) >= VblDot - 2
    BY <1>6, <1>12
  <2> QED BY <1>8, <1>9, <1>16, <2>1, <2>2, <2>3
<1>17. CASE cpu_div # 0
  <2>1. Ahead(a) >= 3 => Ahead(e) >= Ahead(a) - 3 /\ (far(e) => far(a))
    BY <1>10, <1>11
  <2>2. ~far(a) /\ far(e) => Ahead(e) >= FrameDots - 4
    BY <1>6, <1>14, <1>15
  <2>3. far(e) => Ahead(e) >= VblDot - 2
    BY <1>6, <1>12
  <2> QED BY <1>8, <1>9, <1>17, <2>1, <2>2, <2>3
<1> QED BY <1>16, <1>17

\* Where an edge on the line comes from: the beam that enters the vertical blank, or
\* a write within it.
LEMMA EdgeRoom ==
  ASSUME PpuInv, NEW short \in BOOLEAN, NEW reads \in BOOLEAN, NEW q,
         Accessed(Clocked(short), q, reads), q.nmi, ~ppu.nmi
  PROVE  LET p == Clocked(short) IN
         /\ q = p => ~InVblank(ppu) /\ InVblank(p) /\ Ahead(q.dot) >= FrameDots - 4
         /\ q # p => Ahead(q.dot) >= VblDot - 2
<1> DEFINE p == Clocked(short)
           live == told = "due"
<1>1. ppu \in PpuState /\ Good(ppu, live)
  BY DEF PpuInv, VInv
<1>2. live \in BOOLEAN
  OBVIOUS
<1> HIDE DEF live
<1>3. /\ p \in PpuState /\ p.ctrl = ppu.ctrl
      /\ \/ Good(p, TRUE) /\ ~InVblank(ppu) /\ InVblank(p)
         \/ Good(p, live) /\ (InVblank(p) => InVblank(ppu))
  BY <1>1, <1>2, ClockedGood
<1>4. /\ ~InVblank(ppu) /\ InVblank(p) => Ahead(p.dot) >= FrameDots - 4
      /\ InVblank(p) => Ahead(p.dot) >= VblDot - 2
  BY <1>1, AheadMoves
<1> HIDE DEF p
<1>5. CASE q = p
  <2>1. p.vbl /\ p.ctrl
    BY <1>3, <1>5 DEF Good
  <2>2. ~ppu.vbl
    BY <1>1, <1>3, <2>1 DEF Good
  <2>3. ~InVblank(ppu) /\ InVblank(p)
    BY <1>1, <1>3, <2>1, <2>2 DEF Good
  <2> QED BY <1>4, <1>5, <2>3 DEF p
<1>6. CASE q # p
  <2>1. reads => q = StatusRead(p)
    BY DEF Accessed, p
  <2>2. ~reads
    BY <1>3, <2>1, ReadFields
  <2>3. PICK e \in BOOLEAN : q = CtrlWritten(p, e)
    BY <1>6, <2>2 DEF Accessed, p
  <2>4. q.dot = p.dot /\ p.vbl
    BY <1>3, <2>3, WriteFields
  <2>5. InVblank(p)
    BY <1>3, <2>4 DEF Good
  <2> QED BY <1>4, <1>6, <2>4, <2>5 DEF p
<1> QED BY <1>5, <1>6 DEF p

Polled(c)   == c.irq_at_poll \/ c.nmi_at_poll
Entering(c) == c.op = "op_brk" /\ c.cycle <= 3

\* The next fetch takes a latched NMI, unless the instruction that runs is a branch
\* that polled too early, or the handler just entered is another.
NmiClose(c) ==
  CASE c.op = "fetch"                     -> c.output /\ (c.suppressed => Polled(c))
    [] c.op = "branch" /\ c.cycle = 1     -> Polled(c)
    [] c.op = "op_brk"                    -> FALSE
    [] OTHER                              -> TRUE

\* The cycles until a latched NMI has its vector, at most: to the next fetch, with
\* the transfer an access may start, and from there.
ToFetchAt(c, x) ==
  IF c.op = "fetch" THEN DmaRest(x)
  ELSE Length[c.op] - c.cycle + (IF c.op = "absolute" THEN DmaTurns ELSE 0)
Rest(c, x) ==
  IF Entering(c) THEN 4 - c.cycle
  ELSE ToFetchAt(c, x) + (IF NmiClose(c) THEN 5 ELSE DmaTurns + 9)

MostBegun ==
  CASE ~owed                  -> 0
    [] owed /\ Entering(cpu)  -> 2
    [] OTHER                  -> IF NmiClose(cpu) THEN 1 ELSE 0

NmiInv ==
  /\ cpu.nmi_prev = ppu.nmi
  /\ cpu.output => cpu.latch
  /\ cpu.active = "nmi" => cpu.op = "op_brk"
  /\ owed <=> cpu.latch \/ (cpu.active = "nmi" /\ Entering(cpu))
  /\ nmi_wait <= MostBegun
  /\ owed => Ahead(ppu.dot) >= 3 * Rest(cpu, dma)

LEMMA DmaRestBound ==
  ASSUME NEW x \in DmaState
  PROVE  DmaRest(x) \in 0 .. DmaTurns /\ (~x.on => DmaRest(x) = 0)
<1>1. x.addr \in 0 .. DmaBytes - 1
  BY DEF DmaState
<1>2. CASE ~x.on
  BY <1>2, Limits DEF DmaRest, DmaTurns
<1>3. CASE x.on /\ x.dummy
  BY <1>3, Limits DEF DmaRest, DmaTurns
<1>4. CASE x.on /\ ~x.dummy
  BY <1>1, <1>4, Limits DEF DmaRest, DmaTurns
<1> QED BY <1>2, <1>3, <1>4

\* A cycle of a transfer is one fewer.
LEMMA DmaRestFalls ==
  ASSUME DmaInv, dma.on, dma' = [Transferred EXCEPT !.odd = ~@]
  PROVE  DmaRest(dma') = DmaRest(dma) - 1
<1>1. /\ dma'.odd = ~dma.odd
      /\ dma.dummy => dma'.on = dma.on /\ dma'.dummy = ~dma.odd /\ dma'.addr = dma.addr
      /\ ~dma.dummy /\ ~dma.odd => dma'.on = dma.on /\ ~dma'.dummy /\ dma'.addr = dma.addr
      /\ ~dma.dummy /\ dma.odd =>
           IF dma.addr + 1 = DmaBytes THEN ~dma'.on /\ dma'.dummy /\ dma'.addr = 0
           ELSE dma'.on /\ ~dma'.dummy /\ dma'.addr = dma.addr + 1
  BY TransferTurn
<1>2. /\ dma.addr \in 0 .. DmaBytes - 1 /\ (dma.dummy => dma.addr = 0)
      /\ dma.odd \in BOOLEAN /\ dma.dummy \in BOOLEAN /\ dma.on \in BOOLEAN
  BY DEF DmaInv, DmaState
<1> DEFINE o == dma.odd
           y == dma.dummy
           a == dma.addr
           r == DmaRest(dma)
           r2 == DmaRest(dma')
           on2 == dma'.on
           y2 == dma'.dummy
           o2 == dma'.odd
           a2 == dma'.addr
<1>3. /\ r = IF y THEN 2 * DmaBytes + (IF o THEN 1 ELSE 2)
             ELSE 2 * (DmaBytes - a) - (IF o THEN 1 ELSE 0)
      /\ r2 = IF ~on2 THEN 0
              ELSE IF y2 THEN 2 * DmaBytes + (IF o2 THEN 1 ELSE 2)
              ELSE 2 * (DmaBytes - a2) - (IF o2 THEN 1 ELSE 0)
  BY DEF DmaRest
<1>4. /\ (o2 <=> ~o)
      /\ y => on2 /\ (y2 <=> ~o) /\ a2 = a /\ a = 0
      /\ ~y /\ ~o => on2 /\ ~y2 /\ a2 = a
      /\ ~y /\ o => IF a + 1 = DmaBytes THEN ~on2 ELSE on2 /\ ~y2 /\ a2 = a + 1
      /\ a \in 0 .. DmaBytes - 1
  BY <1>1, <1>2
<1> HIDE DEF o, y, a, r, r2, on2, y2, o2, a2
<1>5. ASSUME y PROVE r2 = r - 1
  BY <1>3, <1>4, <1>5, Limits
<1>6. ASSUME ~y, ~o PROVE r2 = r - 1
  BY <1>3, <1>4, <1>6, Limits
<1>7. ASSUME ~y, o PROVE r2 = r - 1
  BY <1>3, <1>4, <1>7, Limits
<1>8. r2 = r - 1
  BY <1>5, <1>6, <1>7
<1> QED BY <1>8 DEF r, r2

LEMMA RestBound ==
  ASSUME NEW c, CpuOK(c), NEW x \in DmaState
  PROVE  /\ Rest(c, x) \in 1 .. 2 * DmaTurns + 9
         /\ c.op = "fetch" /\ ~x.on => Rest(c, x) <= DmaTurns + 9
<1>1. DmaTurns \in Nat /\ DmaTurns >= 4
  BY Limits DEF DmaTurns
<1>2. DmaRest(x) \in 0 .. DmaTurns /\ (~x.on => DmaRest(x) = 0)
  BY DmaRestBound
<1>3. CASE c.op = "fetch"
  <2>1. Rest(c, x) = DmaRest(x) + (IF NmiClose(c) THEN 5 ELSE DmaTurns + 9)
    BY <1>3 DEF Rest, ToFetchAt, Entering
  <2> QED BY <1>1, <1>2, <1>3, <2>1
<1>4. CASE c.op # "fetch"
  <2>1. c.op \in Ops /\ c.cycle \in 0 .. 5 /\ c.cycle < Length[c.op]
    BY <1>4 DEF CpuOK, CpuState
  <2>2. CASE Entering(c)
    BY <1>1, <1>4, <2>1, <2>2 DEF Rest, Entering
  <2>3. CASE ~Entering(c)
    <3> DEFINE n == Length[c.op] - c.cycle
    <3>1. Rest(c, x) = n + (IF c.op = "absolute" THEN DmaTurns ELSE 0)
                             + (IF NmiClose(c) THEN 5 ELSE DmaTurns + 9)
      BY <1>4, <2>3 DEF Rest, ToFetchAt
    <3>2. n \in 1 .. 6 /\ (c.op = "op_brk" => n \in 1 .. 2)
          /\ (c.op \in {"branch", "absolute"} => n \in 1 .. 3)
          /\ (c.op # "op_brk" => n \in 1 .. 5)
      BY <2>1, <2>3, Lengths DEF Entering
    <3>3. ~NmiClose(c) => c.op \in {"branch", "op_brk"}
      BY <1>4 DEF NmiClose
    <3> HIDE DEF n
    <3> QED BY <1>1, <1>4, <3>1, <3>2, <3>3
  <2> QED BY <2>2, <2>3
<1> QED BY <1>3, <1>4

\* What the beam grants: no flag is set while an NMI is on its way, and after an
\* edge the next is far.
LEMMA NmiRoom ==
  ASSUME MachineInv, NmiInv, NEW short \in BOOLEAN, NEW reads \in BOOLEAN, NEW irq \in BOOLEAN,
         NEW p, NEW q, Turn(short, p, q, reads, irq)
  PROVE  /\ p.nmi \in BOOLEAN /\ q.nmi \in BOOLEAN /\ ppu.nmi \in BOOLEAN
         /\ owed => /\ Ahead(q.dot) >= Ahead(ppu.dot) - 3
                    /\ q = p => ~(q.nmi /\ ~ppu.nmi)
         /\ q.nmi /\ ~ppu.nmi => /\ q = p => Ahead(q.dot) >= FrameDots - 4
                                 /\ q # p => Ahead(q.dot) >= VblDot - 2
<1>1. /\ p = Clocked(short) /\ p \in PpuState /\ q \in PpuState /\ ppu \in PpuState
      /\ Accessed(p, q, reads) /\ PpuInv
  BY DEF Turn, MachineInv, PpuInv
<1>2. q.dot = p.dot
  <2>1. CASE reads
    BY <1>1, <2>1, ReadFields DEF Accessed
  <2>2. CASE ~reads /\ q # p
    <3>1. PICK e \in BOOLEAN : q = CtrlWritten(p, e)
      BY <1>1, <2>2 DEF Accessed
    <3> QED BY <1>1, <3>1, WriteFields
  <2> QED BY <2>1, <2>2
<1>3. q.nmi /\ ~ppu.nmi =>
        /\ q = p => ~InVblank(ppu) /\ InVblank(p) /\ Ahead(q.dot) >= FrameDots - 4
        /\ q # p => Ahead(q.dot) >= VblDot - 2
  BY <1>1, EdgeRoom
<1>4. ASSUME owed
      PROVE  Ahead(p.dot) >= Ahead(ppu.dot) - 3 /\ (InVblank(p) => InVblank(ppu))
  <2>1. Ahead(ppu.dot) >= 3 * Rest(cpu, dma)
    BY <1>4 DEF NmiInv
  <2>2. Rest(cpu, dma) \in 1 .. 2 * DmaTurns + 9 /\ DmaTurns \in Nat
    BY RestBound, Limits DEF MachineInv, DmaInv, DmaTurns
  <2>3. Ahead(ppu.dot) \in Nat
    <3>1. ppu.dot \in 0 .. FrameDots - 1
      BY <1>1 DEF PpuState
    <3> QED BY <3>1, Dots DEF Ahead
  <2>4. Ahead(ppu.dot) >= 3
    BY <2>1, <2>2, <2>3
  <2> QED BY <1>1, <2>4, AheadMoves
<1>5. p.nmi \in BOOLEAN /\ q.nmi \in BOOLEAN /\ ppu.nmi \in BOOLEAN
  BY <1>1 DEF PpuState
<1> QED BY <1>2, <1>3, <1>4, <1>5

\* The CPU's turn, as far as the NMI goes.
LEMMA NmiLatched ==
  ASSUME MachineInv, IrqInv, NmiInv, NEW short \in BOOLEAN, NEW reads \in BOOLEAN,
         NEW irq \in BOOLEAN, NEW p, NEW q, Turn(short, p, q, reads, irq), Executes(p, q, irq)
  PROVE  /\ cpu'.nmi_prev = ppu'.nmi
         /\ cpu'.output => cpu'.latch
         /\ cpu'.active = "nmi" => cpu'.op = "op_brk"
         /\ owed' <=> cpu'.latch \/ (cpu'.active = "nmi" /\ Entering(cpu'))
<1> DEFINE edge == q.nmi /\ ~ppu.nmi
           d == cpu'
<1>1. /\ CpuOK(cpu) /\ p \in PpuState /\ q \in PpuState /\ ppu' = q
      /\ owed' = (edge \/ (owed /\ ~EntersNmi))
  BY DEF MachineInv, Turn, Waiting
<1>2. PICK b : Served(b, p, q, irq) /\ Finished(b, q, irq)
  BY <1>1, TurnOf
<1>3. /\ cpu.nmi_prev = ppu.nmi
      /\ cpu.output => cpu.latch
      /\ cpu.active = "nmi" => cpu.op = "op_brk"
      /\ owed <=> cpu.latch \/ (cpu.active = "nmi" /\ Entering(cpu))
      /\ owed /\ q = p => ~edge
  BY NmiRoom DEF NmiInv
<1>4. q # p => AtAccess
  BY DEF Executes
<1>e. edge \in BOOLEAN /\ (edge <=> q.nmi /\ ~ppu.nmi)
  BY NmiRoom
<1> HIDE DEF d, edge
<1>5. CASE cpu.op = "fetch"
  <2>1. /\ d.op # "fetch" /\ d.cycle = 0 /\ (Hijacks(cpu, irq) => d.op = "op_brk")
        /\ d.active = b.active /\ d.nmi_prev = b.nmi_prev /\ d.latch = b.latch /\ d.output = b.output
    BY <1>2, <1>5 DEF Finished, d
  <2>2. ~EntersNmi /\ ~AtAccess
    BY <1>5 DEF EntersNmi, AtAccess
  <2>3. /\ b.nmi_prev = q.nmi
        /\ IF Hijacks(cpu, irq)
             THEN /\ b.active = Detected(cpu, irq)
                  /\ Detected(cpu, irq) = "nmi" => (b.latch <=> q.nmi /\ ~p.nmi) /\ ~b.output
                  /\ Detected(cpu, irq) # "nmi" => /\ b.latch <=> cpu.latch \/ (q.nmi /\ ~cpu.nmi_prev)
                                                   /\ b.output = cpu.latch
             ELSE /\ b.active = cpu.active
                  /\ b.latch <=> cpu.latch \/ (q.nmi /\ ~cpu.nmi_prev)
                  /\ b.output = cpu.latch
    BY <1>2 DEF Served
  <2>4. cpu.active # "nmi" /\ (owed <=> cpu.latch)
    BY <1>3, <1>5 DEF Entering
  <2>5. CASE Hijacks(cpu, irq) /\ Detected(cpu, irq) = "nmi"
    <3>1. owed
      BY <1>3, <2>4, <2>5 DEF Detected
    <3>2. Entering(d) /\ d.active = "nmi" /\ d.op = "op_brk" /\ ~d.output
      BY <2>1, <2>3, <2>5 DEF Entering
    <3> QED BY <1>1, <2>1, <2>2, <2>3, <3>1, <3>2 DEF d
  <2>6. CASE ~(Hijacks(cpu, irq) /\ Detected(cpu, irq) = "nmi")
    <3>1. /\ d.active # "nmi" /\ (d.latch <=> cpu.latch \/ (q.nmi /\ ~cpu.nmi_prev))
          /\ d.output = cpu.latch
      BY <2>1, <2>3, <2>4, <2>6
    <3>2. d.latch <=> cpu.latch \/ edge
      BY <1>3, <1>e, <3>1
    <3> QED BY <1>1, <2>1, <2>2, <2>3, <2>4, <3>1, <3>2 DEF d
  <2> QED BY <2>5, <2>6
<1>6. CASE cpu.op # "fetch"
  <2>1. /\ IF cpu.cycle + 1 = Length[cpu.op] THEN d.op = "fetch"
           ELSE d.op = cpu.op /\ d.cycle = cpu.cycle + 1
        /\ Worked(d, b, q.nmi)
    BY <1>2, <1>6 DEF Finished, d
  <2>2. ~Hijacks(cpu, irq)
    BY <1>6, HijackActive
  <2>3. /\ b.op = cpu.op /\ b.cycle = cpu.cycle /\ b.nmi_prev = q.nmi /\ b.active = cpu.active
        /\ b.output = cpu.latch /\ (b.latch <=> cpu.latch \/ edge)
    BY <1>2, <1>3, <1>e, <2>2 DEF Served, Same
  <2>4. cpu.op \in Ops /\ cpu.cycle \in 0 .. 5 /\ cpu.cycle < Length[cpu.op]
    BY <1>1, <1>6 DEF CpuOK, CpuState
  <2>5. /\ AtEntry(b) <=> cpu.op = "op_brk" /\ cpu.cycle = 3
        /\ AtExit(b) <=> cpu.op = "op_brk" /\ cpu.cycle = 5
        /\ VectorOf(b) = "nmi" <=> cpu.latch \/ cpu.active = "nmi"
    <3>1. cpu.latch \in BOOLEAN
      BY <1>1 DEF CpuOK, CpuState
    <3> QED BY <2>3, <3>1 DEF AtEntry, AtExit, VectorOf
  <2>6. /\ d.nmi_prev = q.nmi
        /\ d.latch <=> b.latch /\ (AtEntry(b) => VectorOf(b) # "nmi")
        /\ d.output <=> b.output /\ ~AtEntry(b) /\ ~AtExit(b)
        /\ d.active = "nmi" <=> CASE AtEntry(b) -> VectorOf(b) = "nmi"
                                  [] AtExit(b) \/ (b.op = "rti" /\ b.cycle = 4) -> FALSE
                                  [] OTHER -> b.active = "nmi"
    BY <2>1, <2>3 DEF Worked
  <2>7. d.output => d.latch
    BY <2>3, <2>6
  <2>8. CASE cpu.op # "op_brk"
    <3>1. ~AtEntry(b) /\ ~AtExit(b) /\ cpu.active # "nmi"
      BY <1>3, <2>5, <2>8
    <3>2. d.active # "nmi"
      BY <2>3, <2>6, <3>1
    <3>3. d.latch <=> cpu.latch \/ edge
      BY <2>3, <2>6, <3>1
    <3>4. ~EntersNmi
      BY <2>8 DEF EntersNmi
    <3>5. owed <=> cpu.latch
      BY <1>3, <3>1
    <3> QED BY <1>1, <2>6, <2>7, <3>2, <3>3, <3>4, <3>5 DEF d
  <2>9. CASE cpu.op = "op_brk" /\ cpu.cycle = 3
    <3>1. AtEntry(b) /\ ~AtAccess /\ d.op = "op_brk" /\ d.cycle = 4
      BY <2>1, <2>5, <2>9, Lengths DEF AtAccess
    <3>2. (d.active = "nmi" <=> owed) /\ (VectorOf(b) = "nmi" <=> owed)
      <4>1. Entering(cpu)
        BY <2>9 DEF Entering
      <4>2. VectorOf(b) = "nmi" <=> owed
        BY <1>3, <2>5, <4>1
      <4>3. d.active = "nmi" <=> VectorOf(b) = "nmi"
        <5>1. ~AtExit(b) /\ b.op # "rti"
          BY <2>3, <2>5, <2>9
        <5> QED BY <2>6, <3>1, <5>1
      <4> QED BY <4>2, <4>3
    <3>3. EntersNmi <=> owed
      BY <2>9, <3>2 DEF EntersNmi, d
    <3>4. owed => ~edge
      BY <1>3, <1>4, <3>1
    <3>5. d.latch <=> edge
      BY <1>3, <2>3, <2>5, <2>6, <2>9, <3>1, <3>2, <3>4
    <3>6. ~Entering(d)
      BY <3>1 DEF Entering
    <3> QED BY <1>1, <2>6, <2>7, <3>1, <3>3, <3>5, <3>6 DEF d
  <2>10. CASE cpu.op = "op_brk" /\ cpu.cycle # 3
    <3>1. ~AtEntry(b) /\ ~EntersNmi
      BY <2>5, <2>10 DEF EntersNmi
    <3>2. d.latch <=> cpu.latch \/ edge
      BY <2>3, <2>6, <3>1
    <3>3. CASE cpu.cycle = 5
      <4>1. d.active # "nmi" /\ ~Entering(cpu)
        BY <2>5, <2>6, <2>10, <3>1, <3>3 DEF Entering
      <4> QED BY <1>1, <1>3, <2>6, <2>7, <3>1, <3>2, <4>1 DEF d
    <3>4. CASE cpu.cycle # 5
      <4>1. d.op = "op_brk" /\ d.cycle = cpu.cycle + 1
        BY <2>1, <2>4, <2>10, <3>4, Lengths
      <4>2. d.active = "nmi" <=> cpu.active = "nmi"
        BY <2>3, <2>5, <2>6, <2>10, <3>1, <3>4
      <4>3. Entering(d) <=> Entering(cpu)
        BY <2>4, <2>10, <4>1 DEF Entering
      <4> QED BY <1>1, <1>3, <2>6, <2>7, <3>1, <3>2, <4>1, <4>2, <4>3 DEF d
    <3> QED BY <3>3, <3>4
  <2> QED BY <2>8, <2>9, <2>10
<1> QED BY <1>5, <1>6

\* A cycle of the CPU brings a latched NMI one nearer to its handler.
LEMMA NmiNearer ==
  ASSUME MachineInv, IrqInv, NmiInv, NEW p \in PpuState, NEW q \in PpuState, NEW irq \in BOOLEAN,
         Executes(p, q, irq), Waiting(irq, q), dma' \in DmaState,
         owed, ~EntersNmi, ~(q.nmi /\ ~ppu.nmi)
  PROVE  /\ Rest(cpu', dma') <= Rest(cpu, dma) - 1
         /\ nmi_wait' <= IF Entering(cpu') THEN 2 ELSE IF NmiClose(cpu') THEN 1 ELSE 0
<1> DEFINE d == cpu'
           x == dma'
<1>1. CpuOK(cpu) /\ dma \in DmaState /\ ~dma.on
  BY DEF MachineInv, DmaInv, Executes
<1>2. PICK b : Served(b, p, q, irq) /\ Finished(b, q, irq)
  BY <1>1, TurnOf
<1>3. /\ nmi_wait' = Begun(nmi_wait, MaxNmiWait)
      /\ nmi_wait \in Nat /\ MaxNmiWait \in Nat
      /\ nmi_wait <= IF Entering(cpu) THEN 2 ELSE IF NmiClose(cpu) THEN 1 ELSE 0
  <2>1. owed'
    BY DEF Waiting
  <2>2. nmi_wait' = Begun(nmi_wait, MaxNmiWait)
    BY <2>1 DEF Waiting
  <2>3. nmi_wait \in Nat
    BY Limits DEF MachineInv, GhostOK
  <2> QED BY <2>2, <2>3, Limits DEF NmiInv, MostBegun
<1>4. nmi_wait' <= nmi_wait + 1 /\ (~Begins => nmi_wait' = nmi_wait)
  BY <1>3 DEF Begun
<1>5. DmaTurns \in Nat /\ DmaTurns >= 4 /\ DmaRest(dma) = 0 /\ DmaRest(x) \in 0 .. DmaTurns
      /\ (x = dma => DmaRest(x) = 0)
  BY <1>1, Limits, DmaRestBound DEF DmaTurns
<1>6. x = dma \/ AtAccess
  BY DEF Executes
<1>7. cpu.latch \/ Entering(cpu)
  BY DEF NmiInv
<1> HIDE DEF d, x
<1>8. CASE cpu.op = "fetch"
  <2>1. /\ d.op # "fetch" /\ d.cycle = 0 /\ (Hijacks(cpu, irq) => d.op = "op_brk")
        /\ d.op \in Ops
    BY <1>2, <1>8 DEF Finished, d, CpuOK, CpuState
  <2>2. ~Entering(cpu)
    BY <1>8 DEF Entering
  <2>3. Rest(cpu, dma) = IF NmiClose(cpu) THEN 5 ELSE DmaTurns + 9
    BY <1>5, <1>8, <2>2 DEF Rest, ToFetchAt
  <2>4. CASE d.op = "op_brk"
    <3>1. Entering(d) /\ Rest(d, x) = 4
      BY <2>1, <2>4 DEF Entering, Rest
    <3>2. nmi_wait' <= 2
      <4>1. nmi_wait <= 1
        BY <1>3, <2>2
      <4>2. nmi_wait' \in Nat
        BY <1>3 DEF Begun
      <4> QED BY <1>3, <1>4, <4>1, <4>2
    <3> QED BY <1>5, <2>3, <3>1, <3>2 DEF d, x
  <2>5. CASE d.op # "op_brk"
    <3>1. ~NmiClose(cpu)
      <4> SUFFICES ASSUME NmiClose(cpu) PROVE FALSE
        OBVIOUS
      <4>1. cpu.output /\ (cpu.suppressed => Polled(cpu))
        BY <1>8 DEF NmiClose
      <4>2. Hijacks(cpu, irq)
        BY <1>8, <4>1 DEF Hijacks, CanHijack, ShouldService, Detected, Polled
      <4> QED BY <2>1, <2>5, <4>2
    <3>2. ~Entering(d) /\ NmiClose(d)
      BY <2>1, <2>5 DEF Entering, NmiClose
    <3>3. nmi_wait' <= 1
      BY <1>3, <1>4, <2>2, <3>1
    <3>4. Rest(d, x) = Length[d.op] + (IF d.op = "absolute" THEN DmaTurns ELSE 0) + 5
      <4>1. Length[d.op] \in 1 .. 6
        BY <2>1, LengthOf
      <4> QED BY <1>5, <2>1, <3>2, <4>1 DEF Rest, ToFetchAt
    <3>5. Length[d.op] \in 1 .. 5 /\ (d.op = "absolute" => Length[d.op] = 3)
      BY <2>1, <2>5, Lengths
    <3> QED BY <1>5, <2>3, <3>1, <3>2, <3>3, <3>4, <3>5 DEF d, x
  <2> QED BY <2>4, <2>5
<1>9. CASE cpu.op # "fetch"
  <2>1. /\ IF cpu.cycle + 1 = Length[cpu.op] THEN d.op = "fetch"
           ELSE d.op = cpu.op /\ d.cycle = cpu.cycle + 1
        /\ Worked(d, b, q.nmi)
    BY <1>2, <1>9 DEF Finished, d
  <2>2. ~Hijacks(cpu, irq)
    BY <1>9, HijackActive
  <2>3. /\ b.op = cpu.op /\ b.cycle = cpu.cycle /\ b.output = cpu.latch /\ ~b.suppressed
        /\ b.irq_at_poll = cpu.irq_at_poll /\ b.nmi_at_poll = cpu.nmi_at_poll
    BY <1>2, <1>9, <2>2 DEF Served, Same, IrqInv
  <2>4. cpu.op \in Ops /\ cpu.cycle \in 0 .. 5 /\ cpu.cycle < Length[cpu.op]
    BY <1>1, <1>9 DEF CpuOK, CpuState
  <2>5. nmi_wait' = nmi_wait
    BY <1>4, <1>9 DEF Begins
  <2>6. CASE Entering(cpu)
    <3>1. cpu.cycle # 3
      <4> SUFFICES ASSUME cpu.cycle = 3 PROVE FALSE
        OBVIOUS
      <4>1. cpu.op = "op_brk" /\ AtEntry(b)
        BY <2>3, <2>6 DEF Entering, AtEntry
      <4>2. cpu.latch \/ cpu.active = "nmi"
        BY DEF NmiInv
      <4>3. b.active = cpu.active /\ cpu.latch \in BOOLEAN
        BY <1>1, <1>2, <2>2 DEF Served, CpuOK, CpuState
      <4>4. VectorOf(b) = "nmi"
        BY <2>3, <4>2, <4>3 DEF VectorOf
      <4>5. ~AtExit(b) /\ b.op # "rti"
        BY <2>3, <4>1 DEF AtExit
      <4>6. d.active = "nmi"
        BY <2>1, <4>1, <4>4, <4>5 DEF Worked
      <4> QED BY <4>1, <4>6 DEF EntersNmi, d
    <3>2. cpu.op = "op_brk" /\ cpu.cycle \in 0 .. 2
      BY <2>4, <2>6, <3>1 DEF Entering
    <3>3. d.op = "op_brk" /\ d.cycle = cpu.cycle + 1
      BY <2>1, <3>2, Lengths
    <3>4. Entering(d)
      BY <3>2, <3>3 DEF Entering
    <3>5. Rest(d, x) = Rest(cpu, dma) - 1
      BY <2>6, <3>2, <3>3, <3>4 DEF Rest
    <3>6. Rest(cpu, dma) \in Int
      BY <2>6, <3>2 DEF Rest
    <3> QED BY <1>3, <2>5, <2>6, <3>4, <3>5, <3>6 DEF d, x
  <2>7. CASE ~Entering(cpu)
    <3> DEFINE n == Length[cpu.op] - cpu.cycle
    <3>1. cpu.latch
      BY <1>7, <2>7
    <3>2. /\ Rest(cpu, dma) = n + (IF cpu.op = "absolute" THEN DmaTurns ELSE 0)
                                + (IF NmiClose(cpu) THEN 5 ELSE DmaTurns + 9)
          /\ n \in 1 .. 6
      BY <1>9, <2>4, <2>7, LengthOf DEF Rest, ToFetchAt
    <3>3. /\ d.suppressed <=> cpu.op = "branch" /\ cpu.cycle = 1
          /\ d.irq_at_poll <=> IF AtPoll(cpu) THEN b.irqs % 4 = 3 ELSE cpu.irq_at_poll
          /\ d.nmi_at_poll <=> IF AtPoll(cpu) THEN TRUE ELSE cpu.nmi_at_poll
          /\ cpu.op # "op_brk" => d.output
      BY <2>1, <2>3, <3>1 DEF Worked, AtPoll, AtEntry, AtExit
    <3>4. ~Entering(d)
      BY <2>1, <2>4, <2>7 DEF Entering
    <3>5. NmiClose(cpu) => NmiClose(d)
      <4> SUFFICES ASSUME NmiClose(cpu) PROVE NmiClose(d)
        OBVIOUS
      <4>1. cpu.op # "op_brk" /\ (cpu.op = "branch" /\ cpu.cycle = 1 => Polled(cpu))
        BY <1>9 DEF NmiClose
      <4>2. CASE d.op = "fetch"
        <5>1. d.suppressed => Polled(d)
          BY <3>3, <4>1 DEF Polled, AtPoll
        <5> QED BY <3>3, <4>1, <4>2, <5>1 DEF NmiClose
      <4>3. CASE d.op # "fetch"
        <5>1. d.op = cpu.op /\ d.cycle = cpu.cycle + 1
          BY <2>1, <4>3
        <5>2. d.op = "branch" /\ d.cycle = 1 => Polled(d)
          BY <2>4, <3>3, <5>1 DEF Polled, AtPoll
        <5> QED BY <4>1, <4>3, <5>1, <5>2 DEF NmiClose
      <4> QED BY <4>2, <4>3
    <3>6. nmi_wait' <= IF NmiClose(d) THEN 1 ELSE 0
      BY <1>3, <2>5, <2>7, <3>5
    <3>7. CASE d.op = "fetch"
      <4>1. n = 1
        <5>1. cpu.cycle + 1 = Length[cpu.op]
          BY <1>9, <2>1, <3>7
        <5> QED BY <2>4, <5>1
      <4>2. Rest(d, x) = DmaRest(x) + (IF NmiClose(d) THEN 5 ELSE DmaTurns + 9)
        BY <3>4, <3>7 DEF Rest, ToFetchAt
      <4>3. cpu.op # "absolute" => DmaRest(x) = 0
        BY <1>5, <1>6 DEF AtAccess
      <4>4. Rest(d, x) <= Rest(cpu, dma) - 1
        <5> HIDE DEF n
        <5>1. CASE cpu.op = "absolute"
          <6>1. NmiClose(cpu)
            BY <5>1 DEF NmiClose
          <6> QED BY <1>5, <3>2, <3>5, <4>1, <4>2, <5>1, <6>1
        <5>2. CASE cpu.op # "absolute"
          BY <1>5, <3>2, <3>5, <4>1, <4>2, <4>3, <5>2
        <5> QED BY <5>1, <5>2
      <4> QED BY <3>4, <3>6, <4>4 DEF d, x
    <3>8. CASE d.op # "fetch"
      <4>1. d.op = cpu.op /\ d.cycle = cpu.cycle + 1
        BY <2>1, <3>8
      <4>2. Rest(d, x) = (n - 1) + (IF cpu.op = "absolute" THEN DmaTurns ELSE 0)
                                 + (IF NmiClose(d) THEN 5 ELSE DmaTurns + 9)
        <5>1. Length[d.op] - d.cycle = n - 1
          BY <2>4, <4>1, LengthOf
        <5> HIDE DEF n
        <5> QED BY <3>4, <3>8, <4>1, <5>1 DEF Rest, ToFetchAt
      <4>3. Rest(d, x) <= Rest(cpu, dma) - 1
        <5> HIDE DEF n
        <5> QED BY <1>5, <3>2, <3>5, <4>2
      <4> QED BY <3>4, <3>6, <4>3 DEF d, x
    <3> QED BY <3>7, <3>8
  <2> QED BY <2>6, <2>7
<1> QED BY <1>8, <1>9

LEMMA NmiTurn ==
  ASSUME LongFrame, MachineInv, MachineInv', IrqInv, NmiInv, NEW short \in BOOLEAN,
         NEW reads \in BOOLEAN, NEW irq \in BOOLEAN, NEW p, NEW q, Turn(short, p, q, reads, irq)
  PROVE  NmiInv'
<1> DEFINE edge == q.nmi /\ ~ppu.nmi
<1>1. /\ CpuOK(cpu) /\ CpuOK(cpu') /\ dma \in DmaState /\ dma' \in DmaState
      /\ p \in PpuState /\ q \in PpuState /\ ppu' = q /\ Waiting(irq, q)
      /\ Executes(p, q, irq) \/ Transfers(p, q)
  BY DEF MachineInv, DmaInv, Turn
<1>2. owed' = (edge \/ (owed /\ ~EntersNmi)) /\ (edge => nmi_wait' = 0) /\ (~owed' => nmi_wait' = 0)
  BY <1>1 DEF Waiting
<1>3. /\ p.nmi \in BOOLEAN /\ q.nmi \in BOOLEAN /\ ppu.nmi \in BOOLEAN
      /\ owed => Ahead(q.dot) >= Ahead(ppu.dot) - 3
      /\ edge => /\ q = p => Ahead(q.dot) >= FrameDots - 4
                 /\ q # p => Ahead(q.dot) >= VblDot - 2
  BY NmiRoom
<1>4. /\ DmaTurns \in Nat /\ DmaTurns >= 4
      /\ Rest(cpu, dma) \in 1 .. 2 * DmaTurns + 9
      /\ Rest(cpu', dma') \in 1 .. 2 * DmaTurns + 9
      /\ cpu'.op = "fetch" /\ ~dma'.on => Rest(cpu', dma') <= DmaTurns + 9
  BY <1>1, RestBound, Limits DEF DmaTurns
<1>5. Ahead(q.dot) \in Nat /\ Ahead(ppu.dot) \in Nat
  <2>1. q.dot \in 0 .. FrameDots - 1 /\ ppu.dot \in 0 .. FrameDots - 1
    BY <1>1 DEF PpuState, MachineInv, PpuInv
  <2>2. ASSUME NEW e \in 0 .. FrameDots - 1 PROVE Ahead(e) \in Nat
    BY Dots DEF Ahead
  <2> QED BY <2>1, <2>2
<1> HIDE DEF edge
<1>6. edge => Ahead(q.dot) >= 3 * Rest(cpu', dma')
  <2>1. CASE q = p
    BY <1>3, <1>4, <1>5, <2>1, Dots DEF LongFrame
  <2>2. CASE q # p
    <3>1. AtAccess /\ dma' = dma /\ ~dma.on
      BY <1>1, <2>2 DEF Executes, Transfers
    <3>2. cpu'.op = "fetch"
      BY <1>1, <2>2, <3>1, CpuTurn DEF Transfers
    <3> QED BY <1>3, <1>4, <1>5, <2>2, <3>1, <3>2, Dots DEF LongFrame
  <2> QED BY <2>1, <2>2
<1>7. CASE Executes(p, q, irq)
  <2>1. /\ cpu'.nmi_prev = ppu'.nmi
        /\ cpu'.output => cpu'.latch
        /\ cpu'.active = "nmi" => cpu'.op = "op_brk"
        /\ owed' <=> cpu'.latch \/ (cpu'.active = "nmi" /\ Entering(cpu'))
    BY <1>7, NmiLatched
  <2>2. ASSUME owed, ~EntersNmi, ~edge
        PROVE  /\ Rest(cpu', dma') <= Rest(cpu, dma) - 1
               /\ nmi_wait' <= IF Entering(cpu') THEN 2 ELSE IF NmiClose(cpu') THEN 1 ELSE 0
    BY <1>1, <1>7, <2>2, NmiNearer DEF edge
  <2>3. owed' => Ahead(q.dot) >= 3 * Rest(cpu', dma')
    <3> SUFFICES ASSUME owed', ~edge PROVE Ahead(q.dot) >= 3 * Rest(cpu', dma')
      BY <1>6
    <3>1. owed /\ ~EntersNmi
      BY <1>2
    <3>2. Ahead(ppu.dot) >= 3 * Rest(cpu, dma)
      BY <3>1 DEF NmiInv
    <3>3. Rest(cpu', dma') <= Rest(cpu, dma) - 1
      BY <2>2, <3>1
    <3>4. Ahead(q.dot) >= Ahead(ppu.dot) - 3
      BY <1>3, <3>1
    <3> QED BY <1>4, <1>5, <3>2, <3>3, <3>4
  <2>4. nmi_wait' <= MostBegun'
    <3>1. CASE ~owed' \/ edge
      <4>1. nmi_wait' = 0
        BY <1>2, <3>1
      <4> QED BY <4>1 DEF MostBegun
    <3>2. CASE owed' /\ ~edge
      <4>1. nmi_wait' <= IF Entering(cpu') THEN 2 ELSE IF NmiClose(cpu') THEN 1 ELSE 0
        BY <1>2, <2>2, <3>2
      <4>2. MostBegun' = IF Entering(cpu') THEN 2 ELSE IF NmiClose(cpu') THEN 1 ELSE 0
        BY <3>2 DEF MostBegun
      <4> QED BY <4>1, <4>2
    <3> QED BY <3>1, <3>2
  <2> QED BY <1>1, <2>1, <2>3, <2>4 DEF NmiInv
<1>8. CASE Transfers(p, q)
  <2>1. dma.on /\ q = p /\ cpu' = Sample(cpu, q.nmi) /\ dma' = [Transferred EXCEPT !.odd = ~@]
    BY <1>8 DEF Transfers
  <2>2. cpu.op = "fetch" /\ DmaInv
    BY <2>1 DEF MachineInv, DmaInv
  <2>3. /\ Same(cpu', cpu) /\ cpu'.active = cpu.active /\ cpu'.output = cpu.output
        /\ cpu'.latch <=> cpu.latch \/ (q.nmi /\ ~cpu.nmi_prev)
        /\ cpu'.nmi_prev = q.nmi
    <3>1. cpu \in CpuState /\ q.nmi \in BOOLEAN
      BY <1>1, <1>3 DEF CpuOK
    <3> QED BY <2>1, <3>1, SampleFields
  <2>4. ~EntersNmi /\ ~Begins /\ ~Entering(cpu) /\ ~Entering(cpu')
    BY <2>2, <2>3 DEF EntersNmi, Begins, Entering, Same
  <2>5. NmiClose(cpu') <=> NmiClose(cpu)
    BY <2>2, <2>3 DEF NmiClose, Same, Polled
  <2>6. Rest(cpu', dma') = Rest(cpu, dma) - 1
    <3>1. DmaRest(dma') = DmaRest(dma) - 1
      BY <2>1, <2>2, DmaRestFalls
    <3>2. DmaRest(dma) \in Nat
      BY <1>1, <1>4, DmaRestBound
    <3>3. /\ Rest(cpu, dma) = DmaRest(dma) + (IF NmiClose(cpu) THEN 5 ELSE DmaTurns + 9)
          /\ Rest(cpu', dma') = DmaRest(dma') + (IF NmiClose(cpu') THEN 5 ELSE DmaTurns + 9)
      BY <2>2, <2>3, <2>4 DEF Rest, ToFetchAt, Same
    <3> QED BY <1>4, <2>5, <3>1, <3>2, <3>3
  <2>7. /\ cpu.nmi_prev = ppu.nmi
        /\ cpu.output => cpu.latch
        /\ cpu.active # "nmi"
        /\ owed <=> cpu.latch
        /\ nmi_wait <= MostBegun
        /\ owed => Ahead(ppu.dot) >= 3 * Rest(cpu, dma)
    BY <2>2, <2>4 DEF NmiInv
  <2>8. /\ cpu'.nmi_prev = ppu'.nmi
        /\ cpu'.output => cpu'.latch
        /\ cpu'.active # "nmi"
        /\ owed' <=> cpu'.latch
    <3>1. cpu'.latch <=> cpu.latch \/ edge
      BY <1>3, <2>3, <2>7 DEF edge
    <3> QED BY <1>1, <1>2, <2>3, <2>4, <2>7, <3>1
  <2>9. nmi_wait' <= MostBegun'
    <3>1. CASE ~owed' \/ edge
      <4>1. nmi_wait' = 0
        BY <1>2, <3>1
      <4> QED BY <4>1 DEF MostBegun
    <3>2. CASE owed' /\ ~edge
      <4>1. owed
        BY <1>2, <3>2
      <4>2. nmi_wait' = nmi_wait
        BY <1>1, <2>4, <3>2 DEF Waiting, Begun, edge
      <4>3. MostBegun' = MostBegun
        BY <2>4, <2>5, <3>2, <4>1 DEF MostBegun
      <4> QED BY <2>7, <4>2, <4>3
    <3> QED BY <3>1, <3>2
  <2>10. owed' => Ahead(q.dot) >= 3 * Rest(cpu', dma')
    <3> SUFFICES ASSUME owed', ~edge PROVE Ahead(q.dot) >= 3 * Rest(cpu', dma')
      BY <1>6
    <3>1. owed
      BY <1>2
    <3> QED BY <1>3, <1>4, <1>5, <2>6, <2>7, <3>1
  <2> QED BY <1>1, <2>8, <2>9, <2>10 DEF NmiInv
<1> QED BY <1>1, <1>7, <1>8

LEMMA NmiNext == LongFrame /\ MachineInv /\ MachineInv' /\ IrqInv /\ NmiInv /\ [Next]_vars => NmiInv'
<1> SUFFICES ASSUME LongFrame, MachineInv, MachineInv', IrqInv, NmiInv, [Next]_vars PROVE NmiInv'
  OBVIOUS
<1>1. CASE Reset
  <2>1. cpu.I \in BOOLEAN
    BY DEF MachineInv, CpuOK, CpuState
  <2>2. /\ cpu'.op = "fetch" /\ cpu'.active = "reset" /\ ~cpu'.latch /\ ~cpu'.output /\ ~cpu'.nmi_prev
        /\ ~owed' /\ nmi_wait' = 0 /\ ppu' = PpuReset
    BY <1>1, <2>1, CpuResetOK DEF Reset
  <2>3. cpu'.nmi_prev = ppu'.nmi
    <3>1. cpu'.nmi_prev = FALSE
      BY <1>1, <2>1 DEF Reset, CpuReset
    <3> QED BY <2>2, <3>1 DEF PpuReset
  <2>4. nmi_wait' <= MostBegun'
    BY <2>2 DEF MostBegun
  <2> QED BY <2>2, <2>3, <2>4 DEF NmiInv
<1>2. CASE Next /\ ~Reset
  <2>1. PICK short, reads, irq, p, q : Turn(short, p, q, reads, irq)
    BY <1>2, SomeTurn
  <2> QED BY <2>1, NmiTurn DEF Turn
<1>3. CASE UNCHANGED vars
  BY <1>3 DEF vars, NmiInv, MostBegun
<1> QED BY <1>1, <1>2, <1>3

\* sample_nmi_pin, the deferred detection and op_brk's vector: an edge on /NMI stays
\* latched until its handler is entered, in another interrupt's sequence, a branch
\* that does not poll or a transfer as well, and two instructions later at the
\* latest, the entry among them; provided that the frame is long against an
\* instruction and a transfer, so that one flag's handler is entered before the next
\* flag is set, and that the bound is not less than two.
THEOREM NmiIsServed ==
  ASSUME LongFrame, MaxNmiWait >= 2
  PROVE  Spec => []NmiServed
<1>1. Init => NmiInv
  <2> SUFFICES ASSUME Init PROVE NmiInv
    OBVIOUS
  <2>1. PICK I \in BOOLEAN : cpu = CpuReset(I)
    BY DEF Init
  <2>2. /\ cpu.op = "fetch" /\ cpu.active = "reset" /\ ~cpu.latch /\ ~cpu.output
        /\ ~owed /\ nmi_wait = 0 /\ ppu = PpuReset
    BY <2>1, CpuResetOK DEF Init
  <2>3. cpu.nmi_prev = ppu.nmi
    <3>1. cpu.nmi_prev = FALSE
      BY <2>1 DEF CpuReset
    <3> QED BY <2>2, <3>1 DEF PpuReset
  <2>4. nmi_wait <= MostBegun
    BY <2>2 DEF MostBegun
  <2> QED BY <2>2, <2>3, <2>4 DEF NmiInv
<1>2. Init => IrqInv
  BY IrqInit
<1>3. MachineInv /\ NmiInv => NmiServed
  <2> SUFFICES ASSUME MachineInv, NmiInv PROVE NmiServed
    OBVIOUS
  <2>1. cpu.active = "nmi" => (Entering(cpu) <=> ~(cpu.op = "op_brk" /\ cpu.cycle > 3))
    BY DEF MachineInv, CpuOK, CpuState, NmiInv, Entering
  <2>2. nmi_wait <= MaxNmiWait
    <3>1. MostBegun \in 0 .. 2
      BY DEF MostBegun
    <3> QED BY <3>1, Limits DEF NmiInv, MachineInv, GhostOK
  <2> QED BY <2>1, <2>2 DEF NmiInv, NmiServed
<1>4. LongFrame
  OBVIOUS
<1>5. MachineInv /\ MachineInv' /\ IrqInv /\ NmiInv /\ [Next]_vars => NmiInv'
  BY <1>4, NmiNext
<1> QED BY <1>1, <1>2, <1>3, <1>5, MachineInit, MachineNext, IrqNext, PTL DEF Spec
=============================================================================
