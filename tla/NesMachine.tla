------------------------------ MODULE NesMachine ------------------------------
(***************************************************************************)
(* NintendoSystem::tick: the PPU's vertical blank, its NMI, a cartridge's  *)
(* IRQ, the DMA that stops the CPU, and the CPU that is told of them.      *)
(*                                                                         *)
(* The PPU is clocked in every tick, the CPU (or the DMA) in every third.  *)
(* Between two CPU cycles nothing but the PPU moves, so a step is the      *)
(* ticks up to and including the next CPU cycle.  The program is any:      *)
(* every fetch may find any instruction of Program, every absolute         *)
(* instruction may access memory or any of the registers below.            *)
(***************************************************************************)
EXTENDS Fam65xx

CONSTANTS
  FrameDots,   \* dots of a frame, from cycle 0 of the pre-render line
  VblDot,      \* scanline 241, cycle 1
  SkipDot,     \* the pre-render line's last but one
  DmaBytes,    \* 256
  Program,     \* the instructions the program is made of
  MaxNmiWait,  \* instructions that may begin before an interrupt is taken
  MaxIrqWait

ClearDot == 1  \* scanline -1, cycle 1

ASSUME NesAssumption ==
  /\ {FrameDots, VblDot, SkipDot, DmaBytes, MaxNmiWait, MaxIrqWait} \subseteq Nat \ {0}
  /\ ClearDot + 1 < SkipDot /\ SkipDot + 1 < VblDot /\ VblDot + 1 < FrameDots
  /\ Program \subseteq Ops

VARIABLES ppu, dma, mapper, cpu,
  cpu_div,     \* ticks before the next CPU cycle
  told,        \* ghost: what the program has read of this frame's flag
  armed,       \* ghost: NMIs were enabled ever since the flag was set
  hushed,      \* ghost: the flag was read in the cycle that first met it
  heard,       \* ghost: the flag's falling edge reached the CPU
  owed,        \* ghost: a falling edge was sampled, its handler not entered
  nmi_wait, irq_wait  \* ghosts: instructions begun since

vars == <<ppu, dma, mapper, cpu, cpu_div, told, armed, hushed, heard, owed,
          nmi_wait, irq_wait>>

PpuState == [dot : 0 .. FrameDots - 1,
             vbl : BOOLEAN,       \* vbl_flag_internal_, which drives the NMI
             status : BOOLEAN,    \* bit 7 of PPUSTATUS
             setting : BOOLEAN, clearing : BOOLEAN,  \* pending_vbl_set_, _clear_
             ctrl : BOOLEAN,      \* bit 7 of PPUCTRL
             nmi : BOOLEAN]       \* /NMI is low

PpuReset == [dot |-> 0, vbl |-> FALSE, status |-> FALSE, setting |-> FALSE,
             clearing |-> FALSE, ctrl |-> FALSE, nmi |-> FALSE]
DmaReset == [on |-> FALSE, dummy |-> TRUE, odd |-> FALSE, addr |-> 0]
MapperReset == [enabled |-> FALSE, active |-> FALSE]

-----------------------------------------------------------------------------
(* the PPU *)

Driven(p) == [p EXCEPT !.nmi = p.vbl /\ p.ctrl]    \* update_nmi_output

\* $2002 sees a change one dot after the NMI does
Committed(p) ==
  [p EXCEPT !.status = (@ \/ p.setting) /\ ~p.clearing,
            !.setting = FALSE, !.clearing = FALSE]

Flagged(p) ==
  CASE p.dot = VblDot -> Driven([p EXCEPT !.vbl = TRUE, !.setting = TRUE])
    [] p.dot = ClearDot -> Driven([p EXCEPT !.vbl = FALSE, !.clearing = TRUE])
    [] OTHER -> p

\* the odd frames that are rendered are a dot shorter; here any frame may be
AdvancedUnwrapped(p, short) ==            \* mutant: the last line never ends
  [p EXCEPT !.dot = @ + (IF short /\ @ = SkipDot THEN 2 ELSE 1)]
Advanced(p, short) ==
  [p EXCEPT !.dot = (@ + (IF short /\ @ = SkipDot THEN 2 ELSE 1)) % FrameDots]

Clock(p, short) == Advanced(Flagged(Committed(p)), short)

\* the PPU at the next CPU cycle
Clocked(short) ==
  IF cpu_div = 0 THEN Clock(ppu, short)
  ELSE Clock(Clock(Clock(ppu, short), short), short)

\* a read takes the flag, and overtakes one that is only about to be set
\* (status_read_last_dot_ was meant for this, but the test of it comes too late)
StatusReadKeepsPending(p) ==              \* mutant: the flag is set after it
  Driven([p EXCEPT !.status = FALSE, !.vbl = FALSE])
StatusRead(p) == Driven([p EXCEPT !.status = FALSE, !.vbl = FALSE, !.setting = FALSE])

CtrlWritten(p, enable) == Driven([p EXCEPT !.ctrl = enable])

-----------------------------------------------------------------------------
(* the ghosts: what a frame's flag has come to, from its setting to its end *)

InVblank(p) == p.dot > VblDot \/ p.dot <= ClearDot
Visible(p) == p.dot > VblDot + 1 \/ p.dot <= ClearDot + 1

Met(p) == p.vbl /\ ~ppu.vbl           \* the flag was set on the way to this cycle
Over(p) == ~InVblank(p) /\ ~Visible(p)
Before(p) ==
  CASE Met(p) -> "due"
    [] Over(p) -> "none"
    [] OTHER -> told

\* the flag as a read at this cycle finds it
Answered(p) ==
  CASE p.status -> "read"
    [] ~p.status /\ p.setting -> "raced"
    [] OTHER -> Before(p)

\* p at the start of the cycle, q after what the cycle accessed
Witness(p, q, reads) ==
  /\ told' = IF reads THEN Answered(p) ELSE Before(p)
  /\ armed' = (q.ctrl /\ ~Over(p) /\ IF Met(p) THEN p.ctrl ELSE armed)
  /\ hushed' = (~Over(p) /\ IF Met(p) THEN reads ELSE hushed)
  /\ heard' = (~Over(p) /\ ((q.nmi /\ ~ppu.nmi) \/ (heard /\ ~Met(p))))

Begins == cpu.op = "fetch" /\ cpu'.op # "fetch"   \* the fetch became something
Begun(wait, most) == IF Begins /\ wait <= most THEN wait + 1 ELSE wait

\* the sequence that is in its fourth cycle loads the NMI's vector
EntersNmi == cpu.op = "op_brk" /\ cpu.cycle = 3 /\ cpu'.active = "nmi"

Waiting(irq, q) ==
  LET edge == q.nmi /\ ~ppu.nmi
      hijacked == Begins /\ cpu'.active # "none"
  IN /\ owed' = (edge \/ (owed /\ ~EntersNmi))
     /\ nmi_wait' = IF owed' /\ ~edge THEN Begun(nmi_wait, MaxNmiWait) ELSE 0
     /\ irq_wait' = IF irq /\ ~hijacked /\ ~(cpu.op = "fetch" /\ cpu.I_sample)
                      THEN Begun(irq_wait, MaxIrqWait) ELSE 0

-----------------------------------------------------------------------------
(* a CPU cycle *)

\* the counter of a cartridge that may interrupt reaches zero, or does not
Counted(m) == IF m.enabled THEN {m, [m EXCEPT !.active = TRUE]} ELSE {m}

\* The lines as they are before the access are what PHI2 detects; the NMI as
\* it is after the access is what the edge detector samples.
Run(p, q, m) ==
  LET atPhi2 == Phi2(cpu, p.nmi, m.active)
      sampled == Sample(atPhi2, q.nmi)
  IN /\ ~dma.on
     /\ \E op \in IF cpu.op = "fetch" THEN Program ELSE {cpu.op},
           pulled \in IF cpu.op = "rti" THEN BOOLEAN ELSE {FALSE} :
          cpu' = Phi1(sampled, q.nmi, op, pulled)
     /\ ppu' = q
     /\ cpu_div' = 2
     /\ Waiting(m.active, q)

AtAccess == cpu.op = "absolute" /\ cpu.cycle = 2

Cycle ==
  \E short \in BOOLEAN, m \in Counted(mapper) :
    LET p == Clocked(short)
    IN Run(p, p, m) /\ mapper' = m /\ Witness(p, p, FALSE) /\ UNCHANGED dma

ReadStatus ==
  \E short \in BOOLEAN, m \in Counted(mapper) :
    LET p == Clocked(short)
    IN /\ AtAccess
       /\ Run(p, StatusRead(p), m)
       /\ mapper' = m
       /\ Witness(p, StatusRead(p), TRUE)
       /\ UNCHANGED dma

WriteCtrl ==
  \E short \in BOOLEAN, m \in Counted(mapper), enable \in BOOLEAN :
    LET p == Clocked(short)
        q == CtrlWritten(p, enable)
    IN AtAccess /\ Run(p, q, m) /\ mapper' = m /\ Witness(p, q, FALSE) /\ UNCHANGED dma

StartDma ==
  \E short \in BOOLEAN, m \in Counted(mapper) :
    LET p == Clocked(short)
    IN /\ AtAccess
       /\ Run(p, p, m)
       /\ dma' = [dma EXCEPT !.on = TRUE, !.addr = 0]
       /\ mapper' = m
       /\ Witness(p, p, FALSE)

\* $E000 forgets a pending IRQ, $E001 does not raise one
WriteMapper ==
  \E short \in BOOLEAN, m \in Counted(mapper), enable \in BOOLEAN :
    LET p == Clocked(short)
    IN /\ AtAccess
       /\ Run(p, p, m)
       /\ mapper' = [enabled |-> enable, active |-> enable /\ m.active]
       /\ Witness(p, p, FALSE)
       /\ UNCHANGED dma

-----------------------------------------------------------------------------
(* a cycle of the DMA: the CPU stands still, but for its edge detector *)

Transferred ==
  CASE dma.dummy -> [dma EXCEPT !.dummy = ~dma.odd]
    [] ~dma.dummy /\ ~dma.odd -> dma                            \* the read
    [] ~dma.dummy /\ dma.odd ->                                 \* the write
         [dma EXCEPT !.addr = (@ + 1) % DmaBytes,
                     !.on = (dma.addr + 1) % DmaBytes # 0,
                     !.dummy = (dma.addr + 1) % DmaBytes = 0]

DmaCycle ==
  /\ dma.on
  /\ dma' = [Transferred EXCEPT !.odd = ~@]
  /\ \E short \in BOOLEAN, m \in Counted(mapper) :
       LET p == Clocked(short)
       IN /\ ppu' = p
          /\ cpu' = Sample(cpu, p.nmi)
          /\ mapper' = m
          /\ Witness(p, p, FALSE)
          /\ Waiting(m.active, p)
  /\ cpu_div' = 2

-----------------------------------------------------------------------------

\* reset(), between two frames: run_frame returns after the first dot of one
Reset ==
  /\ ppu.dot \in 1 .. 3
  /\ ppu' = PpuReset
  /\ cpu' = CpuReset(cpu.I)
  /\ dma' = DmaReset
  /\ mapper' = MapperReset
  /\ cpu_div' = 0
  /\ told' = "none" /\ armed' = FALSE /\ hushed' = FALSE /\ heard' = FALSE
  /\ owed' = FALSE /\ nmi_wait' = 0 /\ irq_wait' = 0

Init ==
  /\ ppu = PpuReset /\ dma = DmaReset /\ mapper = MapperReset
  /\ cpu \in {CpuReset(I) : I \in BOOLEAN}
  /\ cpu_div = 0
  /\ told = "none" /\ armed = FALSE /\ hushed = FALSE /\ heard = FALSE
  /\ owed = FALSE /\ nmi_wait = 0 /\ irq_wait = 0

Next ==
  Cycle \/ ReadStatus \/ WriteCtrl \/ StartDma \/ WriteMapper \/ DmaCycle \/ Reset

Spec == Init /\ [][Next]_vars

-----------------------------------------------------------------------------
(* properties *)

\* The state stays in range: the DMA's address and the dot wrap, and no
\* instruction runs past its last cycle.
TypeOK ==
  /\ ppu \in PpuState
  /\ dma \in [on : BOOLEAN, dummy : BOOLEAN, odd : BOOLEAN, addr : 0 .. DmaBytes - 1]
  /\ mapper \in [enabled : BOOLEAN, active : BOOLEAN]
  /\ cpu \in CpuState
  /\ cpu.cycle = 0 \/ cpu.cycle < Length[cpu.op]
  /\ cpu_div \in {0, 2}
  /\ told \in {"none", "due", "read", "raced"}
  /\ {armed, hushed, heard, owed} \subseteq BOOLEAN
  /\ nmi_wait \in 0 .. MaxNmiWait + 1
  /\ irq_wait \in 0 .. MaxIrqWait + 1

\* From the flag's dot to the pre-render line the program has the flag to read
\* exactly if it has neither read it nor asked in the one dot in which it is
\* set but not yet visible; and if NMIs are enabled all the while, the CPU gets
\* its edge exactly if the cycle that first met the flag did not read it.
VblankReported ==
  /\ ppu.vbl <=> (InVblank(ppu) /\ told = "due")
  /\ ppu.status <=> (Visible(ppu) /\ told = "due")
  /\ armed => (heard <=> ~hushed)

\* A falling edge of /NMI, whenever the CPU samples it (in another interrupt's
\* sequence, in a branch that does not poll, in a DMA), stays latched until
\* its handler is entered, at most MaxNmiWait instructions later; and no handler
\* is entered without one.
NmiServed ==
  /\ owed <=> (cpu.latch \/ (cpu.active = "nmi"
                               /\ ~(cpu.op = "op_brk" /\ cpu.cycle > 3)))
  /\ nmi_wait <= MaxNmiWait

\* An IRQ that is held low and not masked is taken within MaxIrqWait
\* instructions, even if all of them are branches whose last cycle does not
\* poll.
IrqServed == irq_wait <= MaxIrqWait
==============================================================================
