-------------------------------- MODULE Fam65xx --------------------------------
(***************************************************************************)
(* How a 6502 of chip/cpu/fam65xx notices interrupts and enters their      *)
(* handlers: operators from CPU state to CPU state, one for each phase of  *)
(* a cycle.                                                                *)
(*                                                                         *)
(*    Phi2     process_interrupt_detection, and the deferred hijack        *)
(*    (the system serves the bus)                                          *)
(*    Sample   sample_nmi_pin                                              *)
(*    Phi1     the flag snapshot, and the handler of the instruction       *)
(*                                                                         *)
(* An instruction is its length and what it does to the I flag or to the   *)
(* pipeline; half_cycle is twice cycle.  RTI pulls whatever the program    *)
(* has on its stack.                                                       *)
(***************************************************************************)
EXTENDS Naturals

Interrupts == {"none", "brk", "irq", "nmi", "reset"}

\* cycles of an instruction after its opcode fetch; op_brk is also the entry
\* of every hardware interrupt
Length == [nop |-> 1, cli |-> 1, sei |-> 1, branch |-> 2, crossing |-> 3,
           absolute |-> 3, rti |-> 5, op_brk |-> 6]
Ops == DOMAIN Length

CpuState == [op : Ops \cup {"fetch"}, cycle : 0 .. 5,
             active : Interrupts,    \* active_interrupt
             hijack : BOOLEAN,       \* interrupt_hijack_pending_
             irqs : 0 .. 7,          \* interrupt_shift_register, the bits of IRQ
             nmi_prev : BOOLEAN, latch : BOOLEAN, output : BOOLEAN,
             I : BOOLEAN, I_sample : BOOLEAN,
             software : BOOLEAN,     \* brk_is_software_
             suppressed : BOOLEAN,   \* branch_irq_suppression_
             irq_at_poll : BOOLEAN, nmi_at_poll : BOOLEAN]

\* reset(): the dummy fetch, then op_brk for the vector; P keeps its I flag
CpuReset(I) ==
  [op |-> "fetch", cycle |-> 0, active |-> "reset", hijack |-> TRUE, irqs |-> 0,
   nmi_prev |-> FALSE, latch |-> FALSE, output |-> FALSE, I |-> I, I_sample |-> TRUE,
   software |-> FALSE, suppressed |-> FALSE, irq_at_poll |-> FALSE,
   nmi_at_poll |-> FALSE]

-----------------------------------------------------------------------------
(* PHI2 *)

\* the separator bit drops what is shifted out of the three
Shifted(cpu, irq) == (2 * cpu.irqs + (IF irq THEN 1 ELSE 0)) % 8

\* An NMI counts from the cycle after its latch; an IRQ from its third sample.
Detected(cpu, irq) ==
  CASE cpu.output -> "nmi"
    [] ~cpu.output /\ Shifted(cpu, irq) = 7 -> "irq"
    [] OTHER -> "none"

\* A taken branch within a page does not poll in its last cycle: at the fetch
\* after it only what the poll before had seen may be served.
CanHijackUnpolled(cpu) ==        \* mutant: forgets the poll
  cpu.op = "fetch" /\ ~cpu.suppressed
CanHijack(cpu) ==
  /\ cpu.op = "fetch"
  /\ cpu.suppressed => cpu.irq_at_poll \/ cpu.nmi_at_poll

ShouldService(cpu, int) == int = "nmi" \/ (int = "irq" /\ ~cpu.I_sample)

Hijacks(cpu, irq) == CanHijack(cpu) /\ ShouldService(cpu, Detected(cpu, irq))

Phi2(cpu, nmi, irq) ==
  IF Hijacks(cpu, irq)
    THEN LET taken == [cpu EXCEPT !.active = Detected(cpu, irq), !.hijack = TRUE,
                                  !.software = FALSE, !.irqs = 0]
         IN IF taken.active = "nmi"
              THEN [taken EXCEPT !.nmi_prev = nmi, !.latch = FALSE, !.output = FALSE]
              ELSE [taken EXCEPT !.output = cpu.latch]
    ELSE [cpu EXCEPT !.irqs = Shifted(cpu, irq), !.output = cpu.latch]

-----------------------------------------------------------------------------
(* between the phases *)

Sample(cpu, nmi) ==
  [cpu EXCEPT !.latch = @ \/ (nmi /\ ~cpu.nmi_prev), !.nmi_prev = nmi]

-----------------------------------------------------------------------------
(* PHI1 *)

ToFetch(cpu) == [cpu EXCEPT !.op = "fetch", !.cycle = 0]

\* what a branch saw at its poll is read only at the fetch after it, and
\* dropped here
PollForgotten(cpu) ==
  [cpu EXCEPT !.suppressed = FALSE, !.irq_at_poll = FALSE, !.nmi_at_poll = FALSE]

\* fetch_opcode: into the pending interrupt, or the next instruction
Fetched(cpu, op) ==
  IF cpu.hijack
    THEN [PollForgotten(cpu) EXCEPT !.op = "op_brk", !.cycle = 0, !.hijack = FALSE]
    ELSE [PollForgotten(cpu) EXCEPT !.op = op, !.cycle = 0,
                                    !.software = (op = "op_brk")]

\* op_brk at T4: the vector is the NMI's if one was latched in time, whatever
\* started the sequence; only then is the latch cleared.
LatchAlwaysCleared(cpu, vector) == FALSE       \* mutant: by every sequence
LatchKept(cpu, vector) == cpu.latch /\ vector # "nmi"

AtVector(cpu, nmi) ==
  LET vector == IF cpu.output THEN "nmi" ELSE cpu.active
  IN [cpu EXCEPT !.active = vector, !.I = TRUE, !.irqs = 0,
                 !.latch = LatchKept(cpu, vector),
                 !.output = @ /\ vector # "nmi", !.nmi_prev = nmi]

Break(cpu, nmi) ==
  CASE cpu.cycle = 0 ->
         [cpu EXCEPT !.active = IF cpu.software /\ @ = "none" THEN "brk" ELSE @]
    [] cpu.cycle = 3 -> AtVector(cpu, nmi)
    [] cpu.cycle = 5 -> [cpu EXCEPT !.active = "none", !.output = FALSE]
    [] OTHER -> cpu

\* what an instruction does to the interrupt state in one of its cycles;
\* pulled is the I flag that RTI finds on the stack
Effect(cpu, nmi, pulled) ==
  CASE cpu.op = "cli" -> [cpu EXCEPT !.I = FALSE]
    [] cpu.op = "sei" -> [cpu EXCEPT !.I = TRUE]
    [] cpu.op \in {"branch", "crossing"} /\ cpu.cycle = 0 ->
         [cpu EXCEPT !.irq_at_poll = cpu.irqs % 4 = 3, !.nmi_at_poll = cpu.output]
    [] cpu.op = "branch" /\ cpu.cycle = 1 -> [cpu EXCEPT !.suppressed = TRUE]
    [] cpu.op = "rti" /\ cpu.cycle = 2 -> [cpu EXCEPT !.I = pulled]
    [] cpu.op = "rti" /\ cpu.cycle = 4 -> [cpu EXCEPT !.active = "none"]
    [] cpu.op = "op_brk" -> Break(cpu, nmi)
    [] OTHER -> cpu

Phi1(cpu, nmi, op, pulled) ==
  LET snapped == [cpu EXCEPT !.I_sample = cpu.I]
      done == Effect(snapped, nmi, pulled)
  IN IF cpu.op = "fetch" THEN Fetched(snapped, op)
     ELSE IF cpu.cycle + 1 = Length[cpu.op] THEN ToFetch(done)
     ELSE [done EXCEPT !.cycle = @ + 1]
==============================================================================
