------------------------------- MODULE Via6522 -------------------------------
(***************************************************************************)
(* The MOS 6522 VIA as the 1541 and the VIC-20 use it: a tick advances the *)
(* timers and decides about the interrupt line, and after it the CPU may   *)
(* read or write one register.  One operator per register access, each     *)
(* from a chip's state to its next.  A counter is two bytes, a byte has    *)
(* Byte values; flags and port bits are sets of their names.               *)
(*                                                                         *)
(* Left out: the shift register, which shifts nothing, port A's data, and  *)
(* the CA1 and CB1 pins, which stay high where the drive is concerned.     *)
(***************************************************************************)
EXTENDS Integers

CONSTANT Byte      \* 256 in the code

ASSUME ViaAssumption == Byte \in Nat /\ Byte > 1

Word  == Byte * Byte
Flags == {"T1", "T2", "CB1", "CB2", "CA1", "CA2"}

Lo(n) == n % Byte
Hi(n) == n \div Byte
WithLo(n, b) == Hi(n) * Byte + b
WithHi(n, b) == b * Byte + Lo(n)

(* Of a chip whose port B has these bits: all inputs, the register all ones. *)
ViaReset(Bits) ==
  [t1_latch |-> Word - 1, t1_counter |-> Word - 1, t1_running |-> FALSE,
   t2_latch |-> Word - 1, t2_counter |-> Word - 1, t2_running |-> FALSE,
   t1_continuous |-> FALSE, t2_pulses |-> FALSE, cb2_out |-> FALSE,
   ifr |-> {}, irq |-> FALSE, ier |-> {},
   orb |-> Bits, ddrb |-> {}]

------------------------------------------------------------------------------
(* The tick *)

Negative(n) == n - 1
Less1(n) == (n - 1) % Word

T1Expires(v) == v.t1_running /\ v.t1_counter = 0
T2Counts(v)  == v.t2_running /\ ~v.t2_pulses
T2Expires(v) == T2Counts(v) /\ v.t2_counter = 0

T1Ticked(v) ==
  IF ~v.t1_running THEN v
  ELSE [v EXCEPT
         !.t1_counter = IF @ = 0 /\ v.t1_continuous THEN v.t1_latch ELSE Less1(@),
         !.ifr = IF T1Expires(v) THEN @ \cup {"T1"} ELSE @]

(* Timer 2 stops when it expires. *)
T2KeepsRunning(v) == v.t2_running
T2StillRunning(v) == v.t2_running /\ ~T2Expires(v)

T2Ticked(v) ==
  [v EXCEPT
    !.t2_counter = IF T2Counts(v) THEN Less1(@) ELSE @,
    !.t2_running = T2StillRunning(v),
    !.ifr = IF T2Expires(v) THEN @ \cup {"T2"} ELSE @]

Enabled(v) == v.ifr \cap v.ier # {}

(* Bit 7 of IFR, and with it the interrupt line of this cycle. *)
Tick(v) == LET w == T2Ticked(T1Ticked(v)) IN [w EXCEPT !.irq = Enabled(w)]

------------------------------------------------------------------------------
(* Register accesses *)

(* Clearing flags takes bit 7 away if nothing enabled is left. *)
Cleared(v, fs) ==
  LET w == [v EXCEPT !.ifr = @ \ fs] IN [w EXCEPT !.irq = @ /\ Enabled(w)]

PortBFlags == {"CB1", "CB2"}
PortAFlags == {"CA1", "CA2"}

ReadPortA(v) == Cleared(v, PortAFlags)
ReadPortB(v) == Cleared(v, PortBFlags)
ReadT1CL(v)  == Cleared(v, {"T1"})
ReadT2CL(v)  == Cleared(v, {"T2"})

WritePortB(v, bits) == Cleared([v EXCEPT !.orb = bits], PortBFlags)
WriteDdrB(v, bits)  == [v EXCEPT !.ddrb = bits]

(* No case of the register write names T1CL: it is an unknown register. *)
WriteT1CL(v, b) == v
WriteT1LL(v, b) == [v EXCEPT !.t1_latch = WithLo(@, b)]
WriteT1LH(v, b) == [v EXCEPT !.t1_latch = WithHi(@, b)]

FlagsOfBoth == {"T1", "T2"}
FlagsOfT1   == {"T1"}

WriteT1CH(v, b) ==
  LET latch == WithHi(v.t1_latch, b) IN
  Cleared([v EXCEPT !.t1_latch = latch, !.t1_counter = latch,
                    !.t1_running = TRUE], FlagsOfT1)

WriteT2CL(v, b) == [v EXCEPT !.t2_latch = WithLo(@, b)]
WriteT2CH(v, b) ==
  LET latch == WithHi(v.t2_latch, b) IN
  Cleared([v EXCEPT !.t2_latch = latch, !.t2_counter = latch,
                    !.t2_running = TRUE], {"T2"})

WriteAcr(v, continuous, pulses) ==
  [v EXCEPT !.t1_continuous = continuous, !.t2_pulses = pulses]

(* CB2 is a level the program sets, or an input or a handshake. *)
WritePcr(v, cb2_out) == [v EXCEPT !.cb2_out = cb2_out]

WriteIfr(v, fs) ==
  LET w == [v EXCEPT !.ifr = @ \ fs] IN [w EXCEPT !.irq = Enabled(w)]

(* Bit 7 of IFR stays until the next tick. *)
WriteIer(v, set, fs) == [v EXCEPT !.ier = IF set THEN @ \cup fs ELSE @ \ fs]

(* What port B drives: the register where the direction is out. *)
OutputB(v) == v.orb \cap v.ddrb

ViaType(Bits) ==
  [t1_latch : 0 .. Word - 1, t1_counter : 0 .. Word - 1, t1_running : BOOLEAN,
   t2_latch : 0 .. Word - 1, t2_counter : 0 .. Word - 1, t2_running : BOOLEAN,
   t1_continuous : BOOLEAN, t2_pulses : BOOLEAN, cb2_out : BOOLEAN,
   ifr : SUBSET Flags, irq : BOOLEAN, ier : SUBSET Flags,
   orb : SUBSET Bits, ddrb : SUBSET Bits]
==============================================================================
