------------------------------ MODULE Drive1541 ------------------------------
(***************************************************************************)
(* A Commodore machine and its cycle-accurate 1541 on the serial bus, one  *)
(* action per cycle of the machine: it puts its lines on the bus, the      *)
(* drive ticks - VIA timers and interrupt line, bus input, one access of   *)
(* the drive's CPU, mechanics, bus output - and the machine reads the bus. *)
(* Afterwards the warp controller looks at the motor.                      *)
(*                                                                         *)
(* Lines are named in the sets that pull them low.  The drive's CPU runs   *)
(* one of several programs, each known by the registers it touches and the *)
(* values it writes, in any order and at any time; the machine likewise.   *)
(***************************************************************************)
EXTENDS Via6522, DriveMechanics

CONSTANTS
  Programs,      \* what drive and machine may do: see Program
  Cooldown,      \* 200000: cycles without motor until the warp ends
  HostWord,      \* bound: the machine's cycles are counted modulo this
  MaxAge         \* bound: cycles since the load of timer 2 are counted to this

Chips     == {"via1", "via2"}
Lines     == {"ATN", "CLK", "DATA"}
PortBits1 == {"DATA_OUT", "CLK_OUT", "ATN_ACK"}
PortBits  == [c \in Chips |-> IF c = "via1" THEN PortBits1 ELSE PortBits2]
Registers == {"ORB", "ORA", "DDRB", "T1CL", "T1CH", "T1LL", "T1LH", "T2CL",
              "T2CH", "ACR", "PCR", "IFR", "IER"}

ASSUME DriveAssumption ==
  /\ \A p \in Programs :
       /\ p.chip \in Chips /\ p.registers \subseteq Registers
       /\ p.lines \subseteq SUBSET Lines
       /\ (p.ports \cup p.directions) \subseteq SUBSET PortBits[p.chip]
       /\ p.disks \subseteq {"insert", "eject"}
  /\ Cooldown \in Nat \ {0} /\ HostWord \in Nat /\ HostWord > Cooldown
  /\ MaxAge \in Nat /\ MaxAge > Word

VARIABLES
  program,               \* the one of Programs that runs
  host, drive_out,       \* the participants of the bus: lines they pull low
  host_in,               \* CIA 2 port A, bits 6 and 7: lines read high
  via,                   \* via1 and via2
  prev_atn,              \* TRUE: ATN was released
  irq,                   \* the interrupt line the CPU saw in this cycle
  mech,                  \* mechanics: DriveMechanics
  total_cycles,          \* of the machine
  warp,                  \* auto_warp_active_, last_active_cycle_
  atn_pending,           \* history: ATN was asserted and nobody answered
  lo_written,            \* history: byte last written to T1's low latch
  t2_age, t2_load, t2_fired,  \* history: T2 since it was loaded
  framed,                \* history: a sync mark was seen on this very track
  idle                   \* history: cycles without motor

bus     == <<host, drive_out, host_in, prev_atn>>
history == <<atn_pending, lo_written, t2_age, t2_load, t2_fired, framed, idle>>
vars == <<program, bus, via, irq, mech, total_cycles, warp, history>>

NoWarp   == [active |-> FALSE, last |-> 0]

(* What reset leaves, of the bus, the drive and the warp controller. *)
StateAfterReset(m) ==
  [via |-> [c \in Chips |-> ViaReset(PortBits[c])], mech |-> MechanicsReset(m)]

Init ==
  /\ program \in Programs
  /\ host = {} /\ drive_out = {} /\ host_in = {"CLK", "DATA"} /\ prev_atn = TRUE
  /\ via = StateAfterReset(NoDisk).via /\ mech = NoDisk
  /\ irq = FALSE
  /\ total_cycles = 0 /\ warp = NoWarp
  /\ atn_pending = FALSE /\ lo_written = Byte - 1
  /\ t2_age = 0 /\ t2_load = 0 /\ t2_fired = 0
  /\ framed = FALSE /\ idle = Cooldown

------------------------------------------------------------------------------
(* The parts of a cycle, in their order *)

SyncHostToIec == host' \in program.lines

AtnLow == "ATN" \in host'

Ticked == [c \in Chips |-> Tick(via[c])]

(* The falling edge of ATN sets CA1, past the tick of this cycle. *)
FallingEdge == prev_atn /\ AtnLow

Sampled ==
  [Ticked EXCEPT !["via1"].ifr = IF FallingEdge THEN @ \cup {"CA1"} ELSE @]

(* CLK, and DATA from the register or from ATN and its acknowledge bit,    *)
(* whose pin floats high while it is an input.                             *)
AtnOfLastCycle == "ATN" \in host
AtnAtOutput == AtnLow

AtnAck(v) == "ATN_ACK" \in v.ddrb => "ATN_ACK" \in v.orb

BusOutput(v) ==
  {l \in {"CLK", "DATA"} :
     \/ l = "CLK" /\ "CLK_OUT" \in OutputB(v)
     \/ l = "DATA" /\ ("DATA_OUT" \in OutputB(v) \/ AtnAck(v) # AtnAtOutput)}

SyncIecToHost == {"CLK", "DATA"} \ (host' \cup drive_out')

(* WarpController::update, once the drive has ticked. *)
CooledDownLate(cycle) == (cycle - warp.last) % HostWord > Cooldown
CooledDown(cycle) == (cycle - warp.last) % HostWord >= Cooldown

WarpUpdate(active, cycle) ==
  IF active THEN [active |-> TRUE, last |-> cycle]
  ELSE [warp EXCEPT !.active = @ /\ ~CooledDown(cycle)]

(* SOE, as the byte-ready circuit takes it from CB2: set high, or low. *)
Soe(v) == v.cb2_out

Min2(a, b) == IF a <= b THEN a ELSE b

T2Expired == T2Expires(via["via2"])

(* The head stands behind a sync mark of the track it reads. *)
OnMark(m) ==
  LET n == NumBits(TrackOf(m)) IN
  /\ m.cached = TrackOf(m) /\ n > 0
  /\ \A i \in 1 .. SyncBits : Track[TrackOf(m)][((m.pos - i) % n) + 1] = 1

(* A cycle in which the CPU makes an access that leaves the chips as vias  *)
(* and the mechanics as m; the byte that becomes ready sets CA1 of VIA 2.  *)
Cycle(vias, m) ==
  LET turned == Advance(m) IN
  /\ irq' = \E c \in Chips : Tick(via[c]).irq
  /\ prev_atn' = ~AtnLow
  /\ via' = [vias EXCEPT !["via2"].ifr =
               IF ByteComes(m) /\ Soe(vias["via2"]) THEN @ \cup {"CA1"} ELSE @]
  /\ drive_out' = BusOutput(vias["via1"])
  /\ host_in' = SyncIecToHost
  /\ mech' = MechanicsUpdate(turned, OutputB(vias["via2"]))
  /\ total_cycles' = (total_cycles + 1) % HostWord
  /\ warp' = WarpUpdate(mech'.motor, total_cycles')
  /\ idle' = IF mech'.motor THEN 0 ELSE Min2(idle + 1, Cooldown)
  /\ framed' = /\ mech'.half = mech.half
               /\ mech'.dirty = mech.dirty
               /\ framed \/ (mech'.sync /\ OnMark(mech'))
  /\ UNCHANGED program

------------------------------------------------------------------------------
(* The history a cycle adds to *)

AtnHistory(answered) ==
  atn_pending' = ((atn_pending \/ (AtnLow /\ "ATN" \notin host)) /\ ~answered)

T2History ==
  /\ t2_age' = IF T2Counts(via["via2"]) THEN Min2(t2_age + 1, MaxAge) ELSE t2_age
  /\ t2_fired' = IF T2Expired THEN Min2(t2_fired + 1, 2) ELSE t2_fired
  /\ UNCHANGED t2_load

NoHistory == AtnHistory(FALSE) /\ T2History /\ UNCHANGED lo_written

------------------------------------------------------------------------------
(* The CPU's accesses *)

Mine == program.chip
Touches(reg) == reg \in program.registers

Access(v) == Cycle([Sampled EXCEPT ![Mine] = v], mech)

NoAccessCycle ==
  /\ SyncHostToIec
  /\ Cycle(Sampled, mech)
  /\ NoHistory

(* Port A of VIA 2 is the byte under the head; reading it takes it. *)
ReadOra ==
  /\ Touches("ORA") /\ SyncHostToIec
  /\ Cycle([Sampled EXCEPT ![Mine] = ReadPortA(@)],
           IF Mine = "via2" THEN [mech EXCEPT !.ready = FALSE] ELSE mech)
  /\ AtnHistory(Mine = "via1") /\ T2History /\ UNCHANGED lo_written

ReadOrb ==
  /\ Touches("ORB") /\ SyncHostToIec
  /\ Access(ReadPortB(Sampled[Mine]))
  /\ NoHistory

(* Port B of VIA 2 moves the mechanics at once, not after this cycle's bit. *)
WriteOrb ==
  /\ Touches("ORB") /\ SyncHostToIec
  /\ \E bits \in program.ports :
       \E v \in {WritePortB(Sampled[Mine], bits)} :
         Cycle([Sampled EXCEPT ![Mine] = v],
               IF Mine = "via2" THEN MechanicsUpdate(mech, OutputB(v)) ELSE mech)
  /\ NoHistory

WriteDdrb ==
  /\ Touches("DDRB") /\ SyncHostToIec
  /\ \E bits \in program.directions :
       Access(WriteDdrB(Sampled[Mine], bits))
  /\ NoHistory

Bytes == 0 .. Byte - 1

ReadT1 ==
  /\ Touches("T1CL") /\ SyncHostToIec
  /\ Access(ReadT1CL(Sampled[Mine]))
  /\ NoHistory

ReadT2 ==
  /\ Touches("T2CL") /\ SyncHostToIec
  /\ Access(ReadT2CL(Sampled[Mine]))
  /\ NoHistory

WriteT1Lo ==
  /\ SyncHostToIec
  /\ \E b \in Bytes :
       /\ \/ Touches("T1CL") /\ Access(WriteT1CL(Sampled[Mine], b))
          \/ Touches("T1LL") /\ Access(WriteT1LL(Sampled[Mine], b))
       /\ lo_written' = b
  /\ AtnHistory(FALSE) /\ T2History

WriteT1Hi ==
  /\ Touches("T1LH") /\ SyncHostToIec
  /\ \E b \in Bytes : Access(WriteT1LH(Sampled[Mine], b))
  /\ NoHistory

LoadT1 ==
  /\ Touches("T1CH") /\ SyncHostToIec
  /\ \E b \in Bytes : Access(WriteT1CH(Sampled[Mine], b))
  /\ NoHistory

WriteT2Lo ==
  /\ Touches("T2CL") /\ SyncHostToIec
  /\ \E b \in Bytes : Access(WriteT2CL(Sampled[Mine], b))
  /\ NoHistory

LoadT2 ==
  /\ Touches("T2CH") /\ SyncHostToIec
  /\ \E b \in Bytes : Access(WriteT2CH(Sampled[Mine], b))
  /\ IF Mine = "via2"
       THEN t2_age' = 0 /\ t2_fired' = 0 /\ t2_load' = via'["via2"].t2_counter
       ELSE T2History
  /\ AtnHistory(FALSE) /\ UNCHANGED lo_written

WriteControl ==
  /\ SyncHostToIec
  /\ \/ /\ Touches("ACR")
        /\ \E continuous, pulses \in BOOLEAN :
             Access(WriteAcr(Sampled[Mine], continuous, pulses))
     \/ /\ Touches("PCR")
        /\ \E cb2_out \in BOOLEAN : Access(WritePcr(Sampled[Mine], cb2_out))
     \/ /\ Touches("IER")
        /\ \E set \in BOOLEAN :
             Access(WriteIer(Sampled[Mine], set, Flags))
  /\ NoHistory

ClearFlags ==
  /\ Touches("IFR") /\ SyncHostToIec
  /\ \E fs \in {{"CA1"}, Flags} :
       /\ Access(WriteIfr(Sampled[Mine], fs))
       /\ AtnHistory(Mine = "via1" /\ "CA1" \in fs)
  /\ T2History /\ UNCHANGED lo_written

------------------------------------------------------------------------------
(* Between two frames: a reset of the machine, a disk *)

Reset ==
  /\ LET s == StateAfterReset(mech) IN via' = s.via /\ mech' = s.mech
  /\ host' = {} /\ drive_out' = {} /\ prev_atn' = TRUE
  /\ irq' = FALSE
  /\ total_cycles' = 0 /\ warp' = NoWarp
  /\ atn_pending' = FALSE /\ lo_written' = Byte - 1
  /\ t2_age' = 0 /\ t2_load' = 0 /\ t2_fired' = 0
  /\ framed' = FALSE /\ idle' = Cooldown
  /\ UNCHANGED <<program, host_in>>

InsertDisk ==
  /\ "insert" \in program.disks
  /\ mech' = [mech EXCEPT !.loaded = TRUE, !.dirty = TRUE]
  /\ framed' = FALSE
  /\ UNCHANGED <<program, bus, via, irq, total_cycles, warp, atn_pending,
                 lo_written, t2_age, t2_load, t2_fired, idle>>

EjectDisk ==
  /\ "eject" \in program.disks /\ mech.loaded
  /\ mech' = [mech EXCEPT !.loaded = FALSE, !.dirty = TRUE]
  /\ framed' = FALSE
  /\ UNCHANGED <<program, bus, via, irq, total_cycles, warp, atn_pending,
                 lo_written, t2_age, t2_load, t2_fired, idle>>

CpuAccess == \/ ReadOra \/ ReadOrb \/ WriteOrb \/ WriteDdrb \/ ReadT1
             \/ ReadT2 \/ WriteT1Lo \/ WriteT1Hi \/ LoadT1 \/ WriteT2Lo
             \/ LoadT2 \/ WriteControl \/ ClearFlags

Next == NoAccessCycle \/ CpuAccess \/ Reset \/ InsertDisk \/ EjectDisk

Spec == Init /\ [][Next]_vars

------------------------------------------------------------------------------
Positions == {0} \cup UNION {0 .. NumBits(t) - 1 : t \in DOMAIN Track}

MechanicsType ==
  [half : FirstHalf .. LastHalf, motor : BOOLEAN, zone : 0 .. 3, phase : 0 .. 3,
   pos : Positions, ue7 : 0 .. RefTicks - 1, uf4 : 0 .. 3,
   cached : {0} \cup (1 .. LastHalf), window : [1 .. SyncBits -> {0, 1}],
   bits : 0 .. ByteBits - 1, byte : [1 .. ByteBits -> {0, 1}],
   sync : BOOLEAN, ready : BOOLEAN, loaded : BOOLEAN, dirty : BOOLEAN]

TypeOK ==
  /\ program \in Programs
  /\ host \subseteq Lines /\ drive_out \subseteq {"CLK", "DATA"}
  /\ host_in \subseteq {"CLK", "DATA"} /\ prev_atn \in BOOLEAN
  /\ \A c \in Chips : via[c] \in ViaType(PortBits[c])
  /\ irq \in BOOLEAN
  /\ mech \in MechanicsType
  /\ total_cycles \in 0 .. HostWord - 1
  /\ warp \in [active : BOOLEAN, last : 0 .. HostWord - 1]
  /\ atn_pending \in BOOLEAN /\ lo_written \in Bytes
  /\ t2_age \in 0 .. MaxAge /\ t2_load \in 0 .. Word - 1 /\ t2_fired \in 0 .. 2
  /\ framed \in BOOLEAN /\ idle \in 0 .. Cooldown

IsCycle == total_cycles' # total_cycles /\ ~Reset

(* No flag of either VIA goes away, and no interrupt line with it, but by  *)
(* an access to the register that acknowledges this flag: not by reading   *)
(* the flags, by the other timer or port, by a mode or an enable bit       *)
(* (mos6522_t's register accesses and tick).  And the drive has the flag   *)
(* of every call of the machine, however the edge of ATN falls between the *)
(* VIA's tick and the CPU's access: an enabled one interrupts until the    *)
(* program answers (C1541System::tick, iec_update_via1_input).             *)
Acknowledged(f) ==
  \/ ClearFlags
  \/ f = "T1" /\ (ReadT1 \/ LoadT1)
  \/ f = "T2" /\ (ReadT2 \/ LoadT2)
  \/ f \in {"CA1", "CA2"} /\ ReadOra
  \/ f \in {"CB1", "CB2"} /\ (ReadOrb \/ WriteOrb)

Called(c) == IF c = "via1" /\ atn_pending THEN {"CA1"} ELSE {}

InterruptUntilAcknowledged ==
  [][\A c \in Chips : \A f \in via[c].ifr \cup Called(c) : IsCycle =>
       /\ f \in via[c].ier => irq'
       /\ f \in via'[c].ifr \/ (c = Mine /\ Acknowledged(f))]_vars

(* The drive answers ATN in the very cycle it is asserted: what the        *)
(* machine reads of DATA follows from ATN as it is now and from the        *)
(* drive's acknowledge bit as it is now (the truth table of                *)
(* iec_update_bus_output, through sync_iec_to_host).                       *)
AtnAnsweredAtOnce ==
  LET v == via["via1"] IN
  "ATN" \in host =>
    /\ ~AtnAck(v) => "DATA" \notin host_in
    /\ AtnAck(v) /\ "DATA_OUT" \notin OutputB(v) /\ "DATA" \notin host =>
         "DATA" \in host_in

(* Timer 2 interrupts once for each time it is loaded, after as many       *)
(* cycles as the load says and one, in which it was not counting pulses    *)
(* ("timer 2 is always one-shot": mos6522_t::tick).                        *)
T2FiresOnce == t2_fired = IF t2_age > t2_load THEN 1 ELSE 0

(* Bytes are cut from the track where the track says: counted from the     *)
(* last sync mark, whatever the speed zone, a stopped motor and the turns  *)
(* of the disk do in between (gcr_advance).  Mark: the bits up to the      *)
(* position k before the head are all ones.                                *)
BitBefore(k) ==
  LET n == NumBits(TrackOf(mech)) IN Track[TrackOf(mech)][((mech.pos - k - 1) % n) + 1]
IsMark(k) == \A i \in 0 .. SyncBits - 1 : BitBefore(k + i) = 1
FromMark  == CHOOSE k \in 0 .. NumBits(TrackOf(mech)) :
               IsMark(k) /\ \A j \in 0 .. k - 1 : ~IsMark(j)

BytesFramed ==
  framed /\ ~mech.sync =>
    /\ mech.bits = FromMark % ByteBits
    /\ FromMark >= ByteBits =>
         \A i \in 1 .. ByteBits :
           mech.byte[i] = BitBefore(mech.bits + ByteBits - i)

(* The machine warps from the cycle the motor starts until it has been off *)
(* for Cooldown cycles, also across a reset, which sets the cycle counter  *)
(* back (WarpController::update and reset).                                *)
WarpFollowsMotor == warp.active <=> idle < Cooldown

(* What was written to timer 1's low latch is in it, by the register at    *)
(* 4 as by the one at 6 (memorymap.txt: "Timer 1, low byte latch").        *)
T1LowByteWritten == Lo(via[program.chip].t1_latch) = lo_written
==============================================================================
