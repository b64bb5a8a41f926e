--------------------------- MODULE DriveMechanics ---------------------------
(***************************************************************************)
(* The mechanics of the 1541: the stepper motor that moves the head, the   *)
(* dividers that clock one bit of the track into the read window, and the  *)
(* framing of bits into bytes by sync marks.  Operators from one state of  *)
(* the mechanics to the next; Drive1541 applies them once a cycle.  A      *)
(* track is a sequence of bits, and a disk the tracks it has.  Widths are  *)
(* parameters with the code's values beside them.                          *)
(***************************************************************************)
EXTENDS Integers, Sequences

CONSTANTS
  SyncBits,                \* 10: ones in a row that make a sync mark
  ByteBits,                \* 8
  RefTicks,                \* 16: of the reference clock per cycle
  FirstHalf, LastHalf,     \* 2, 84: the half tracks the head can reach
  Track                    \* Track[t]: the bits of track t, where it has any

ASSUME MechanicsAssumption ==
  /\ SyncBits \in Nat /\ ByteBits \in 1 .. SyncBits
  /\ RefTicks \in Nat /\ RefTicks > 4
  /\ FirstHalf \in Nat /\ LastHalf \in Nat /\ 1 < FirstHalf /\ 2 \in FirstHalf .. LastHalf
  /\ \A t \in DOMAIN Track : Track[t] \in Seq({0, 1})

PortBits2 == {"phase0", "phase1", "motor", "zone0", "zone1"}

Bit(bits, name, weight) == IF name \in bits THEN weight ELSE 0
Phase(bits) == Bit(bits, "phase0", 1) + Bit(bits, "phase1", 2)
Zone(bits)  == Bit(bits, "zone0", 1) + Bit(bits, "zone1", 2)

NumBits(t) == IF t \in DOMAIN Track THEN Len(Track[t]) ELSE 0
TrackOf(m) == m.half \div 2

(* A reset of everything but the disk. *)
MechanicsReset(m) ==
  [half |-> 2, motor |-> FALSE, zone |-> 3, phase |-> 0, pos |-> 0,
   ue7 |-> 0, uf4 |-> 0, cached |-> 0,
   window |-> [i \in 1 .. SyncBits |-> 0],
   bits |-> 0, byte |-> [i \in 1 .. ByteBits |-> 1],
   sync |-> FALSE, ready |-> FALSE, loaded |-> m.loaded, dirty |-> m.dirty]

NoDisk == MechanicsReset([loaded |-> FALSE, dirty |-> TRUE])

------------------------------------------------------------------------------
(* What port B of VIA 2 drives: motor, density and stepper.  A step to a   *)
(* neighbouring phase moves the head, unless it is at the end of its way;  *)
(* any other step moves nothing.                                           *)
Turn(from, to) == (to - from) % 4

Stepped(half, from, to) ==
  LET next == IF Turn(from, to) = 1 THEN half + 1
              ELSE IF Turn(from, to) = 3 THEN half - 1 ELSE half
  IN IF next \in FirstHalf .. LastHalf THEN next ELSE half

MechanicsUpdate(m, port) ==
  [m EXCEPT
    !.motor = "motor" \in port,
    !.zone = Zone(port),
    !.half = Stepped(@, m.phase, Phase(port)),
    !.phase = Phase(port)]

------------------------------------------------------------------------------
(* The track under the head: encoding a new disk takes the head as it is,  *)
(* a move to another track scales the position.                            *)
EnsureTrack(m) ==
  LET t == TrackOf(m) IN
  IF m.dirty THEN [m EXCEPT !.dirty = FALSE, !.cached = t]
  ELSE IF t = m.cached THEN m
  ELSE [m EXCEPT
         !.cached = t,
         !.pos = IF NumBits(m.cached) > 0 /\ NumBits(t) > 0
                   THEN ((@ * NumBits(t)) \div NumBits(m.cached)) % NumBits(t)
                   ELSE 0]

(* UE7 divides the reference clock by RefTicks - zone, UF4 that by four; a *)
(* bit cell ends when UF4 comes to 2.                                      *)
Threshold(m) == RefTicks - m.zone
Overflows(m) == (m.ue7 + RefTicks) \div Threshold(m)
CellEnds(m)  == \E i \in 1 .. Overflows(m) : (m.uf4 + i) % 4 = 2

Clocked(m) == [m EXCEPT !.ue7 = (@ + RefTicks) % Threshold(m),
                        !.uf4 = (@ + Overflows(m)) % 4]

(* One bit into the window.  Ones all over it are a sync mark, which takes *)
(* back a byte that waits; the first zero after it is the first bit of a   *)
(* byte.                                                                   *)
AllOnes(w) == \A i \in DOMAIN w : w[i] = 1

ZeroNotCounted(m, sync) == ~m.sync
Counts(m, sync) == ~sync

Shifted(m) ==
  LET bit    == Track[TrackOf(m)][(m.pos % NumBits(TrackOf(m))) + 1]
      window == Append(Tail(m.window), bit)
      mark   == AllOnes(window)
      sync   == mark \/ (m.sync /\ bit = 1)
      bits   == IF mark THEN 0 ELSE IF Counts(m, sync) THEN m.bits + 1 ELSE m.bits
      whole  == bits >= ByteBits
  IN [m EXCEPT
       !.pos = (@ + 1) % NumBits(TrackOf(m)),
       !.window = window,
       !.sync = sync,
       !.bits = IF whole THEN 0 ELSE bits,
       !.byte = IF whole THEN SubSeq(window, SyncBits - ByteBits + 1, SyncBits)
                         ELSE @,
       !.ready = whole \/ (@ /\ ~mark)]

(* A cycle of a turning disk, and whether a byte became ready in it. *)
ReadsTrack(m) == NumBits(TrackOf(m)) > 0

Advance(m) ==
  IF ~m.motor \/ ~m.loaded THEN m
  ELSE LET n == EnsureTrack(m) IN
       IF ~ReadsTrack(n) THEN n
       ELSE IF CellEnds(n) THEN Shifted(Clocked(n)) ELSE Clocked(n)

ByteComes(m) ==
  LET n == EnsureTrack(m) IN
  /\ m.motor /\ m.loaded /\ ReadsTrack(n) /\ CellEnds(n)
  /\ LET s == Shifted(n) IN s.bits = 0 /\ ~s.sync
==============================================================================
