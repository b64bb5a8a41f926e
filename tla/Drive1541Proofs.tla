--------------------------- MODULE Drive1541Proofs ---------------------------
(***************************************************************************)
(* Theorems about Drive1541, for any width of a byte, any tracks, any      *)
(* programs and any cooldown.                                              *)
(***************************************************************************)
EXTENDS Drive1541, SequenceTheorems, TLAPS

-----------------------------------------------------------------------------
(* Quotients and remainders *)

LEMMA Scale ==
  ASSUME NEW n \in Nat, NEW a \in Int, NEW b \in Int, a <= b
  PROVE  a * n <= b * n
OBVIOUS

LEMMA DivMod ==
  ASSUME NEW n \in Nat \ {0}, NEW a \in Int
  PROVE  /\ a % n \in 0 .. n - 1 /\ a \div n \in Int
         /\ a = (a \div n) * n + (a % n)
OBVIOUS

\* Quotient and remainder are unique.
LEMMA ModUnique ==
  ASSUME NEW n \in Nat \ {0}, NEW q \in Int, NEW s \in 0 .. n - 1
  PROVE  (q * n + s) % n = s
<1> DEFINE a == q * n + s
<1>0. a \in Int /\ q * n \in Int
  OBVIOUS
<1> DEFINE e == a \div n
<1> DEFINE m == a % n
<1>1. m \in 0 .. n - 1 /\ e \in Int /\ a = e * n + m
  <2> HIDE DEF a
  <2> QED BY <1>0, DivMod
<1>2. a = q * n + s
  OBVIOUS
<1>e. e * n \in Int
  <2> HIDE DEF e
  <2> QED BY <1>1
<1> HIDE DEF a, e, m
<1>3. ~(e >= q + 1)
  <2> SUFFICES ASSUME e >= q + 1 PROVE FALSE
    OBVIOUS
  <2>1. (q + 1) * n <= e * n
    BY <1>1, Scale
  <2>2. (q + 1) * n = q * n + n
    OBVIOUS
  <2> QED BY <1>0, <1>1, <1>2, <1>e, <2>1, <2>2
<1>4. ~(e + 1 <= q)
  <2> SUFFICES ASSUME e + 1 <= q PROVE FALSE
    OBVIOUS
  <2>1. (e + 1) * n <= q * n
    BY <1>1, Scale
  <2>2. (e + 1) * n = e * n + n
    BY <1>1
  <2> QED BY <1>0, <1>1, <1>2, <1>e, <2>1, <2>2
<1>5. e = q
  BY <1>1, <1>3, <1>4
<1>6. e * n = q * n
  BY <1>5
<1>7. m = s
  BY <1>0, <1>1, <1>2, <1>6, <1>e
<1> QED BY <1>7 DEF m, a

\* Reducing an index early makes no difference to where it goes on from.
LEMMA ModAdd ==
  ASSUME NEW n \in Nat \ {0}, NEW a \in Int, NEW k \in Int
  PROVE  ((a % n) + k) % n = (a + k) % n
<1> DEFINE p == a \div n
<1> DEFINE x == a % n
<1>1. p \in Int /\ x \in 0 .. n - 1 /\ a = p * n + x
  BY DivMod
<1> DEFINE q == (x + k) \div n
<1> DEFINE y == (x + k) % n
<1>2. q \in Int /\ y \in 0 .. n - 1 /\ x + k = q * n + y
  <2> HIDE DEF x
  <2>1. x + k \in Int
    BY <1>1
  <2> QED BY <2>1, DivMod
<1> SUFFICES y = (a + k) % n
  OBVIOUS
<1> HIDE DEF p, x, q, y
<1>3. a + k = (p + q) * n + y /\ p + q \in Int
  <2>1. (p + q) * n = p * n + q * n /\ p * n \in Int /\ q * n \in Int
    BY <1>1, <1>2
  <2> QED BY <1>1, <1>2, <2>1
<1>4. ((p + q) * n + y) % n = y
  BY <1>2, <1>3, ModUnique
<1> QED BY <1>3, <1>4

-----------------------------------------------------------------------------
(* Words, and the registers of a chip *)

LEMMA Words ==
  /\ Byte \in Nat /\ Byte > 1 /\ Word \in Nat \ {0} /\ Word - 1 \in 0 .. Word - 1
  /\ 0 \in 0 .. Word - 1
  /\ \A n \in 0 .. Word - 1 : Less1(n) \in 0 .. Word - 1
<1>1. Byte \in Nat /\ Byte > 1
  BY ViaAssumption
<1>2. Word \in Nat \ {0}
  <2>1. Byte * Byte >= 1 * Byte
    BY <1>1, Scale
  <2> QED BY <1>1, <2>1 DEF Word
<1>3. ASSUME NEW n \in 0 .. Word - 1 PROVE Less1(n) \in 0 .. Word - 1
  BY <1>2, DivMod DEF Less1
<1> QED BY <1>1, <1>2, <1>3

LEMMA Halves ==
  ASSUME NEW n \in 0 .. Word - 1, NEW b \in 0 .. Byte - 1
  PROVE  WithLo(n, b) \in 0 .. Word - 1 /\ WithHi(n, b) \in 0 .. Word - 1
<1>1. Byte \in Nat \ {0} /\ n \in Int /\ Byte - 1 \in Int
  BY Words
<1> DEFINE h == n \div Byte
           l == n % Byte
<1>2. h \in Int /\ l \in 0 .. Byte - 1 /\ n = h * Byte + l
  BY <1>1, DivMod
<1>3. Word = (Byte - 1) * Byte + Byte
  BY <1>1 DEF Word
<1> HIDE DEF h, l
<1>4. h <= Byte - 1
  <2> SUFFICES ASSUME h >= Byte PROVE FALSE
    BY <1>1, <1>2
  <2>1. Byte * Byte <= h * Byte
    BY <1>1, <1>2, Scale
  <2> QED BY <1>1, <1>2, <2>1 DEF Word
<1>5. h >= 0
  <2> SUFFICES ASSUME h <= -1 PROVE FALSE
    BY <1>2
  <2>1. h * Byte <= (-1) * Byte
    BY <1>1, <1>2, Scale
  <2> QED BY <1>1, <1>2, <2>1
<1>6. ASSUME NEW q \in 0 .. Byte - 1, NEW r \in 0 .. Byte - 1
      PROVE  q * Byte + r \in 0 .. Word - 1
  <2>1. q * Byte <= (Byte - 1) * Byte /\ 0 * Byte <= q * Byte
    BY <1>1, Scale
  <2> DEFINE x == q * Byte
  <2> DEFINE y == (Byte - 1) * Byte
  <2>2. x \in Int /\ y \in Int /\ x <= y /\ 0 <= x /\ Word = y + Byte
    BY <1>1, <1>3, <2>1
  <2> HIDE DEF x, y
  <2>3. x + r \in 0 .. Word - 1
    BY <1>1, <2>2
  <2> QED BY <2>3 DEF x
<1>7. h \in 0 .. Byte - 1
  BY <1>1, <1>2, <1>4, <1>5
<1> QED BY <1>2, <1>6, <1>7 DEF WithLo, WithHi, Hi, Lo, h, l

\* No tick and no access takes a chip's registers out of their widths.
LEMMA TickType ==
  ASSUME NEW Bits, NEW v \in ViaType(Bits)
  PROVE  Tick(v) \in ViaType(Bits)
<1>1. T1Ticked(v) \in ViaType(Bits)
  <2>1. Less1(v.t1_counter) \in 0 .. Word - 1 /\ v.t1_latch \in 0 .. Word - 1
    BY Words DEF ViaType
  <2> QED BY <2>1 DEF ViaType, T1Ticked, Flags
<1>2. ASSUME NEW w \in ViaType(Bits) PROVE T2Ticked(w) \in ViaType(Bits)
  <2>1. Less1(w.t2_counter) \in 0 .. Word - 1
    BY Words DEF ViaType
  <2>2. T2StillRunning(w) \in BOOLEAN
    BY DEF T2StillRunning, ViaType
  <2> HIDE DEF Less1, T2StillRunning
  <2> QED BY <2>1, <2>2 DEF ViaType, T2Ticked, Flags
<1>3. ASSUME NEW w \in ViaType(Bits) PROVE [w EXCEPT !.irq = Enabled(w)] \in ViaType(Bits)
  BY DEF ViaType, Enabled
<1> QED BY <1>1, <1>2, <1>3 DEF Tick

LEMMA ClearedType ==
  ASSUME NEW Bits, NEW v \in ViaType(Bits), NEW fs
  PROVE  Cleared(v, fs) \in ViaType(Bits)
<1>1. [v EXCEPT !.ifr = @ \ fs] \in ViaType(Bits)
  BY DEF ViaType
<1>2. ASSUME NEW w \in ViaType(Bits)
      PROVE  [w EXCEPT !.irq = @ /\ Enabled(w)] \in ViaType(Bits)
  <2>1. (w.irq /\ Enabled(w)) \in BOOLEAN
    BY DEF ViaType, Enabled
  <2> QED BY <2>1 DEF ViaType
<1> QED BY <1>1, <1>2 DEF Cleared

LEMMA AccessTypes ==
  ASSUME NEW Bits, NEW v \in ViaType(Bits)
  PROVE  /\ {ReadPortA(v), ReadPortB(v), ReadT1CL(v), ReadT2CL(v)} \subseteq ViaType(Bits)
         /\ \A bits \in SUBSET Bits : WritePortB(v, bits) \in ViaType(Bits)
                                        /\ WriteDdrB(v, bits) \in ViaType(Bits)
         /\ \A b \in Bytes : {WriteT1CL(v, b), WriteT1LL(v, b), WriteT1LH(v, b),
                              WriteT1CH(v, b), WriteT2CL(v, b), WriteT2CH(v, b)}
                                \subseteq ViaType(Bits)
         /\ \A x, y \in BOOLEAN : WriteAcr(v, x, y) \in ViaType(Bits)
                                    /\ WritePcr(v, x) \in ViaType(Bits)
         /\ \A set \in BOOLEAN : WriteIer(v, set, Flags) \in ViaType(Bits)
         /\ \A fs : WriteIfr(v, fs) \in ViaType(Bits)
<1>1. {ReadPortA(v), ReadPortB(v), ReadT1CL(v), ReadT2CL(v)} \subseteq ViaType(Bits)
  BY ClearedType DEF ReadPortA, ReadPortB, ReadT1CL, ReadT2CL
<1>2. ASSUME NEW bits \in SUBSET Bits
      PROVE  WritePortB(v, bits) \in ViaType(Bits) /\ WriteDdrB(v, bits) \in ViaType(Bits)
  <2>1. [v EXCEPT !.orb = bits] \in ViaType(Bits) /\ [v EXCEPT !.ddrb = bits] \in ViaType(Bits)
    BY DEF ViaType
  <2> QED BY <2>1, ClearedType DEF WritePortB, WriteDdrB
<1>3. ASSUME NEW b \in Bytes
      PROVE  {WriteT1CL(v, b), WriteT1LL(v, b), WriteT1LH(v, b), WriteT1CH(v, b),
              WriteT2CL(v, b), WriteT2CH(v, b)} \subseteq ViaType(Bits)
  <2>1. /\ {WithLo(v.t1_latch, b), WithHi(v.t1_latch, b)} \subseteq 0 .. Word - 1
        /\ {WithLo(v.t2_latch, b), WithHi(v.t2_latch, b)} \subseteq 0 .. Word - 1
    BY Halves DEF ViaType, Bytes
  <2>2. ASSUME NEW n \in 0 .. Word - 1
        PROVE  /\ [v EXCEPT !.t1_latch = n] \in ViaType(Bits)
               /\ [v EXCEPT !.t2_latch = n] \in ViaType(Bits)
               /\ [v EXCEPT !.t1_latch = n, !.t1_counter = n, !.t1_running = TRUE]
                     \in ViaType(Bits)
               /\ [v EXCEPT !.t2_latch = n, !.t2_counter = n, !.t2_running = TRUE]
                     \in ViaType(Bits)
    BY DEF ViaType
  <2>3. {WriteT1CL(v, b), WriteT1LL(v, b), WriteT1LH(v, b), WriteT2CL(v, b)} \subseteq ViaType(Bits)
    BY <2>1, <2>2 DEF WriteT1CL, WriteT1LL, WriteT1LH, WriteT2CL
  <2>4. WriteT1CH(v, b) \in ViaType(Bits)
    BY <2>1, <2>2, ClearedType DEF WriteT1CH
  <2>5. WriteT2CH(v, b) \in ViaType(Bits)
    BY <2>1, <2>2, ClearedType DEF WriteT2CH
  <2> QED BY <2>3, <2>4, <2>5
<1>4. ASSUME NEW x \in BOOLEAN, NEW y \in BOOLEAN
      PROVE  WriteAcr(v, x, y) \in ViaType(Bits) /\ WritePcr(v, x) \in ViaType(Bits)
  BY DEF ViaType, WriteAcr, WritePcr
<1>5. ASSUME NEW set \in BOOLEAN PROVE WriteIer(v, set, Flags) \in ViaType(Bits)
  BY DEF ViaType, WriteIer
<1>6. ASSUME NEW fs PROVE WriteIfr(v, fs) \in ViaType(Bits)
  <2>1. [v EXCEPT !.ifr = @ \ fs] \in ViaType(Bits)
    BY DEF ViaType
  <2>2. ASSUME NEW w \in ViaType(Bits) PROVE [w EXCEPT !.irq = Enabled(w)] \in ViaType(Bits)
    BY DEF ViaType, Enabled
  <2> QED BY <2>1, <2>2 DEF WriteIfr
<1> QED BY <1>1, <1>2, <1>3, <1>4, <1>5, <1>6

-----------------------------------------------------------------------------
(* The mechanics *)

LEMMA Tracks ==
  ASSUME NEW t
  PROVE  /\ NumBits(t) \in Nat
         /\ NumBits(t) > 0 =>
              /\ t \in DOMAIN Track /\ 0 .. NumBits(t) - 1 \subseteq Positions
              /\ \A p \in Int : Track[t][(p % NumBits(t)) + 1] \in {0, 1}
<1>1. CASE t \in DOMAIN Track
  <2>1. Track[t] \in Seq({0, 1}) /\ NumBits(t) = Len(Track[t])
    BY <1>1, MechanicsAssumption DEF NumBits
  <2>2. NumBits(t) \in Nat /\ Track[t] \in [1 .. NumBits(t) -> {0, 1}]
    BY <2>1, LenProperties
  <2>3. 0 .. NumBits(t) - 1 \subseteq Positions
    BY <1>1 DEF Positions
  <2>4. ASSUME NumBits(t) > 0, NEW p \in Int
        PROVE  Track[t][(p % NumBits(t)) + 1] \in {0, 1}
    <3> DEFINE n == NumBits(t)
               r == p % n
    <3>0. n \in Nat \ {0}
      BY <2>2, <2>4
    <3>1. r \in 0 .. n - 1 /\ n \in Nat
      BY <3>0, DivMod
    <3> HIDE DEF n, r
    <3>2. r + 1 \in 1 .. n
      BY <3>1
    <3> QED BY <2>2, <3>2 DEF n, r
  <2> QED BY <1>1, <2>2, <2>3, <2>4
<1>2. CASE t \notin DOMAIN Track
  BY <1>2 DEF NumBits
<1> QED BY <1>1, <1>2

LEMMA ResetType ==
  /\ \A m \in MechanicsType : MechanicsReset(m) \in MechanicsType
  /\ NoDisk \in MechanicsType
<1> DEFINE zeros == [i \in 1 .. SyncBits |-> 0]
           ones == [i \in 1 .. ByteBits |-> 1]
<1>1. /\ 2 \in FirstHalf .. LastHalf /\ 0 \in Positions /\ 0 \in 0 .. RefTicks - 1
      /\ 0 \in 0 .. ByteBits - 1
      /\ zeros \in [1 .. SyncBits -> {0, 1}] /\ ones \in [1 .. ByteBits -> {0, 1}]
  BY MechanicsAssumption DEF Positions
<1>2. ASSUME NEW m, m.loaded \in BOOLEAN, m.dirty \in BOOLEAN
      PROVE  MechanicsReset(m) \in MechanicsType
  <2> HIDE DEF zeros, ones
  <2>1. MechanicsReset(m) =
          [half |-> 2, motor |-> FALSE, zone |-> 3, phase |-> 0, pos |-> 0, ue7 |-> 0,
           uf4 |-> 0, cached |-> 0, window |-> zeros, bits |-> 0, byte |-> ones,
           sync |-> FALSE, ready |-> FALSE, loaded |-> m.loaded, dirty |-> m.dirty]
    BY DEF MechanicsReset, zeros, ones
  <2> QED BY <1>1, <1>2, <2>1 DEF MechanicsType
<1>3. ASSUME NEW m \in MechanicsType PROVE m.loaded \in BOOLEAN /\ m.dirty \in BOOLEAN
  BY DEF MechanicsType
<1> DEFINE none == [loaded |-> FALSE, dirty |-> TRUE]
<1>4. none.loaded \in BOOLEAN /\ none.dirty \in BOOLEAN
  OBVIOUS
<1> HIDE DEF zeros, ones, none
<1>5. MechanicsReset(none) \in MechanicsType
  BY <1>2, <1>4
<1> QED BY <1>2, <1>3, <1>5 DEF NoDisk, none

\* The stepper, whatever the program writes to its port.
LEMMA UpdateType ==
  ASSUME NEW m \in MechanicsType, NEW port
  PROVE  MechanicsUpdate(m, port) \in MechanicsType
<1>1. Zone(port) \in 0 .. 3 /\ Phase(port) \in 0 .. 3
  BY DEF Zone, Phase, Bit
<1>2. Stepped(m.half, m.phase, Phase(port)) \in FirstHalf .. LastHalf
  <2>1. m.half \in FirstHalf .. LastHalf
    BY DEF MechanicsType
  <2> QED BY <2>1 DEF Stepped
<1>3. ASSUME NEW a \in BOOLEAN, NEW z \in 0 .. 3, NEW h \in FirstHalf .. LastHalf,
             NEW p \in 0 .. 3
      PROVE  [m EXCEPT !.motor = a, !.zone = z, !.half = h, !.phase = p] \in MechanicsType
  BY DEF MechanicsType
<1>4. ("motor" \in port) \in BOOLEAN
  OBVIOUS
<1> QED BY <1>1, <1>2, <1>3, <1>4 DEF MechanicsUpdate

LEMMA Heads ==
  ASSUME NEW m \in MechanicsType
  PROVE  TrackOf(m) \in 1 .. LastHalf
<1>1. m.half \in Nat /\ 2 <= m.half /\ m.half <= LastHalf /\ LastHalf \in Nat
  BY MechanicsAssumption DEF MechanicsType
<1> QED BY <1>1 DEF TrackOf

LEMMA EnsureType ==
  ASSUME NEW m \in MechanicsType
  PROVE  EnsureTrack(m) \in MechanicsType
<1> DEFINE t == TrackOf(m)
           n == NumBits(t)
           p == (m.pos * n) \div NumBits(m.cached)
           q == IF NumBits(m.cached) > 0 /\ n > 0 THEN p % n ELSE 0
<1>1. t \in {0} \cup (1 .. LastHalf)
  BY Heads
<1>2. q \in Positions
  <2>1. CASE NumBits(m.cached) > 0 /\ n > 0
    <3>1. m.pos \in Int
      <4>1. Positions \subseteq Int
        BY DEF Positions
      <4> QED BY <4>1 DEF MechanicsType
    <3>2. m.pos * n \in Int /\ n \in Nat \ {0} /\ NumBits(m.cached) \in Nat \ {0}
      BY <2>1, <3>1, Tracks
    <3>3. p \in Int
      BY <3>2, DivMod
    <3> HIDE DEF p
    <3>4. p % n \in 0 .. n - 1
      BY <3>2, <3>3, DivMod
    <3>5. 0 .. n - 1 \subseteq Positions
      BY <2>1, Tracks
    <3> QED BY <2>1, <3>4, <3>5
  <2>2. CASE ~(NumBits(m.cached) > 0 /\ n > 0)
    BY <2>2 DEF Positions
  <2> QED BY <2>1, <2>2
<1>3. EnsureTrack(m) = IF m.dirty THEN [m EXCEPT !.dirty = FALSE, !.cached = t]
                       ELSE IF t = m.cached THEN m ELSE [m EXCEPT !.cached = t, !.pos = q]
  BY DEF EnsureTrack
<1> HIDE DEF t, q
<1>4. [m EXCEPT !.dirty = FALSE, !.cached = t] \in MechanicsType
  BY <1>1 DEF MechanicsType
<1>5. [m EXCEPT !.cached = t, !.pos = q] \in MechanicsType
  BY <1>1, <1>2 DEF MechanicsType
<1> QED BY <1>3, <1>4, <1>5

\* The dividers, and the bit they let through.
LEMMA ClockedType ==
  ASSUME NEW m \in MechanicsType
  PROVE  Clocked(m) \in MechanicsType
<1>1. m.zone \in 0 .. 3 /\ m.ue7 \in 0 .. RefTicks - 1 /\ m.uf4 \in 0 .. 3
  BY DEF MechanicsType
<1>2. Threshold(m) \in 1 .. RefTicks /\ RefTicks \in Nat
  BY <1>1, MechanicsAssumption DEF Threshold
<1> DEFINE T == Threshold(m)
           x == m.ue7 + RefTicks
           u == x % T
           o == x \div T
           f == (m.uf4 + o) % 4
<1>3. u \in 0 .. RefTicks - 1 /\ o \in Int
  <2>1. x \in Int /\ T \in Nat \ {0} /\ T <= RefTicks
    BY <1>1, <1>2
  <2> HIDE DEF T, x
  <2>2. u \in 0 .. T - 1 /\ o \in Int
    BY <2>1, DivMod
  <2> QED BY <2>1, <2>2, <1>2
<1>4. f \in 0 .. 3
  <2> HIDE DEF o
  <2> QED BY <1>1, <1>3
<1>5. Clocked(m) = [m EXCEPT !.ue7 = u, !.uf4 = f]
  BY DEF Clocked, Overflows
<1> HIDE DEF u, f
<1> QED BY <1>3, <1>4, <1>5 DEF MechanicsType

BitUnderHead(m) == Track[TrackOf(m)][(m.pos % NumBits(TrackOf(m))) + 1]

LEMMA WindowTypes ==
  ASSUME NEW w \in [1 .. SyncBits -> {0, 1}], NEW b \in {0, 1}
  PROVE  LET x == Append(Tail(w), b) IN
         /\ x \in [1 .. SyncBits -> {0, 1}]
         /\ x[SyncBits] = b
         /\ \A i \in 1 .. SyncBits - 1 : x[i] = w[i + 1]
         /\ SubSeq(x, SyncBits - ByteBits + 1, SyncBits) \in [1 .. ByteBits -> {0, 1}]
         /\ \A i \in 1 .. ByteBits :
              SubSeq(x, SyncBits - ByteBits + 1, SyncBits)[i] = x[SyncBits - ByteBits + i]
<1> DEFINE x == Append(Tail(w), b)
<1>0. SyncBits \in Nat /\ ByteBits \in 1 .. SyncBits
  BY MechanicsAssumption
<1>1. w \in Seq({0, 1}) /\ Len(w) = SyncBits /\ w # <<>>
  <2>1. w \in Seq({0, 1})
    BY <1>0, SeqDef
  <2>2. Len(w) \in Nat /\ DOMAIN w = 1 .. Len(w)
    BY <2>1, LenProperties
  <2>3. 1 .. Len(w) = 1 .. SyncBits
    BY <2>2
  <2> QED BY <1>0, <2>1, <2>2, <2>3
<1>2. Tail(w) \in Seq({0, 1}) /\ Len(Tail(w)) = SyncBits - 1
        /\ \A i \in 1 .. SyncBits - 1 : Tail(w)[i] = w[i + 1]
  BY <1>1, HeadTailProperties
<1>3. x \in Seq({0, 1}) /\ Len(x) = SyncBits /\ x[SyncBits] = b
        /\ \A i \in 1 .. SyncBits - 1 : x[i] = Tail(w)[i]
  <2> DEFINE y == Tail(w)
  <2>1. y \in Seq({0, 1}) /\ Len(y) = SyncBits - 1
    BY <1>2
  <2> HIDE DEF y
  <2>2. Append(y, b) \in Seq({0, 1}) /\ Len(Append(y, b)) = SyncBits /\ Append(y, b)[SyncBits] = b
          /\ \A i \in 1 .. SyncBits - 1 : Append(y, b)[i] = y[i]
    BY <1>0, <2>1
  <2> QED BY <2>2 DEF y
<1>4. x \in [1 .. SyncBits -> {0, 1}]
  BY <1>3, LenProperties
<1> HIDE DEF x
<1> DEFINE a == SyncBits - ByteBits + 1
           s == SubSeq(x, a, SyncBits)
<1>5. a \in Int /\ SyncBits \in Int /\ 1 <= a /\ a <= SyncBits /\ SyncBits - a + 1 = ByteBits
  BY <1>0
<1>6. \A i \in a .. SyncBits : x[i] \in {0, 1}
  BY <1>0, <1>4
<1> HIDE DEF a
<1>7. /\ s \in Seq({0, 1}) /\ Len(s) = SyncBits - a + 1
      /\ \A i \in 1 .. SyncBits - a + 1 : s[i] = x[a + i - 1]
  BY <1>5, <1>6, SubSeqProperties
<1>8. s \in [1 .. ByteBits -> {0, 1}]
  BY <1>5, <1>7, LenProperties
<1>9. \A i \in 1 .. ByteBits : s[i] = x[SyncBits - ByteBits + i]
  BY <1>0, <1>5, <1>7 DEF a
<1> QED BY <1>2, <1>3, <1>4, <1>8, <1>9 DEF x, a

LEMMA ShiftedType ==
  ASSUME NEW m \in MechanicsType, NumBits(TrackOf(m)) > 0
  PROVE  /\ Shifted(m) \in MechanicsType
         /\ BitUnderHead(m) \in {0, 1}
<1> DEFINE n == NumBits(TrackOf(m))
           bit == BitUnderHead(m)
           window == Append(Tail(m.window), bit)
           mark == AllOnes(window)
           sync == mark \/ (m.sync /\ bit = 1)
           bits == IF mark THEN 0 ELSE IF Counts(m, sync) THEN m.bits + 1 ELSE m.bits
           whole == bits >= ByteBits
           pos == (m.pos + 1) % n
           byte == IF whole THEN SubSeq(window, SyncBits - ByteBits + 1, SyncBits) ELSE m.byte
           left == IF whole THEN 0 ELSE bits
           ready == whole \/ (m.ready /\ ~mark)
<1>0. m.pos \in Int
  <2>1. Positions \subseteq Int
    BY DEF Positions
  <2> QED BY <2>1 DEF MechanicsType
<1>1. bit \in {0, 1}
  BY <1>0, Tracks DEF BitUnderHead
<1>2. pos \in Positions
  <2>1. n \in Nat \ {0} /\ m.pos + 1 \in Int /\ 0 .. n - 1 \subseteq Positions
    BY <1>0, Tracks
  <2> HIDE DEF n
  <2>2. pos \in 0 .. n - 1
    BY <2>1, DivMod
  <2> QED BY <2>1, <2>2
<1>3. m.window \in [1 .. SyncBits -> {0, 1}] /\ m.byte \in [1 .. ByteBits -> {0, 1}]
        /\ m.bits \in 0 .. ByteBits - 1 /\ m.ready \in BOOLEAN /\ m.sync \in BOOLEAN
  BY DEF MechanicsType
<1>4. window \in [1 .. SyncBits -> {0, 1}] /\ byte \in [1 .. ByteBits -> {0, 1}]
  <2> HIDE DEF bit
  <2> QED BY <1>1, <1>3, WindowTypes
<1>5. left \in 0 .. ByteBits - 1
  <2>1. ByteBits \in Nat /\ ByteBits >= 1
    BY MechanicsAssumption
  <2> HIDE DEF mark, sync
  <2> QED BY <1>3, <2>1
<1>6. mark \in BOOLEAN /\ sync \in BOOLEAN /\ ready \in BOOLEAN
  BY <1>3 DEF AllOnes
<1>7. Shifted(m) = [m EXCEPT !.pos = pos, !.window = window, !.sync = sync, !.bits = left,
                             !.byte = byte, !.ready = ready]
  BY DEF Shifted, BitUnderHead
<1> HIDE DEF n, bit, window, mark, sync, bits, whole, pos, byte, left, ready
<1>8. Shifted(m) \in MechanicsType
  <2>1. [m EXCEPT !.pos = pos, !.window = window, !.sync = sync] \in MechanicsType
    BY <1>2, <1>4, <1>6 DEF MechanicsType
  <2> DEFINE k == [m EXCEPT !.pos = pos, !.window = window, !.sync = sync]
  <2>2. Shifted(m) = [k EXCEPT !.bits = left, !.byte = byte, !.ready = ready]
    BY <1>7
  <2>3. k \in MechanicsType
    BY <2>1
  <2> HIDE DEF k
  <2>4. [k EXCEPT !.bits = left, !.byte = byte, !.ready = ready] \in MechanicsType
    BY <1>4, <1>5, <1>6, <2>3 DEF MechanicsType
  <2> QED BY <2>2, <2>4
<1> QED BY <1>1, <1>8 DEF bit

LEMMA AdvanceType ==
  ASSUME NEW m \in MechanicsType
  PROVE  Advance(m) \in MechanicsType
<1> DEFINE n == EnsureTrack(m)
<1>1. n \in MechanicsType
  BY EnsureType
<1>2. Clocked(n) \in MechanicsType /\ TrackOf(Clocked(n)) = TrackOf(n)
  BY <1>1, ClockedType DEF Clocked, TrackOf, MechanicsType
<1> HIDE DEF n
<1>3. ReadsTrack(n) => Shifted(Clocked(n)) \in MechanicsType
  BY <1>2, ShiftedType DEF ReadsTrack
<1> QED BY <1>1, <1>2, <1>3 DEF Advance, n

-----------------------------------------------------------------------------
(* A cycle of the machine *)

\* TypeOK in four parts: the bus, the chips, the warp controller and the history.
BusType ==
  /\ program \in Programs
  /\ host \subseteq Lines /\ drive_out \subseteq {"CLK", "DATA"}
  /\ host_in \subseteq {"CLK", "DATA"} /\ prev_atn \in BOOLEAN
  /\ irq \in BOOLEAN

ChipType == \A c \in Chips : via[c] \in ViaType(PortBits[c])

WarpType ==
  /\ total_cycles \in 0 .. HostWord - 1
  /\ warp \in [active : BOOLEAN, last : 0 .. HostWord - 1]
  /\ idle \in 0 .. Cooldown

HistoryType ==
  /\ atn_pending \in BOOLEAN /\ lo_written \in Bytes
  /\ t2_age \in 0 .. MaxAge /\ t2_load \in 0 .. Word - 1 /\ t2_fired \in 0 .. 2
  /\ framed \in BOOLEAN

LEMMA TypeParts ==
  /\ TypeOK <=> BusType /\ ChipType /\ mech \in MechanicsType /\ WarpType /\ HistoryType
  /\ TypeOK' <=> BusType' /\ ChipType' /\ mech' \in MechanicsType /\ WarpType' /\ HistoryType'
BY DEF TypeOK, BusType, ChipType, WarpType, HistoryType

WellTyped(vias) == /\ vias = [c \in Chips |-> vias[c]]
                   /\ \A c \in Chips : vias[c] \in ViaType(PortBits[c])

LEMMA Programmed ==
  ASSUME TypeOK
  PROVE  /\ Mine \in Chips /\ PortBits["via1"] = PortBits1 /\ PortBits["via2"] = PortBits2
         /\ \A l \in program.lines : l \subseteq Lines
         /\ \A bits \in program.ports \cup program.directions : bits \subseteq PortBits[Mine]
BY DriveAssumption DEF TypeOK, Mine, PortBits, Chips

LEMMA SampledType ==
  ASSUME ChipType
  PROVE  WellTyped(Ticked) /\ WellTyped(Sampled)
<1>1. \A c \in Chips : Ticked[c] \in ViaType(PortBits[c])
  BY TickType DEF ChipType, Ticked
<1>2. WellTyped(Ticked)
  BY <1>1 DEF WellTyped, Ticked
<1>3. ASSUME NEW Bits, NEW v \in ViaType(Bits)
      PROVE  v.ifr \cup {"CA1"} \in SUBSET Flags /\ v.ifr \in SUBSET Flags
               /\ \A fs \in SUBSET Flags : [v EXCEPT !.ifr = fs] \in ViaType(Bits)
  BY DEF ViaType, Flags
<1> DEFINE fs == IF FallingEdge THEN Ticked["via1"].ifr \cup {"CA1"} ELSE Ticked["via1"].ifr
           w == [Ticked["via1"] EXCEPT !.ifr = fs]
<1>4. w \in ViaType(PortBits["via1"])
  <2>1. "via1" \in Chips
    BY DEF Chips
  <2>2. Ticked["via1"] \in ViaType(PortBits["via1"])
    BY <1>1, <2>1
  <2> QED BY <1>3, <2>2
<1>5. Sampled = [Ticked EXCEPT !["via1"] = w]
  BY <1>2 DEF Sampled, WellTyped
<1> HIDE DEF w
<1> QED BY <1>2, <1>4, <1>5 DEF WellTyped

LEMMA AccessedType ==
  ASSUME TypeOK, NEW v \in ViaType(PortBits[Mine])
  PROVE  /\ WellTyped([Sampled EXCEPT ![Mine] = v])
         /\ [Sampled EXCEPT ![Mine] = v][Mine] = v
         /\ \A c \in Chips \ {Mine} : [Sampled EXCEPT ![Mine] = v][c] = Sampled[c]
<1>1. WellTyped(Sampled) /\ Mine \in Chips
  BY SampledType, TypeParts, Programmed
<1> QED BY <1>1 DEF WellTyped

\* What the CPU's access may have done to the mechanics before the disk turns.
Handed(vias, m) == m \in {mech, [mech EXCEPT !.ready = FALSE],
                          MechanicsUpdate(mech, OutputB(vias["via2"]))}

LEMMA HandedType ==
  ASSUME TypeOK, NEW vias, NEW m, Handed(vias, m)
  PROVE  m \in MechanicsType
<1>1. mech \in MechanicsType
  BY TypeParts
<1>2. [mech EXCEPT !.ready = FALSE] \in MechanicsType
  BY <1>1 DEF MechanicsType
<1> QED BY <1>1, <1>2, UpdateType DEF Handed

\* Every access is a cycle in which the chips end within their types.
LEMMA EachCycle ==
  ASSUME TypeOK, NoAccessCycle \/ CpuAccess
  PROVE  /\ SyncHostToIec
         /\ \E vias, m : WellTyped(vias) /\ Handed(vias, m) /\ Cycle(vias, m)
<1>1. Mine \in Chips /\ WellTyped(Sampled) /\ Sampled[Mine] \in ViaType(PortBits[Mine])
  BY SampledType, TypeParts, Programmed DEF WellTyped
<1>2. ASSUME NEW v \in ViaType(PortBits[Mine]), SyncHostToIec, Access(v)
      PROVE  /\ SyncHostToIec
             /\ \E vias, m : WellTyped(vias) /\ Handed(vias, m) /\ Cycle(vias, m)
  BY <1>2, AccessedType DEF Access, Handed
<1>3. CASE NoAccessCycle
  BY <1>1, <1>3 DEF NoAccessCycle, Handed
<1>4. CASE ReadOra
  <2> DEFINE v == ReadPortA(Sampled[Mine])
             vias == [Sampled EXCEPT ![Mine] = v]
             m == IF Mine = "via2" THEN [mech EXCEPT !.ready = FALSE] ELSE mech
  <2>1. v \in ViaType(PortBits[Mine]) /\ SyncHostToIec /\ Cycle(vias, m)
    BY <1>1, <1>4, AccessTypes DEF ReadOra, WellTyped
  <2> QED BY <2>1, AccessedType DEF Handed
<1>5. CASE ReadOrb
  BY <1>1, <1>2, <1>5, AccessTypes DEF ReadOrb
<1>6. CASE WriteOrb
  <2>1. PICK bits \in program.ports :
          LET v == WritePortB(Sampled[Mine], bits)
          IN Cycle([Sampled EXCEPT ![Mine] = v],
                   IF Mine = "via2" THEN MechanicsUpdate(mech, OutputB(v)) ELSE mech)
    BY <1>6 DEF WriteOrb
  <2> DEFINE v == WritePortB(Sampled[Mine], bits)
             vias == [Sampled EXCEPT ![Mine] = v]
             m == IF Mine = "via2" THEN MechanicsUpdate(mech, OutputB(v)) ELSE mech
  <2>2. v \in ViaType(PortBits[Mine]) /\ SyncHostToIec /\ Cycle(vias, m)
    BY <1>1, <1>6, <2>1, AccessTypes, Programmed DEF WriteOrb
  <2> HIDE DEF v
  <2>3. WellTyped(vias) /\ vias[Mine] = v
    BY <2>2, AccessedType
  <2>4. Handed(vias, m)
    BY <2>3 DEF Handed
  <2> QED BY <2>2, <2>3, <2>4
<1>7. CASE WriteDdrb
  BY <1>1, <1>2, <1>7, AccessTypes, Programmed DEF WriteDdrb
<1>8. CASE ReadT1 \/ ReadT2
  BY <1>1, <1>2, <1>8, AccessTypes DEF ReadT1, ReadT2
<1>9. CASE WriteT1Lo
  BY <1>1, <1>2, <1>9, AccessTypes DEF WriteT1Lo
<1>10. CASE WriteT1Hi \/ LoadT1
  BY <1>1, <1>2, <1>10, AccessTypes DEF WriteT1Hi, LoadT1
<1>11. CASE WriteT2Lo \/ LoadT2
  BY <1>1, <1>2, <1>11, AccessTypes DEF WriteT2Lo, LoadT2
<1>12. CASE WriteControl
  BY <1>1, <1>2, <1>12, AccessTypes DEF WriteControl
<1>13. CASE ClearFlags
  BY <1>1, <1>2, <1>13, AccessTypes DEF ClearFlags
<1> QED
  BY <1>3, <1>4, <1>5, <1>6, <1>7, <1>8, <1>9, <1>10, <1>11, <1>12, <1>13 DEF CpuAccess

-----------------------------------------------------------------------------
(* Type correctness *)

LEMMA NoHistoryYet == /\ 0 \in 0 .. MaxAge /\ 0 \in 0 .. Word - 1 /\ 0 \in 0 .. 2
                      /\ Byte - 1 \in Bytes
<1>1. Byte - 1 \in Bytes
  BY Words DEF Bytes
<1>2. MaxAge \in Nat
  BY DriveAssumption
<1> QED BY <1>1, <1>2, Words

LEMMA InitTypes == Init => TypeOK
<1> SUFFICES ASSUME Init PROVE TypeOK
  OBVIOUS
<1>1. BusType
  BY DEF Init, BusType
<1>2. ChipType
  BY Words DEF Init, ChipType, StateAfterReset, ViaReset, ViaType, Chips
<1>3. mech \in MechanicsType
  BY ResetType DEF Init
<1>4. WarpType
  BY DriveAssumption DEF Init, WarpType, NoWarp
<1>5. HistoryType
  BY NoHistoryYet DEF Init, HistoryType
<1> QED BY <1>1, <1>2, <1>3, <1>4, <1>5, TypeParts

LEMMA AfterReset ==
  ASSUME TypeOK, Reset
  PROVE  TypeOK'
<1>1. BusType'
  BY TypeParts DEF Reset, BusType
<1>2. ChipType'
  BY Words DEF Reset, ChipType, StateAfterReset, ViaReset, ViaType, Chips
<1>3. mech' \in MechanicsType
  BY TypeParts, ResetType DEF Reset, StateAfterReset
<1>4. WarpType'
  BY DriveAssumption DEF Reset, WarpType, NoWarp
<1>5. HistoryType'
  BY NoHistoryYet DEF Reset, HistoryType
<1> QED BY <1>1, <1>2, <1>3, <1>4, <1>5, TypeParts

LEMMA AfterDisk ==
  ASSUME TypeOK, InsertDisk \/ EjectDisk
  PROVE  TypeOK'
<1>1. BusType' /\ ChipType' /\ WarpType' /\ HistoryType'
  BY TypeParts DEF InsertDisk, EjectDisk, bus, BusType, ChipType, WarpType, HistoryType
<1>2. mech' \in MechanicsType
  <2>1. mech \in MechanicsType
    BY TypeParts
  <2>2. ASSUME NEW m \in MechanicsType, NEW loaded \in BOOLEAN
        PROVE  [m EXCEPT !.loaded = loaded, !.dirty = TRUE] \in MechanicsType
    BY DEF MechanicsType
  <2> QED BY <2>1, <2>2 DEF InsertDisk, EjectDisk
<1> QED BY <1>1, <1>2, TypeParts

\* What a cycle does to the chips, past the access.
LEMMA CycleChips ==
  ASSUME NEW vias, WellTyped(vias), NEW m, Cycle(vias, m)
  PROVE  /\ via'["via1"] = vias["via1"]
         /\ \E fs \in SUBSET Flags : /\ vias["via2"].ifr \subseteq fs
                                     /\ via'["via2"] = [vias["via2"] EXCEPT !.ifr = fs]
         /\ WellTyped(via')
<1>1. vias["via1"] \in ViaType(PortBits["via1"]) /\ vias["via2"] \in ViaType(PortBits["via2"])
  BY DEF WellTyped, Chips
<1> DEFINE fs == IF ByteComes(m) /\ Soe(vias["via2"]) THEN vias["via2"].ifr \cup {"CA1"}
                 ELSE vias["via2"].ifr
           w == [vias["via2"] EXCEPT !.ifr = fs]
<1>2. via' = [vias EXCEPT !["via2"] = w]
  BY DEF Cycle, WellTyped
<1>3. fs \in SUBSET Flags /\ vias["via2"].ifr \subseteq fs
  BY <1>1 DEF ViaType, Flags
<1>4. w \in ViaType(PortBits["via2"])
  <2> HIDE DEF fs
  <2> QED BY <1>1, <1>3 DEF ViaType
<1> HIDE DEF fs
<1>5. via'["via2"] = w /\ via'["via1"] = vias["via1"]
  BY <1>2 DEF WellTyped, Chips
<1> HIDE DEF w
<1>6. WellTyped(via')
  BY <1>2, <1>4 DEF WellTyped
<1> QED BY <1>3, <1>5, <1>6 DEF w

LEMMA AfterCycle ==
  ASSUME TypeOK, NEW vias, WellTyped(vias), NEW m, Handed(vias, m), SyncHostToIec, Cycle(vias, m)
  PROVE  BusType' /\ ChipType' /\ mech' \in MechanicsType /\ WarpType' /\ framed' \in BOOLEAN
<1>t. BusType /\ WarpType
  BY TypeParts
<1>1. BusType'
  <2>1. host' \subseteq Lines
    BY Programmed DEF SyncHostToIec
  <2>2. irq' \in BOOLEAN
    BY DEF Cycle
  <2>3. drive_out' \subseteq {"CLK", "DATA"} /\ host_in' \subseteq {"CLK", "DATA"}
          /\ prev_atn' \in BOOLEAN /\ program' = program
    BY DEF Cycle, BusOutput, SyncIecToHost
  <2> QED BY <1>t, <2>1, <2>2, <2>3 DEF BusType
<1>2. ChipType'
  BY CycleChips DEF WellTyped, ChipType
<1>3. mech' \in MechanicsType
  <2>1. Advance(m) \in MechanicsType
    BY HandedType, AdvanceType
  <2> QED BY <2>1, UpdateType DEF Cycle
<1>4. WarpType'
  <2>1. total_cycles' = (total_cycles + 1) % HostWord /\ warp' = WarpUpdate(mech'.motor, total_cycles')
          /\ idle' = IF mech'.motor THEN 0 ELSE Min2(idle + 1, Cooldown)
    BY DEF Cycle
  <2>2. HostWord \in Nat \ {0} /\ Cooldown \in Nat \ {0}
    BY DriveAssumption
  <2>3. total_cycles' \in 0 .. HostWord - 1
    BY <1>t, <2>1, <2>2 DEF WarpType
  <2>4. warp' \in [active : BOOLEAN, last : 0 .. HostWord - 1]
    <3>1. (warp.active /\ ~CooledDown(total_cycles')) \in BOOLEAN
      BY <1>t DEF WarpType, CooledDown
    <3> HIDE DEF CooledDown
    <3> QED BY <1>t, <2>1, <2>3, <3>1 DEF WarpType, WarpUpdate
  <2>5. idle' \in 0 .. Cooldown
    BY <1>t, <2>1, <2>2 DEF WarpType, Min2
  <2> QED BY <2>3, <2>4, <2>5 DEF WarpType
<1>5. framed' \in BOOLEAN
  <2>1. framed' = /\ mech'.half = mech.half
                  /\ mech'.dirty = mech.dirty
                  /\ framed \/ (mech'.sync /\ OnMark(mech'))
    BY DEF Cycle
  <2> QED BY <2>1
<1> QED BY <1>1, <1>2, <1>3, <1>4, <1>5

LEMMA T2HistoryType ==
  ASSUME HistoryType, T2History
  PROVE  t2_age' \in 0 .. MaxAge /\ t2_load' \in 0 .. Word - 1 /\ t2_fired' \in 0 .. 2
BY DriveAssumption, Words DEF HistoryType, T2History, Min2

LEMMA AtnHistoryType ==
  ASSUME HistoryType, NEW answered \in BOOLEAN, AtnHistory(answered)
  PROVE  atn_pending' \in BOOLEAN
<1>1. atn_pending' = ((atn_pending \/ (AtnLow /\ "ATN" \notin host)) /\ ~answered)
  BY DEF AtnHistory
<1> QED BY <1>1

LEMMA AccessHistory ==
  ASSUME TypeOK, NoAccessCycle \/ CpuAccess, via'["via2"] \in ViaType(PortBits["via2"]),
         framed' \in BOOLEAN
  PROVE  HistoryType'
<1>1. HistoryType
  BY TypeParts
<1>2. CASE NoAccessCycle \/ ReadOrb \/ WriteOrb \/ WriteDdrb \/ ReadT1 \/ ReadT2 \/ WriteT1Hi
             \/ LoadT1 \/ WriteT2Lo \/ WriteControl
  <2>1. NoHistory
    BY <1>2 DEF NoAccessCycle, ReadOrb, WriteOrb, WriteDdrb, ReadT1, ReadT2, WriteT1Hi, LoadT1,
       WriteT2Lo, WriteControl
  <2> QED BY <1>1, <2>1, T2HistoryType, AtnHistoryType DEF NoHistory, HistoryType
<1>3. CASE ReadOra \/ ClearFlags
  <2>1. T2History /\ lo_written' = lo_written /\ \E a \in BOOLEAN : AtnHistory(a)
    BY <1>3 DEF ReadOra, ClearFlags
  <2> QED BY <1>1, <2>1, T2HistoryType, AtnHistoryType DEF HistoryType
<1>4. CASE WriteT1Lo
  <2>1. T2History /\ lo_written' \in Bytes /\ AtnHistory(FALSE)
    BY <1>4 DEF WriteT1Lo
  <2> QED BY <1>1, <2>1, T2HistoryType, AtnHistoryType DEF HistoryType
<1>5. CASE LoadT2
  <2>1. AtnHistory(FALSE) /\ lo_written' = lo_written
          /\ (T2History \/ (t2_age' = 0 /\ t2_fired' = 0 /\ t2_load' = via'["via2"].t2_counter))
    BY <1>5 DEF LoadT2
  <2>2. via'["via2"].t2_counter \in 0 .. Word - 1
    BY DEF ViaType
  <2>3. atn_pending' \in BOOLEAN
    BY <1>1, <2>1, AtnHistoryType
  <2>4. CASE T2History
    BY <1>1, <2>1, <2>3, <2>4, T2HistoryType DEF HistoryType
  <2>5. CASE ~T2History
    BY <1>1, <2>1, <2>2, <2>3, <2>5, DriveAssumption, Words DEF HistoryType
  <2> QED BY <2>4, <2>5
<1> QED BY <1>2, <1>3, <1>4, <1>5 DEF CpuAccess

LEMMA NextTypes == TypeOK /\ [Next]_vars => TypeOK'
<1> SUFFICES ASSUME TypeOK, [Next]_vars PROVE TypeOK'
  OBVIOUS
<1>1. CASE NoAccessCycle \/ CpuAccess
  <2>1. PICK vias, m : SyncHostToIec /\ WellTyped(vias) /\ Handed(vias, m) /\ Cycle(vias, m)
    BY <1>1, EachCycle
  <2>2. BusType' /\ ChipType' /\ mech' \in MechanicsType /\ WarpType' /\ framed' \in BOOLEAN
    BY <2>1, AfterCycle
  <2>3. via'["via2"] \in ViaType(PortBits["via2"])
    BY <2>2 DEF ChipType, Chips
  <2> QED BY <1>1, <2>2, <2>3, AccessHistory, TypeParts
<1>2. CASE UNCHANGED vars
  BY <1>2, TypeParts DEF vars, bus, history, BusType, ChipType, WarpType, HistoryType
<1> QED BY <1>1, <1>2, AfterReset, AfterDisk DEF Next

\* The registers, the counters and the head stay in range, whatever the program
\* writes and whenever a disk is exchanged.
THEOREM TypeCorrect == Spec => []TypeOK
BY InitTypes, NextTypes, PTL DEF Spec

-----------------------------------------------------------------------------
(* Warping *)

\* The controller measures with the cycle counter, which wraps, what idle
\* counts; once it has stopped nothing measures any more.
WarpInv ==
  /\ WarpFollowsMotor
  /\ warp.active => (total_cycles - warp.last) % HostWord = idle

LEMMA MeasuredOn ==
  ASSUME WarpType, WarpInv, warp.active
  PROVE  (((total_cycles + 1) % HostWord) - warp.last) % HostWord = idle + 1
<1> DEFINE t == total_cycles
           l == warp.last
           H == HostWord
<1>1. t \in Int /\ l \in Int /\ -l \in Int /\ H \in Nat \ {0} /\ idle \in Nat /\ idle < Cooldown
        /\ Cooldown \in Nat /\ Cooldown < H
  BY DriveAssumption DEF WarpType, WarpInv, WarpFollowsMotor
<1>2. (t - l) % H = idle
  BY DEF WarpInv
<1> HIDE DEF t, l, H
<1>3. (((t + 1) % H) + (-l)) % H = ((t + 1) + (-l)) % H
  <2>1. t + 1 \in Int
    BY <1>1
  <2> QED BY <1>1, <2>1, ModAdd
<1>4. (((t - l) % H) + 1) % H = ((t - l) + 1) % H
  <2>1. t - l \in Int /\ 1 \in Int
    BY <1>1
  <2> QED BY <1>1, <2>1, ModAdd
<1>5. (idle + 1) % H = idle + 1
  <2>1. idle + 1 \in 0 .. H - 1 /\ 0 \in Int /\ 0 * H + (idle + 1) = idle + 1
    BY <1>1
  <2> QED BY <1>1, <2>1, ModUnique
<1>6. (t + 1) + (-l) = (t - l) + 1
  BY <1>1
<1>7. (((t + 1) % H) + (-l)) % H = idle + 1
  BY <1>2, <1>3, <1>4, <1>5, <1>6
<1>8. ((t + 1) % H) + (-l) = ((t + 1) % H) - l
  <2>1. t + 1 \in Int
    BY <1>1
  <2>2. (t + 1) % H \in Int
    BY <1>1, <2>1, DivMod
  <2> QED BY <1>1, <2>2
<1> QED BY <1>7, <1>8 DEF t, l, H

LEMMA WarpCycle ==
  ASSUME WarpType, WarpInv, NEW vias, NEW m, Cycle(vias, m)
  PROVE  WarpInv'
<1> DEFINE t == (total_cycles + 1) % HostWord
<1>1. /\ total_cycles' = t
      /\ warp' = WarpUpdate(mech'.motor, t)
      /\ idle' = IF mech'.motor THEN 0 ELSE Min2(idle + 1, Cooldown)
  BY DEF Cycle
<1>2. t \in 0 .. HostWord - 1 /\ idle \in 0 .. Cooldown /\ Cooldown \in Nat \ {0}
        /\ HostWord \in Nat \ {0} /\ warp \in [active : BOOLEAN, last : 0 .. HostWord - 1]
  <2>1. HostWord \in Nat \ {0} /\ total_cycles + 1 \in Int
    BY DriveAssumption DEF WarpType
  <2>2. t \in 0 .. HostWord - 1
    BY <2>1, DivMod
  <2> QED BY <2>1, <2>2, DriveAssumption DEF WarpType
<1>3. warp.active => (t - warp.last) % HostWord = idle + 1
  BY MeasuredOn
<1> HIDE DEF t
<1>4. CASE mech'.motor
  <2>1. warp' = [active |-> TRUE, last |-> t] /\ idle' = 0
    BY <1>1, <1>4 DEF WarpUpdate
  <2>2. (t - t) % HostWord = 0
    BY <1>2
  <2> QED BY <1>1, <1>2, <2>1, <2>2 DEF WarpInv, WarpFollowsMotor
<1>5. CASE ~mech'.motor
  <2>1. warp' = [warp EXCEPT !.active = @ /\ ~CooledDown(t)] /\ idle' = Min2(idle + 1, Cooldown)
    BY <1>1, <1>5 DEF WarpUpdate
  <2>2. warp'.last = warp.last /\ (warp'.active <=> warp.active /\ ~CooledDown(t))
    BY <1>2, <2>1
  <2>3. CASE warp.active
    <3>1. idle < Cooldown /\ idle' = idle + 1
      BY <1>2, <2>1, <2>3 DEF WarpInv, WarpFollowsMotor, Min2
    <3>2. CooledDown(t) <=> idle + 1 >= Cooldown
      BY <1>3, <2>3 DEF CooledDown
    <3> QED BY <1>1, <1>2, <1>3, <2>2, <2>3, <3>1, <3>2 DEF WarpInv, WarpFollowsMotor
  <2>4. CASE ~warp.active
    <3>1. idle = Cooldown /\ idle' = Cooldown
      BY <1>2, <2>1, <2>4 DEF WarpInv, WarpFollowsMotor, Min2
    <3> QED BY <1>2, <2>2, <2>4, <3>1 DEF WarpInv, WarpFollowsMotor
  <2> QED BY <2>3, <2>4
<1> QED BY <1>4, <1>5

LEMMA WarpNext == TypeOK /\ WarpInv /\ [Next]_vars => WarpInv'
<1> SUFFICES ASSUME TypeOK, WarpInv, [Next]_vars PROVE WarpInv'
  OBVIOUS
<1>1. WarpType
  BY TypeParts
<1>2. CASE NoAccessCycle \/ CpuAccess
  BY <1>1, <1>2, EachCycle, WarpCycle
<1>3. CASE Reset
  BY <1>3, DriveAssumption DEF Reset, NoWarp, WarpInv, WarpFollowsMotor
<1>4. CASE InsertDisk \/ EjectDisk \/ UNCHANGED vars
  <2>1. UNCHANGED <<total_cycles, warp, idle>>
    BY <1>4 DEF InsertDisk, EjectDisk, vars, history
  <2> QED BY <2>1 DEF WarpInv, WarpFollowsMotor
<1> QED BY <1>2, <1>3, <1>4 DEF Next

\* WarpController::update and reset: the machine warps from the cycle the motor
\* starts until it has been off for Cooldown cycles, however the cycle counter
\* wraps and whenever the machine is reset.
THEOREM WarpsWhileDriveRuns == Spec => []WarpFollowsMotor
<1>1. Init => WarpInv
  BY DriveAssumption DEF Init, NoWarp, WarpInv, WarpFollowsMotor
<1>2. WarpInv => WarpFollowsMotor
  BY DEF WarpInv
<1> QED BY TypeCorrect, <1>1, <1>2, WarpNext, PTL DEF Spec

-----------------------------------------------------------------------------
(* The serial bus *)

LEMMA AnsweredNext == TypeOK /\ AtnAnsweredAtOnce /\ [Next]_vars => AtnAnsweredAtOnce'
<1> SUFFICES ASSUME TypeOK, AtnAnsweredAtOnce, [Next]_vars PROVE AtnAnsweredAtOnce'
  OBVIOUS
<1>1. CASE NoAccessCycle \/ CpuAccess
  <2>1. PICK vias, m : WellTyped(vias) /\ Cycle(vias, m)
    BY <1>1, EachCycle
  <2>2. via'["via1"] = vias["via1"]
    BY <2>1, CycleChips
  <2>3. drive_out' = BusOutput(via'["via1"]) /\ host_in' = {"CLK", "DATA"} \ (host' \cup drive_out')
    BY <2>1, <2>2 DEF Cycle, SyncIecToHost
  <2> DEFINE v == via'["via1"]
  <2>4. AtnAnsweredAtOnce' <=>
          ("ATN" \in host' =>
             /\ ~AtnAck(v) => "DATA" \notin host_in'
             /\ AtnAck(v) /\ "DATA_OUT" \notin OutputB(v) /\ "DATA" \notin host' => "DATA" \in host_in')
    BY DEF AtnAnsweredAtOnce, AtnAck, OutputB
  <2> HIDE DEF v
  <2>5. drive_out' = BusOutput(v)
    BY <2>3 DEF v
  <2>6. "ATN" \in host' => ("DATA" \in drive_out' <=> "DATA_OUT" \in OutputB(v) \/ ~AtnAck(v))
    BY <2>5 DEF BusOutput, AtnAtOutput, AtnLow, AtnAck
  <2> QED BY <2>3, <2>4, <2>6
<1>2. CASE Reset
  BY <1>2 DEF Reset, AtnAnsweredAtOnce
<1>3. CASE InsertDisk \/ EjectDisk \/ UNCHANGED vars
  <2>1. UNCHANGED <<host, host_in, via>>
    BY <1>3 DEF InsertDisk, EjectDisk, vars, bus
  <2> QED BY <2>1 DEF AtnAnsweredAtOnce, AtnAck, OutputB
<1> QED BY <1>1, <1>2, <1>3 DEF Next

\* iec_update_bus_output and sync_iec_to_host: the machine reads DATA as ATN and
\* the acknowledge bit make it, in the same cycle, whatever the program writes.
THEOREM AtnIsAnswered == Spec => []AtnAnsweredAtOnce
<1>1. Init => AtnAnsweredAtOnce
  BY DEF Init, AtnAnsweredAtOnce
<1> QED BY TypeCorrect, <1>1, AnsweredNext, PTL DEF Spec

-----------------------------------------------------------------------------
(* What an access leaves of the flags and of timer 2 *)

SameT2(w, v) == w.t2_running = v.t2_running /\ w.t2_counter = v.t2_counter

Spares(w, v, fs) == SameT2(w, v) /\ v.ifr \ fs \subseteq w.ifr

LEMMA ClearedSpares ==
  ASSUME NEW Bits, NEW v \in ViaType(Bits), NEW fs
  PROVE  Spares(Cleared(v, fs), v, fs)
<1> DEFINE w == [v EXCEPT !.ifr = @ \ fs]
<1>1. Spares(w, v, fs) /\ w \in ViaType(Bits)
  BY DEF ViaType, Spares, SameT2
<1>2. Spares([w EXCEPT !.irq = @ /\ Enabled(w)], w, {})
  <2> HIDE DEF w
  <2> QED BY <1>1 DEF ViaType, Spares, SameT2
<1> HIDE DEF w
<1> QED BY <1>1, <1>2 DEF Cleared, w, Spares, SameT2

LEMMA AccessesSpare ==
  ASSUME NEW Bits, NEW v \in ViaType(Bits)
  PROVE  /\ Spares(ReadPortA(v), v, PortAFlags)
         /\ Spares(ReadPortB(v), v, PortBFlags)
         /\ Spares(ReadT1CL(v), v, {"T1"})
         /\ Spares(ReadT2CL(v), v, {"T2"})
         /\ \A bits \in SUBSET Bits : /\ Spares(WritePortB(v, bits), v, PortBFlags)
                                      /\ Spares(WriteDdrB(v, bits), v, {})
         /\ \A b \in Bytes : /\ Spares(WriteT1CL(v, b), v, {}) /\ Spares(WriteT1LL(v, b), v, {})
                             /\ Spares(WriteT1LH(v, b), v, {}) /\ Spares(WriteT2CL(v, b), v, {})
                             /\ Spares(WriteT1CH(v, b), v, {"T1"})
                             /\ v.ifr \ {"T2"} \subseteq WriteT2CH(v, b).ifr
                             /\ WriteT2CH(v, b).t2_running
         /\ \A x, y \in BOOLEAN : Spares(WriteAcr(v, x, y), v, {}) /\ Spares(WritePcr(v, x), v, {})
         /\ \A set \in BOOLEAN : Spares(WriteIer(v, set, Flags), v, {})
         /\ \A fs : Spares(WriteIfr(v, fs), v, fs)
<1>1. /\ Spares(ReadPortA(v), v, PortAFlags) /\ Spares(ReadPortB(v), v, PortBFlags)
      /\ Spares(ReadT1CL(v), v, {"T1"}) /\ Spares(ReadT2CL(v), v, {"T2"})
  BY ClearedSpares DEF ReadPortA, ReadPortB, ReadT1CL, ReadT2CL
<1>2. ASSUME NEW bits \in SUBSET Bits
      PROVE  Spares(WritePortB(v, bits), v, PortBFlags) /\ Spares(WriteDdrB(v, bits), v, {})
  <2> DEFINE w == [v EXCEPT !.orb = bits]
  <2>1. w \in ViaType(Bits) /\ Spares(w, v, {}) /\ Spares(WriteDdrB(v, bits), v, {})
    BY DEF ViaType, Spares, SameT2, WriteDdrB
  <2> HIDE DEF w
  <2>2. Spares(Cleared(w, PortBFlags), w, PortBFlags)
    BY <2>1, ClearedSpares
  <2> QED BY <2>1, <2>2 DEF WritePortB, w, Spares, SameT2
<1>3. ASSUME NEW b \in Bytes
      PROVE  /\ Spares(WriteT1CL(v, b), v, {}) /\ Spares(WriteT1LL(v, b), v, {})
             /\ Spares(WriteT1LH(v, b), v, {}) /\ Spares(WriteT2CL(v, b), v, {})
  <2>1. ASSUME NEW n
        PROVE  Spares([v EXCEPT !.t1_latch = n], v, {}) /\ Spares([v EXCEPT !.t2_latch = n], v, {})
    BY DEF ViaType, Spares, SameT2
  <2> QED BY <2>1 DEF WriteT1CL, WriteT1LL, WriteT1LH, WriteT2CL, Spares, SameT2
<1>4. ASSUME NEW b \in Bytes PROVE Spares(WriteT1CH(v, b), v, {"T1"})
  <2> DEFINE n == WithHi(v.t1_latch, b)
             w == [v EXCEPT !.t1_latch = n, !.t1_counter = n, !.t1_running = TRUE]
  <2>1. n \in 0 .. Word - 1
    BY Halves DEF ViaType, Bytes
  <2>2. WriteT1CH(v, b) = Cleared(w, {"T1"})
    BY DEF WriteT1CH, FlagsOfT1
  <2> HIDE DEF n
  <2>3. w \in ViaType(Bits) /\ Spares(w, v, {})
    BY <2>1 DEF ViaType, Spares, SameT2
  <2> HIDE DEF w
  <2>4. Spares(Cleared(w, {"T1"}), w, {"T1"})
    BY <2>3, ClearedSpares
  <2> QED BY <2>2, <2>3, <2>4 DEF Spares, SameT2
<1>5. ASSUME NEW b \in Bytes
      PROVE  v.ifr \ {"T2"} \subseteq WriteT2CH(v, b).ifr /\ WriteT2CH(v, b).t2_running
  <2> DEFINE n == WithHi(v.t2_latch, b)
             w == [v EXCEPT !.t2_latch = n, !.t2_counter = n, !.t2_running = TRUE]
  <2>1. n \in 0 .. Word - 1
    BY Halves DEF ViaType, Bytes
  <2>2. WriteT2CH(v, b) = Cleared(w, {"T2"})
    BY DEF WriteT2CH
  <2> HIDE DEF n
  <2>3. w \in ViaType(Bits) /\ w.ifr = v.ifr /\ w.t2_running
    BY <2>1 DEF ViaType
  <2> HIDE DEF w
  <2>4. Spares(Cleared(w, {"T2"}), w, {"T2"})
    BY <2>3, ClearedSpares
  <2> QED BY <2>2, <2>3, <2>4 DEF Spares, SameT2
<1>6. ASSUME NEW x \in BOOLEAN, NEW y \in BOOLEAN
      PROVE  Spares(WriteAcr(v, x, y), v, {}) /\ Spares(WritePcr(v, x), v, {})
  BY DEF ViaType, WriteAcr, WritePcr, Spares, SameT2
<1>7. ASSUME NEW set \in BOOLEAN PROVE Spares(WriteIer(v, set, Flags), v, {})
  BY DEF ViaType, WriteIer, Spares, SameT2
<1>8. ASSUME NEW fs PROVE Spares(WriteIfr(v, fs), v, fs)
  <2> DEFINE w == [v EXCEPT !.ifr = @ \ fs]
  <2>1. w \in ViaType(Bits) /\ Spares(w, v, fs)
    BY DEF ViaType, Spares, SameT2
  <2> HIDE DEF w
  <2>2. Spares([w EXCEPT !.irq = Enabled(w)], w, {})
    BY <2>1 DEF ViaType, Spares, SameT2
  <2> QED BY <2>1, <2>2 DEF WriteIfr, w, Spares, SameT2
<1> QED BY <1>1, <1>2, <1>3, <1>4, <1>5, <1>6, <1>7, <1>8

\* The flags and timer 2, from the sample of the cycle to its end.
Leaves(fs) ==
  \A c \in Chips : Sampled[c].ifr \ (IF c = Mine THEN fs ELSE {}) \subseteq via'[c].ifr

T2Kept == SameT2(via'["via2"], Sampled["via2"])

\* A byte that becomes ready only adds a flag.
LEMMA CycleSpares ==
  ASSUME TypeOK, NEW w \in ViaType(PortBits[Mine]), NEW m,
         Cycle([Sampled EXCEPT ![Mine] = w], m)
  PROVE  /\ \A fs : Sampled[Mine].ifr \ fs \subseteq w.ifr => Leaves(fs)
         /\ SameT2(via'["via2"], IF Mine = "via2" THEN w ELSE Sampled["via2"])
<1> DEFINE vias == [Sampled EXCEPT ![Mine] = w]
<1>1. /\ WellTyped(vias) /\ vias[Mine] = w
      /\ \A c \in Chips \ {Mine} : vias[c] = Sampled[c]
  BY AccessedType
<1>2. /\ via'["via1"] = vias["via1"]
      /\ \E gs \in SUBSET Flags : /\ vias["via2"].ifr \subseteq gs
                                  /\ via'["via2"] = [vias["via2"] EXCEPT !.ifr = gs]
  BY <1>1, CycleChips
<1>3. vias["via2"] \in ViaType(PortBits["via2"]) /\ Mine \in Chips
  BY <1>1, Programmed DEF WellTyped, Chips
<1> HIDE DEF vias
<1>4. /\ \A c \in Chips : vias[c].ifr \subseteq via'[c].ifr
      /\ SameT2(via'["via2"], vias["via2"])
  BY <1>2, <1>3 DEF Chips, ViaType, SameT2
<1>5. ASSUME NEW fs, Sampled[Mine].ifr \ fs \subseteq w.ifr PROVE Leaves(fs)
  BY <1>1, <1>4, <1>5 DEF Leaves
<1>6. SameT2(via'["via2"], IF Mine = "via2" THEN w ELSE Sampled["via2"])
  BY <1>1, <1>3, <1>4 DEF Chips
<1> QED BY <1>5, <1>6

LEMMA AccessLeaves ==
  ASSUME TypeOK, NEW w \in ViaType(PortBits[Mine]), NEW m, NEW fs,
         Cycle([Sampled EXCEPT ![Mine] = w], m), Spares(w, Sampled[Mine], fs)
  PROVE  Leaves(fs) /\ T2Kept
BY CycleSpares DEF Spares, T2Kept, SameT2

LEMMA SampledMine ==
  ASSUME TypeOK
  PROVE  Sampled[Mine] \in ViaType(PortBits[Mine]) /\ [Sampled EXCEPT ![Mine] = Sampled[Mine]] = Sampled
BY SampledType, TypeParts, Programmed DEF WellTyped

LEMMA QuietAccess ==
  ASSUME TypeOK,
         NoAccessCycle \/ WriteDdrb \/ WriteT1Lo \/ WriteT1Hi \/ WriteT2Lo \/ WriteControl
  PROVE  Leaves({}) /\ T2Kept /\ AtnHistory(FALSE) /\ T2History
<1> DEFINE v == Sampled[Mine]
<1>1. v \in ViaType(PortBits[Mine])
  BY SampledMine
<1>2. AtnHistory(FALSE) /\ T2History
  BY DEF NoAccessCycle, WriteDdrb, WriteT1Lo, WriteT1Hi, WriteT2Lo, WriteControl, NoHistory
<1>4. CASE NoAccessCycle
  <2>1. Cycle([Sampled EXCEPT ![Mine] = v], mech)
    BY <1>4, SampledMine DEF NoAccessCycle
  <2>2. Spares(v, v, {})
    BY DEF Spares, SameT2
  <2> QED BY <1>1, <1>2, <2>1, <2>2, AccessLeaves
<1>5. CASE WriteDdrb
  <2>1. PICK bits \in program.directions :
          Cycle([Sampled EXCEPT ![Mine] = WriteDdrB(v, bits)], mech)
    BY <1>5 DEF WriteDdrb, Access
  <2>2. bits \in SUBSET PortBits[Mine]
    BY Programmed
  <2>3. WriteDdrB(v, bits) \in ViaType(PortBits[Mine]) /\ Spares(WriteDdrB(v, bits), v, {})
    BY <1>1, <2>2, AccessTypes, AccessesSpare
  <2> QED BY <1>2, <2>1, <2>3, AccessLeaves
<1>6. CASE WriteT1Lo \/ WriteT1Hi \/ WriteT2Lo
  <2>1. PICK b \in Bytes :
          \/ Cycle([Sampled EXCEPT ![Mine] = WriteT1CL(v, b)], mech)
          \/ Cycle([Sampled EXCEPT ![Mine] = WriteT1LL(v, b)], mech)
          \/ Cycle([Sampled EXCEPT ![Mine] = WriteT1LH(v, b)], mech)
          \/ Cycle([Sampled EXCEPT ![Mine] = WriteT2CL(v, b)], mech)
    BY <1>6 DEF WriteT1Lo, WriteT1Hi, WriteT2Lo, Access
  <2>2. /\ WriteT1CL(v, b) \in ViaType(PortBits[Mine]) /\ Spares(WriteT1CL(v, b), v, {})
        /\ WriteT1LL(v, b) \in ViaType(PortBits[Mine]) /\ Spares(WriteT1LL(v, b), v, {})
        /\ WriteT1LH(v, b) \in ViaType(PortBits[Mine]) /\ Spares(WriteT1LH(v, b), v, {})
        /\ WriteT2CL(v, b) \in ViaType(PortBits[Mine]) /\ Spares(WriteT2CL(v, b), v, {})
    BY <1>1, AccessTypes, AccessesSpare
  <2> QED BY <1>2, <2>1, <2>2, AccessLeaves
<1>7. CASE WriteControl
  <2>1. PICK x \in BOOLEAN, y \in BOOLEAN :
          \/ Cycle([Sampled EXCEPT ![Mine] = WriteAcr(v, x, y)], mech)
          \/ Cycle([Sampled EXCEPT ![Mine] = WritePcr(v, x)], mech)
          \/ Cycle([Sampled EXCEPT ![Mine] = WriteIer(v, x, Flags)], mech)
    BY <1>7 DEF WriteControl, Access
  <2>2. /\ WriteAcr(v, x, y) \in ViaType(PortBits[Mine]) /\ Spares(WriteAcr(v, x, y), v, {})
        /\ WritePcr(v, x) \in ViaType(PortBits[Mine]) /\ Spares(WritePcr(v, x), v, {})
        /\ WriteIer(v, x, Flags) \in ViaType(PortBits[Mine])
        /\ Spares(WriteIer(v, x, Flags), v, {})
    BY <1>1, AccessTypes, AccessesSpare
  <2> QED BY <1>2, <2>1, <2>2, AccessLeaves
<1> QED BY <1>4, <1>5, <1>6, <1>7

LEMMA PortAccess ==
  ASSUME TypeOK
  PROVE  /\ ReadOra => Leaves(PortAFlags) /\ T2Kept /\ AtnHistory(Mine = "via1") /\ T2History
         /\ ReadOrb \/ WriteOrb => Leaves(PortBFlags) /\ T2Kept /\ AtnHistory(FALSE) /\ T2History
<1> DEFINE v == Sampled[Mine]
<1>1. v \in ViaType(PortBits[Mine])
  BY SampledMine
<1>2. ASSUME ReadOra
      PROVE  Leaves(PortAFlags) /\ T2Kept /\ AtnHistory(Mine = "via1") /\ T2History
  <2>1. /\ Cycle([Sampled EXCEPT ![Mine] = ReadPortA(v)],
                 IF Mine = "via2" THEN [mech EXCEPT !.ready = FALSE] ELSE mech)
        /\ AtnHistory(Mine = "via1") /\ T2History
    BY <1>2, SampledMine, SampledType, TypeParts, Programmed DEF ReadOra, WellTyped
  <2>2. ReadPortA(v) \in ViaType(PortBits[Mine]) /\ Spares(ReadPortA(v), v, PortAFlags)
    BY <1>1, AccessTypes, AccessesSpare
  <2> QED BY <2>1, <2>2, AccessLeaves
<1>3. ASSUME ReadOrb PROVE Leaves(PortBFlags) /\ T2Kept /\ AtnHistory(FALSE) /\ T2History
  <2>1. ReadPortB(v) \in ViaType(PortBits[Mine]) /\ Spares(ReadPortB(v), v, PortBFlags)
    BY <1>1, AccessTypes, AccessesSpare
  <2> QED BY <1>3, <2>1, AccessLeaves DEF ReadOrb, Access, NoHistory
<1>4. ASSUME WriteOrb PROVE Leaves(PortBFlags) /\ T2Kept /\ AtnHistory(FALSE) /\ T2History
  <2>1. PICK bits \in program.ports :
          \E m : Cycle([Sampled EXCEPT ![Mine] = WritePortB(v, bits)], m)
    BY <1>4 DEF WriteOrb
  <2>2. bits \in SUBSET PortBits[Mine]
    BY Programmed
  <2>3. WritePortB(v, bits) \in ViaType(PortBits[Mine])
          /\ Spares(WritePortB(v, bits), v, PortBFlags)
    BY <1>1, <2>2, AccessTypes, AccessesSpare
  <2>4. AtnHistory(FALSE) /\ T2History
    BY <1>4 DEF WriteOrb, NoHistory
  <2> HIDE DEF v
  <2> QED BY <2>1, <2>3, <2>4, AccessLeaves DEF v
<1> QED BY <1>2, <1>3, <1>4

LEMMA TimerAccess ==
  ASSUME TypeOK
  PROVE  /\ ReadT1 \/ LoadT1 => Leaves({"T1"}) /\ T2Kept /\ AtnHistory(FALSE) /\ T2History
         /\ ReadT2 => Leaves({"T2"}) /\ T2Kept /\ AtnHistory(FALSE) /\ T2History
         /\ LoadT2 => /\ Leaves({"T2"}) /\ AtnHistory(FALSE)
                      /\ IF Mine = "via2"
                           THEN /\ t2_age' = 0 /\ t2_fired' = 0
                                /\ t2_load' = via'["via2"].t2_counter
                                /\ via'["via2"].t2_running
                           ELSE T2Kept /\ T2History
<1> DEFINE v == Sampled[Mine]
<1>1. v \in ViaType(PortBits[Mine])
  BY SampledMine
<1>2. ASSUME ReadT1 PROVE Leaves({"T1"}) /\ T2Kept /\ AtnHistory(FALSE) /\ T2History
  <2>1. ReadT1CL(v) \in ViaType(PortBits[Mine]) /\ Spares(ReadT1CL(v), v, {"T1"})
    BY <1>1, AccessTypes, AccessesSpare
  <2> QED BY <1>2, <2>1, AccessLeaves DEF ReadT1, Access, NoHistory
<1>3. ASSUME ReadT2 PROVE Leaves({"T2"}) /\ T2Kept /\ AtnHistory(FALSE) /\ T2History
  <2>1. ReadT2CL(v) \in ViaType(PortBits[Mine]) /\ Spares(ReadT2CL(v), v, {"T2"})
    BY <1>1, AccessTypes, AccessesSpare
  <2> QED BY <1>3, <2>1, AccessLeaves DEF ReadT2, Access, NoHistory
<1>4. ASSUME LoadT1 PROVE Leaves({"T1"}) /\ T2Kept /\ AtnHistory(FALSE) /\ T2History
  <2>1. PICK b \in Bytes : Cycle([Sampled EXCEPT ![Mine] = WriteT1CH(v, b)], mech)
    BY <1>4 DEF LoadT1, Access
  <2>2. WriteT1CH(v, b) \in ViaType(PortBits[Mine]) /\ Spares(WriteT1CH(v, b), v, {"T1"})
    BY <1>1, AccessTypes, AccessesSpare
  <2> QED BY <1>4, <2>1, <2>2, AccessLeaves DEF LoadT1, NoHistory
<1>5. ASSUME LoadT2
      PROVE  /\ Leaves({"T2"}) /\ AtnHistory(FALSE)
             /\ IF Mine = "via2"
                  THEN /\ t2_age' = 0 /\ t2_fired' = 0 /\ t2_load' = via'["via2"].t2_counter
                       /\ via'["via2"].t2_running
                  ELSE T2Kept /\ T2History
  <2>1. PICK b \in Bytes : Cycle([Sampled EXCEPT ![Mine] = WriteT2CH(v, b)], mech)
    BY <1>5 DEF LoadT2, Access
  <2> DEFINE w == WriteT2CH(v, b)
  <2>2. w \in ViaType(PortBits[Mine]) /\ v.ifr \ {"T2"} \subseteq w.ifr /\ w.t2_running
    BY <1>1, AccessTypes, AccessesSpare
  <2> HIDE DEF w
  <2>3. /\ Leaves({"T2"})
        /\ SameT2(via'["via2"], IF Mine = "via2" THEN w ELSE Sampled["via2"])
    BY <2>1, <2>2, CycleSpares DEF w
  <2> HIDE DEF v
  <2> QED BY <1>5, <2>2, <2>3 DEF LoadT2, SameT2, T2Kept
<1> QED BY <1>2, <1>3, <1>4, <1>5

LEMMA FlagAccess ==
  ASSUME TypeOK, ClearFlags
  PROVE  /\ \E fs : Leaves(fs) /\ AtnHistory(Mine = "via1" /\ "CA1" \in fs)
         /\ T2Kept /\ T2History
<1> DEFINE v == Sampled[Mine]
<1>1. v \in ViaType(PortBits[Mine])
  BY SampledMine
<1>2. PICK fs \in {{"CA1"}, Flags} :
        /\ Cycle([Sampled EXCEPT ![Mine] = WriteIfr(v, fs)], mech)
        /\ AtnHistory(Mine = "via1" /\ "CA1" \in fs)
  BY DEF ClearFlags, Access
<1>3. WriteIfr(v, fs) \in ViaType(PortBits[Mine]) /\ Spares(WriteIfr(v, fs), v, fs)
  BY <1>1, AccessTypes, AccessesSpare
<1>4. Leaves(fs) /\ T2Kept
  BY <1>2, <1>3, AccessLeaves
<1> QED BY <1>2, <1>4 DEF ClearFlags

-----------------------------------------------------------------------------
(* Timer 2 *)

\* The counter is what is left of the load while the timer runs; it has run out
\* once, a cycle after it reached zero, when it does not.
T2Inv ==
  LET v == via["via2"] IN
  /\ v.t2_running => t2_fired = 0 /\ t2_age <= t2_load /\ v.t2_counter = t2_load - t2_age
  /\ ~v.t2_running => \/ t2_fired = 0 /\ t2_age = 0 /\ t2_load = 0
                      \/ t2_fired = 1 /\ t2_age = t2_load + 1

LEMMA SampledT2 ==
  ASSUME TypeOK
  PROVE  LET v == via["via2"] IN
         /\ Sampled["via2"].t2_running = T2StillRunning(v)
         /\ Sampled["via2"].t2_counter = IF T2Counts(v) THEN Less1(v.t2_counter) ELSE v.t2_counter
<1> DEFINE v == via["via2"]
<1>1. v \in ViaType(PortBits["via2"])
  BY TypeParts DEF ChipType, Chips
<1>2. Sampled["via2"] = Tick(v)
  BY DEF Sampled, Ticked, Chips
<1> HIDE DEF v
<1> DEFINE u == T1Ticked(v)
<1>3. u.t2_counter = v.t2_counter /\ u.t2_running = v.t2_running /\ u.t2_pulses = v.t2_pulses
  BY <1>1 DEF ViaType, T1Ticked
<1>4. u \in ViaType(PortBits["via2"])
  <2>1. Less1(v.t1_counter) \in 0 .. Word - 1 /\ v.t1_latch \in 0 .. Word - 1
    BY <1>1, Words DEF ViaType
  <2> HIDE DEF Less1
  <2> QED BY <1>1, <2>1 DEF ViaType, T1Ticked, Flags
<1> HIDE DEF u
<1>5. /\ T2Ticked(u).t2_running = T2StillRunning(u)
      /\ T2Ticked(u).t2_counter = IF T2Counts(u) THEN Less1(u.t2_counter) ELSE u.t2_counter
  BY <1>4 DEF T2Ticked, ViaType
<1>6. Tick(v).t2_running = T2Ticked(u).t2_running /\ Tick(v).t2_counter = T2Ticked(u).t2_counter
  BY DEF Tick, u
<1>7. T2Counts(u) = T2Counts(v) /\ T2StillRunning(u) = T2StillRunning(v)
  BY <1>3 DEF T2Counts, T2StillRunning, T2Expires
<1> QED BY <1>2, <1>3, <1>5, <1>6, <1>7 DEF v

\* Counting down from n, in a word.
LEMMA LessOne ==
  ASSUME NEW n \in 1 .. Word - 1
  PROVE  Less1(n) = n - 1
<1>1. Word \in Nat \ {0} /\ n - 1 \in 0 .. Word - 1 /\ 0 \in Int
  BY Words
<1>2. (0 * Word + (n - 1)) % Word = n - 1
  BY <1>1, ModUnique
<1>3. 0 * Word + (n - 1) = n - 1
  BY <1>1
<1> QED BY <1>2, <1>3 DEF Less1

LEMMA T2Counting ==
  ASSUME TypeOK, T2Inv, T2History, T2Kept
  PROVE  T2Inv'
<1> DEFINE v == via["via2"]
           w == via'["via2"]
           c == v.t2_counter
<1>1. /\ c \in 0 .. Word - 1 /\ v.t2_running \in BOOLEAN /\ v.t2_pulses \in BOOLEAN
      /\ t2_age \in 0 .. MaxAge /\ t2_load \in 0 .. Word - 1
      /\ Word \in Nat \ {0} /\ MaxAge \in Nat /\ MaxAge > Word
  BY TypeParts, DriveAssumption, Words DEF ChipType, Chips, ViaType, HistoryType
<1>2. /\ w.t2_running = (v.t2_running /\ ~(v.t2_running /\ ~v.t2_pulses /\ c = 0))
      /\ w.t2_counter = IF v.t2_running /\ ~v.t2_pulses THEN Less1(c) ELSE c
  BY SampledT2 DEF T2Kept, SameT2, T2StillRunning, T2Expires, T2Counts
<1>3. /\ t2_age' = IF v.t2_running /\ ~v.t2_pulses THEN Min2(t2_age + 1, MaxAge) ELSE t2_age
      /\ t2_fired' = IF v.t2_running /\ ~v.t2_pulses /\ c = 0 THEN Min2(t2_fired + 1, 2) ELSE t2_fired
      /\ t2_load' = t2_load
  BY DEF T2History, T2Expired, T2Expires, T2Counts
<1>4. /\ v.t2_running => t2_fired = 0 /\ t2_age <= t2_load /\ c = t2_load - t2_age
      /\ ~v.t2_running => \/ t2_fired = 0 /\ t2_age = 0 /\ t2_load = 0
                          \/ t2_fired = 1 /\ t2_age = t2_load + 1
  BY DEF T2Inv
<1>5. c > 0 => Less1(c) = c - 1
  BY <1>1, LessOne
<1> SUFFICES /\ w.t2_running => t2_fired' = 0 /\ t2_age' <= t2_load' /\ w.t2_counter = t2_load' - t2_age'
             /\ ~w.t2_running => \/ t2_fired' = 0 /\ t2_age' = 0 /\ t2_load' = 0
                                 \/ t2_fired' = 1 /\ t2_age' = t2_load' + 1
  BY DEF T2Inv
<1> HIDE DEF v, w, c
<1>6. CASE v.t2_running /\ ~v.t2_pulses
  <2>1. t2_age' = t2_age + 1
    BY <1>1, <1>3, <1>4, <1>6 DEF Min2
  <2>2. CASE c = 0
    BY <1>1, <1>2, <1>3, <1>4, <1>6, <2>1, <2>2 DEF Min2
  <2>3. CASE c > 0
    <3>0. c # 0
      BY <2>3
    <3>1. w.t2_counter = c - 1 /\ t2_fired' = 0 /\ t2_load' = t2_load
      <4>1. w.t2_counter = c - 1
        BY <1>2, <1>5, <1>6, <2>3
      <4>2. t2_fired' = 0 /\ t2_load' = t2_load
        BY <1>3, <1>4, <1>6, <3>0
      <4> QED BY <4>1, <4>2
    <3>2. t2_age' \in Int /\ t2_load \in Int /\ c \in Int /\ c = t2_load - t2_age /\ t2_age \in Int
      BY <1>1, <1>4, <1>6, <2>1
    <3>3. t2_age' <= t2_load /\ c - 1 = t2_load - t2_age'
      BY <2>1, <2>3, <3>2
    <3>4. w.t2_running
      BY <1>2, <1>6, <3>0, Zenon
    <3> QED BY <3>1, <3>3, <3>4
  <2> QED BY <1>1, <2>2, <2>3
<1>7. CASE ~(v.t2_running /\ ~v.t2_pulses)
  BY <1>1, <1>2, <1>3, <1>4, <1>7
<1> QED BY <1>6, <1>7

LEMMA T2Next == TypeOK /\ T2Inv /\ [Next]_vars => T2Inv'
<1> SUFFICES ASSUME TypeOK, T2Inv, [Next]_vars PROVE T2Inv'
  OBVIOUS
<1>1. CASE (NoAccessCycle \/ CpuAccess) /\ ~LoadT2
  <2>1. T2Kept /\ T2History
    BY <1>1, QuietAccess, PortAccess, TimerAccess, FlagAccess DEF CpuAccess
  <2> QED BY <2>1, T2Counting
<1>2. CASE LoadT2
  <2>1. CASE Mine = "via2"
    <3>1. /\ t2_age' = 0 /\ t2_fired' = 0 /\ t2_load' = via'["via2"].t2_counter
          /\ via'["via2"].t2_running
      BY <1>2, <2>1, TimerAccess
    <3>2. via'["via2"].t2_counter \in 0 .. Word - 1
      <4>1. TypeOK'
        BY NextTypes
      <4> QED BY <4>1, TypeParts DEF ChipType, Chips, ViaType
    <3> DEFINE n == via'["via2"].t2_counter
    <3>3. n \in Int /\ n >= 0
      BY <3>2, Words
    <3> HIDE DEF n
    <3>4. 0 <= n /\ n = n - 0
      BY <3>3
    <3> QED BY <3>1, <3>4 DEF T2Inv, n
  <2>2. CASE Mine # "via2"
    BY <1>2, <2>2, TimerAccess, T2Counting
  <2> QED BY <2>1, <2>2
<1>3. CASE Reset
  BY <1>3 DEF Reset, StateAfterReset, ViaReset, Chips, T2Inv
<1>4. CASE InsertDisk \/ EjectDisk \/ UNCHANGED vars
  <2>1. UNCHANGED <<via, t2_age, t2_load, t2_fired>>
    BY <1>4 DEF InsertDisk, EjectDisk, vars, history
  <2> QED BY <2>1 DEF T2Inv
<1> QED BY <1>1, <1>2, <1>3, <1>4 DEF Next

\* mos6522_t::tick: timer 2 interrupts once for each load, as many cycles after
\* it as the load says and one, whatever the width of the counter, however often
\* it is loaded again, read or stopped by the pulse mode in between.
THEOREM T2OneShot == Spec => []T2FiresOnce
<1>1. Init => T2Inv
  BY DEF Init, StateAfterReset, ViaReset, Chips, T2Inv
<1>2. TypeOK /\ T2Inv => T2FiresOnce
  <2> SUFFICES ASSUME TypeOK, T2Inv PROVE T2FiresOnce
    OBVIOUS
  <2>1. t2_age \in Nat /\ t2_load \in Nat
    BY TypeParts, DriveAssumption, Words DEF HistoryType
  <2> QED BY <2>1 DEF T2Inv, T2FiresOnce
<1> QED BY TypeCorrect, <1>1, <1>2, T2Next, PTL DEF Spec

-----------------------------------------------------------------------------
(* Interrupts *)

\* The drive knows ATN as it was in the last cycle, and has the flag of a call
\* nobody answered.
AtnInv ==
  /\ prev_atn <=> "ATN" \notin host
  /\ atn_pending => "CA1" \in via["via1"].ifr

LEMMA SampledFlags ==
  ASSUME TypeOK, NEW c \in Chips
  PROVE  /\ via[c].ifr \subseteq Sampled[c].ifr
         /\ \A f \in via[c].ifr \cap via[c].ier : Tick(via[c]).irq
         /\ c = "via1" /\ FallingEdge => "CA1" \in Sampled[c].ifr
<1> DEFINE v == via[c]
           u == T1Ticked(v)
           w == T2Ticked(u)
<1>1. v \in ViaType(PortBits[c])
  BY TypeParts DEF ChipType
<1> HIDE DEF v
<1>2. v.ifr \subseteq u.ifr /\ u.ier = v.ier /\ u \in ViaType(PortBits[c])
  <2>1. Less1(v.t1_counter) \in 0 .. Word - 1 /\ v.t1_latch \in 0 .. Word - 1
    BY <1>1, Words DEF ViaType
  <2> HIDE DEF Less1
  <2> QED BY <1>1, <2>1 DEF ViaType, T1Ticked, Flags
<1> HIDE DEF u
<1>3. u.ifr \subseteq w.ifr /\ w.ier = u.ier /\ w \in ViaType(PortBits[c])
  <2>1. Less1(u.t2_counter) \in 0 .. Word - 1
    BY <1>2, Words DEF ViaType
  <2>2. T2StillRunning(u) \in BOOLEAN
    BY <1>2 DEF T2StillRunning, ViaType
  <2> HIDE DEF Less1, T2StillRunning
  <2> QED BY <1>2, <2>1, <2>2 DEF ViaType, T2Ticked, Flags
<1> HIDE DEF w
<1>4. Tick(v).ifr = w.ifr /\ Tick(v).irq = Enabled(w)
  <2>1. Tick(v) = [w EXCEPT !.irq = Enabled(w)]
    BY DEF Tick, u, w
  <2> HIDE DEF Enabled
  <2> QED BY <1>3, <2>1 DEF ViaType
<1>5. \A f \in v.ifr \cap v.ier : Tick(v).irq
  BY <1>2, <1>3, <1>4 DEF Enabled
<1>6. Ticked[c] = Tick(v)
  BY DEF Ticked, v
<1>7. /\ Ticked[c].ifr \subseteq Sampled[c].ifr
      /\ c = "via1" /\ FallingEdge => "CA1" \in Sampled[c].ifr
  <2>1. WellTyped(Ticked)
    BY SampledType, TypeParts
  <2>2. Ticked["via1"] \in ViaType(PortBits["via1"])
    BY <2>1 DEF WellTyped, Chips
  <2> DEFINE fs == IF FallingEdge THEN Ticked["via1"].ifr \cup {"CA1"} ELSE Ticked["via1"].ifr
             x == [Ticked["via1"] EXCEPT !.ifr = fs]
  <2>3. Ticked["via1"].ifr \subseteq fs /\ (FallingEdge => "CA1" \in fs)
    OBVIOUS
  <2>4. x.ifr = fs
    <3> HIDE DEF fs
    <3> QED BY <2>2 DEF ViaType
  <2>5. Sampled = [Ticked EXCEPT !["via1"] = x]
    BY <2>1 DEF Sampled, WellTyped
  <2> HIDE DEF x, fs
  <2>6. Sampled["via1"] = x /\ (c # "via1" => Sampled[c] = Ticked[c])
    BY <2>1, <2>5 DEF WellTyped, Chips
  <2> QED BY <2>3, <2>4, <2>6
<1> QED BY <1>2, <1>3, <1>4, <1>5, <1>6, <1>7 DEF v

LEMMA CalledIsFlagged ==
  ASSUME AtnInv, NEW c \in Chips
  PROVE  Called(c) \subseteq via[c].ifr
BY DEF AtnInv, Called

\* What a cycle leaves of a flag, and of a call.
LEMMA AtnCycle ==
  ASSUME TypeOK, AtnInv, NEW answered \in BOOLEAN, NEW fs, prev_atn' <=> ~AtnLow,
         Leaves(fs), AtnHistory(answered), Mine = "via1" /\ "CA1" \in fs => answered
  PROVE  AtnInv'
<1>1. atn_pending' <=> (atn_pending \/ (AtnLow /\ "ATN" \notin host)) /\ ~answered
  BY DEF AtnHistory
<1>2. "via1" \in Chips
  BY DEF Chips
<1>3. via["via1"].ifr \subseteq Sampled["via1"].ifr
        /\ (FallingEdge => "CA1" \in Sampled["via1"].ifr)
  BY <1>2, SampledFlags
<1>4. Sampled["via1"].ifr \ (IF "via1" = Mine THEN fs ELSE {}) \subseteq via'["via1"].ifr
  BY <1>2 DEF Leaves
<1>5. atn_pending' => "CA1" \in Sampled["via1"].ifr
  BY <1>1, <1>3 DEF AtnInv, FallingEdge
<1> QED BY <1>1, <1>4, <1>5 DEF AtnInv, AtnLow

LEMMA AtnNext == TypeOK /\ AtnInv /\ [Next]_vars => AtnInv'
<1> SUFFICES ASSUME TypeOK, AtnInv, [Next]_vars PROVE AtnInv'
  OBVIOUS
<1>1. CASE NoAccessCycle \/ CpuAccess
  <2>1. prev_atn' <=> ~AtnLow
    BY <1>1, EachCycle DEF Cycle
  <2>2. CASE NoAccessCycle \/ WriteDdrb \/ WriteT1Lo \/ WriteT1Hi \/ WriteT2Lo \/ WriteControl
    <3>1. Leaves({}) /\ AtnHistory(FALSE)
      BY <2>2, QuietAccess
    <3> QED BY <2>1, <3>1, AtnCycle
  <2>3. CASE ReadOra
    <3>1. Leaves(PortAFlags) /\ AtnHistory(Mine = "via1")
      BY <2>3, PortAccess
    <3> QED BY <2>1, <3>1, AtnCycle
  <2>4. CASE ReadOrb \/ WriteOrb
    <3>1. Leaves(PortBFlags) /\ AtnHistory(FALSE) /\ "CA1" \notin PortBFlags
      BY <2>4, PortAccess DEF PortBFlags
    <3> QED BY <2>1, <3>1, AtnCycle
  <2>5. CASE ReadT1 \/ ReadT2 \/ LoadT1 \/ LoadT2
    <3>1. PICK fs \in {{"T1"}, {"T2"}} : Leaves(fs)
      BY <2>5, TimerAccess
    <3>2. AtnHistory(FALSE) /\ "CA1" \notin fs
      BY <2>5, <3>1, TimerAccess
    <3> QED BY <2>1, <3>1, <3>2, AtnCycle
  <2>6. CASE ClearFlags
    <3>1. PICK fs : Leaves(fs) /\ AtnHistory(Mine = "via1" /\ "CA1" \in fs)
      BY <2>6, FlagAccess
    <3>2. (Mine = "via1" /\ "CA1" \in fs) \in BOOLEAN
      OBVIOUS
    <3> QED BY <2>1, <3>1, <3>2, AtnCycle
  <2> QED BY <1>1, <2>2, <2>3, <2>4, <2>5, <2>6 DEF CpuAccess
<1>2. CASE Reset
  BY <1>2 DEF Reset, AtnInv
<1>3. CASE InsertDisk \/ EjectDisk \/ UNCHANGED vars
  <2>1. UNCHANGED <<host, prev_atn, via, atn_pending>>
    BY <1>3 DEF InsertDisk, EjectDisk, vars, bus, history
  <2> QED BY <2>1 DEF AtnInv
<1> QED BY <1>1, <1>2, <1>3 DEF Next

\* A flag goes by an access to the register that acknowledges it, or stays.
LEMMA FlagsLeft ==
  ASSUME TypeOK, NoAccessCycle \/ CpuAccess, NEW c \in Chips, NEW f \in via[c].ifr
  PROVE  f \in via'[c].ifr \/ (c = Mine /\ Acknowledged(f))
<1>1. ASSUME NEW fs, Leaves(fs)
      PROVE  f \in via'[c].ifr \/ (c = Mine /\ f \in fs)
  BY <1>1, SampledFlags DEF Leaves
<1>2. CASE NoAccessCycle \/ WriteDdrb \/ WriteT1Lo \/ WriteT1Hi \/ WriteT2Lo \/ WriteControl
  <2>1. Leaves({})
    BY <1>2, QuietAccess
  <2> QED BY <1>1, <2>1
<1>3. CASE ReadOra
  <2>1. Leaves(PortAFlags)
    BY <1>3, PortAccess
  <2>2. f \in PortAFlags => Acknowledged(f)
    BY <1>3 DEF PortAFlags, Acknowledged
  <2> QED BY <1>1, <2>1, <2>2
<1>4. CASE ReadOrb \/ WriteOrb
  <2>1. Leaves(PortBFlags)
    BY <1>4, PortAccess
  <2>2. f \in PortBFlags => Acknowledged(f)
    BY <1>4 DEF PortBFlags, Acknowledged
  <2> QED BY <1>1, <2>1, <2>2
<1>5. CASE ReadT1 \/ LoadT1
  <2>1. Leaves({"T1"})
    BY <1>5, TimerAccess
  <2>2. f \in {"T1"} => Acknowledged(f)
    BY <1>5 DEF Acknowledged
  <2> QED BY <1>1, <2>1, <2>2
<1>6. CASE ReadT2 \/ LoadT2
  <2>1. Leaves({"T2"})
    BY <1>6, TimerAccess
  <2>2. f \in {"T2"} => Acknowledged(f)
    BY <1>6 DEF Acknowledged
  <2> QED BY <1>1, <2>1, <2>2
<1>7. CASE ClearFlags
  <2>1. \E fs : Leaves(fs)
    BY <1>7, FlagAccess
  <2> QED BY <1>1, <1>7, <2>1 DEF Acknowledged
<1> QED BY <1>2, <1>3, <1>4, <1>5, <1>6, <1>7 DEF CpuAccess

LEMMA InterruptStep ==
  ASSUME TypeOK, AtnInv, [Next]_vars
  PROVE  [\A c \in Chips : \A f \in via[c].ifr \cup Called(c) : IsCycle =>
            /\ f \in via[c].ier => irq'
            /\ f \in via'[c].ifr \/ (c = Mine /\ Acknowledged(f))]_vars
<1> SUFFICES ASSUME NEW c \in Chips, NEW f \in via[c].ifr \cup Called(c), IsCycle
             PROVE  /\ f \in via[c].ier => irq'
                    /\ f \in via'[c].ifr \/ (c = Mine /\ Acknowledged(f))
  OBVIOUS
<1>1. NoAccessCycle \/ CpuAccess
  BY DEF IsCycle, Next, InsertDisk, EjectDisk, vars
<1>2. f \in via[c].ifr
  BY CalledIsFlagged
<1>3. f \in via[c].ier => irq'
  <2>1. irq' = \E d \in Chips : Tick(via[d]).irq
    BY <1>1, EachCycle DEF Cycle
  <2> QED BY <1>2, <2>1, SampledFlags
<1> QED BY <1>1, <1>2, <1>3, FlagsLeft

\* mos6522_t's register accesses and tick, C1541System::tick and
\* iec_update_via1_input: an enabled flag interrupts in every cycle until an access
\* to the register that acknowledges it, and a call of the machine is such a flag.
THEOREM InterruptsStay == Spec => InterruptUntilAcknowledged
<1>1. Init => AtnInv
  BY DEF Init, AtnInv
<1>2. Spec => [](TypeOK /\ AtnInv)
  BY TypeCorrect, <1>1, AtnNext, PTL DEF Spec
<1> QED BY <1>2, InterruptStep, PTL DEF Spec, InterruptUntilAcknowledged

-----------------------------------------------------------------------------
(* Bytes *)

\* The bit k positions before the head, and the ones that end there.
At(m, k) == Track[TrackOf(m)][((m.pos - k - 1) % NumBits(TrackOf(m))) + 1]
MarkAt(m, k) == \A i \in 0 .. SyncBits - 1 : At(m, k + i) = 1

\* The window is what the head has passed, and the bits of a byte are counted from
\* the nearest mark behind the head, which is less than a turn behind it.
CutFrom(m, k) ==
  /\ MarkAt(m, k) /\ \A j \in 0 .. k - 1 : ~MarkAt(m, j)
  /\ m.bits = k % ByteBits
  /\ k >= ByteBits => \A i \in 1 .. ByteBits : m.byte[i] = At(m, m.bits + ByteBits - i)

Framing(m) ==
  /\ NumBits(TrackOf(m)) > 0 /\ m.cached = TrackOf(m)
  /\ \A i \in 1 .. SyncBits : m.window[i] = At(m, SyncBits - i)
  /\ \E k \in 0 .. NumBits(TrackOf(m)) - 1 : CutFrom(m, k)

SyncInv(m) == /\ m.sync <=> AllOnes(m.window)
              /\ m.sync => m.bits = 0

FramedInv == SyncInv(mech) /\ (framed => Framing(mech))

LEMMA Widths == SyncBits \in Nat \ {0} /\ ByteBits \in Nat \ {0} /\ ByteBits <= SyncBits
BY MechanicsAssumption

LEMMA HeadIsInt ==
  ASSUME NEW m \in MechanicsType
  PROVE  m.pos \in Int
<1>1. Positions \subseteq Int
  BY DEF Positions
<1> QED BY <1>1 DEF MechanicsType

LEMMA FieldTypes ==
  ASSUME NEW m \in MechanicsType
  PROVE  /\ m.window \in [1 .. SyncBits -> {0, 1}] /\ m.byte \in [1 .. ByteBits -> {0, 1}]
         /\ m.bits \in 0 .. ByteBits - 1 /\ m.sync \in BOOLEAN
BY DEF MechanicsType

\* A turn of the disk leads back to the same bit.
LEMMA Turns ==
  ASSUME NEW m \in MechanicsType, NumBits(TrackOf(m)) > 0, NEW k \in Nat
  PROVE  At(m, k + NumBits(TrackOf(m))) = At(m, k)
<1> DEFINE n == NumBits(TrackOf(m))
           a == m.pos - k - 1
           q == a \div n
           r == a % n
<1>1. n \in Nat \ {0} /\ m.pos \in Int
  BY Tracks, HeadIsInt
<1>2. a \in Int
  BY <1>1
<1> HIDE DEF n
<1>3. a - n = m.pos - (k + n) - 1
  BY <1>1
<1> HIDE DEF a
<1>4. q \in Int /\ r \in 0 .. n - 1 /\ a = q * n + r
  BY <1>1, <1>2, DivMod
<1> HIDE DEF q, r
<1>5. a - n = (q - 1) * n + r /\ q - 1 \in Int
  <2>1. (q - 1) * n = q * n - n /\ q * n \in Int
    BY <1>1, <1>4
  <2> QED BY <1>1, <1>4, <2>1
<1>6. ((q - 1) * n + r) % n = r
  BY <1>1, <1>4, <1>5, ModUnique
<1>7. (a - n) % n = a % n
  BY <1>5, <1>6 DEF r
<1> QED BY <1>3, <1>7 DEF At, a, n

\* What a bit does to the fields that frame bytes.
LEMMA ShiftedFields ==
  ASSUME NEW m \in MechanicsType, NumBits(TrackOf(m)) > 0
  PROVE  LET s == Shifted(m)
             w == Append(Tail(m.window), BitUnderHead(m))
         IN /\ s.half = m.half /\ s.cached = m.cached /\ s.dirty = m.dirty
            /\ s.pos = (m.pos + 1) % NumBits(TrackOf(m))
            /\ s.window = w
            /\ s.sync <=> AllOnes(w) \/ (m.sync /\ BitUnderHead(m) = 1)
            /\ s.sync => s.bits = IF AllOnes(w) THEN 0 ELSE m.bits
            /\ ~s.sync => IF m.bits + 1 >= ByteBits
                          THEN /\ s.bits = 0
                               /\ s.byte = SubSeq(w, SyncBits - ByteBits + 1, SyncBits)
                          ELSE s.bits = m.bits + 1 /\ s.byte = m.byte
<1> DEFINE n == NumBits(TrackOf(m))
           bit == BitUnderHead(m)
           window == Append(Tail(m.window), bit)
           mark == AllOnes(window)
           sync == mark \/ (m.sync /\ bit = 1)
           bits == IF mark THEN 0 ELSE IF Counts(m, sync) THEN m.bits + 1 ELSE m.bits
           whole == bits >= ByteBits
           pos == (m.pos + 1) % n
           cut == SubSeq(window, SyncBits - ByteBits + 1, SyncBits)
           byte == IF whole THEN cut ELSE m.byte
           left == IF whole THEN 0 ELSE bits
           ready == whole \/ (m.ready /\ ~mark)
           s == Shifted(m)
<1>1. s = [m EXCEPT !.pos = pos, !.window = window, !.sync = sync, !.bits = left,
                    !.byte = byte, !.ready = ready]
  BY DEF Shifted, BitUnderHead
<1>2. sync \in BOOLEAN /\ m.bits \in 0 .. ByteBits - 1 /\ ByteBits \in Nat \ {0}
  BY FieldTypes, Widths DEF AllOnes
<1> HIDE DEF n, bit, window, mark, bits, whole, pos, byte, left, ready, sync, s
<1>3. /\ s.half = m.half /\ s.cached = m.cached /\ s.dirty = m.dirty
      /\ s.pos = pos /\ s.window = window /\ s.sync = sync /\ s.bits = left /\ s.byte = byte
  BY <1>1 DEF MechanicsType
<1>4. sync <=> mark \/ (m.sync /\ bit = 1)
  BY DEF sync
<1>5. sync => left = IF mark THEN 0 ELSE m.bits
  BY <1>2 DEF left, whole, bits, Counts
<1>6. ~sync => IF m.bits + 1 >= ByteBits THEN left = 0 /\ byte = cut
               ELSE left = m.bits + 1 /\ byte = m.byte
  BY <1>2, <1>4 DEF left, byte, whole, bits, Counts
<1> HIDE DEF cut
<1>7. /\ s.half = m.half /\ s.cached = m.cached /\ s.dirty = m.dirty
      /\ s.pos = pos /\ s.window = window
      /\ s.sync <=> mark \/ (m.sync /\ bit = 1)
      /\ s.sync => s.bits = IF mark THEN 0 ELSE m.bits
      /\ ~s.sync => IF m.bits + 1 >= ByteBits THEN s.bits = 0 /\ s.byte = cut
                    ELSE s.bits = m.bits + 1 /\ s.byte = m.byte
  BY <1>3, <1>4, <1>5, <1>6
<1> QED BY <1>7 DEF s, pos, n, window, mark, bit, cut

\* A bit moves every other one a position further from the head.
LEMMA BitsMove ==
  ASSUME NEW m \in MechanicsType, NumBits(TrackOf(m)) > 0
  PROVE  LET s == Shifted(m) IN
         /\ TrackOf(s) = TrackOf(m)
         /\ At(s, 0) = BitUnderHead(m)
         /\ \A k \in Nat : At(s, k + 1) = At(m, k)
         /\ \A k \in Nat : MarkAt(s, k + 1) <=> MarkAt(m, k)
<1> DEFINE n == NumBits(TrackOf(m))
           s == Shifted(m)
           p == m.pos
<1>1. n \in Nat \ {0} /\ p \in Int
  BY Tracks, HeadIsInt
<1>2. s.half = m.half /\ s.pos = (p + 1) % n
  BY ShiftedFields
<1>3. TrackOf(s) = TrackOf(m)
  BY <1>2 DEF TrackOf
<1> HIDE DEF s
<1>4. ASSUME NEW k \in Int PROVE (s.pos - k - 1) % n = (p - k) % n
  <2> HIDE DEF n, p
  <2>1. p + 1 \in Int /\ -k - 1 \in Int
    BY <1>1
  <2>2. (((p + 1) % n) + (-k - 1)) % n = ((p + 1) + (-k - 1)) % n
    BY <1>1, <2>1, ModAdd
  <2>3. (p + 1) % n \in Int
    BY <1>1, <2>1, DivMod
  <2>4. s.pos - k - 1 = ((p + 1) % n) + (-k - 1)
    BY <1>2, <2>3 DEF n, p
  <2>5. (p + 1) + (-k - 1) = p - k
    BY <1>1
  <2> QED BY <2>2, <2>4, <2>5
<1>5. At(s, 0) = BitUnderHead(m)
  <2>1. (s.pos - 0 - 1) % n = (p - 0) % n
    BY <1>4
  <2>2. p - 0 = p
    BY <1>1
  <2> QED BY <1>3, <2>1, <2>2 DEF At, BitUnderHead
<1>6. ASSUME NEW k \in Nat PROVE At(s, k + 1) = At(m, k)
  <2>1. k + 1 \in Int
    OBVIOUS
  <2>2. (s.pos - (k + 1) - 1) % n = (p - (k + 1)) % n
    BY <1>4, <2>1
  <2>3. p - (k + 1) = p - k - 1
    BY <1>1
  <2> QED BY <1>3, <2>2, <2>3 DEF At
<1>7. ASSUME NEW k \in Nat PROVE MarkAt(s, k + 1) <=> MarkAt(m, k)
  <2>1. ASSUME NEW i \in 0 .. SyncBits - 1 PROVE At(s, (k + 1) + i) = At(m, k + i)
    <3>1. k + i \in Nat /\ (k + 1) + i = (k + i) + 1
      BY Widths
    <3> QED BY <1>6, <3>1
  <2> QED BY <2>1 DEF MarkAt
<1> QED BY <1>3, <1>5, <1>6, <1>7 DEF s

LEMMA SyncShifts ==
  ASSUME NEW m \in MechanicsType, NumBits(TrackOf(m)) > 0, SyncInv(m)
  PROVE  /\ SyncInv(Shifted(m))
         /\ Shifted(m).sync <=> AllOnes(Append(Tail(m.window), BitUnderHead(m)))
<1> DEFINE s == Shifted(m)
           b == BitUnderHead(m)
           w == Append(Tail(m.window), b)
<1>1. /\ s.window = w
      /\ s.sync <=> AllOnes(w) \/ (m.sync /\ b = 1)
      /\ s.sync => s.bits = IF AllOnes(w) THEN 0 ELSE m.bits
  BY ShiftedFields
<1>2. b \in {0, 1} /\ m.window \in [1 .. SyncBits -> {0, 1}]
  BY ShiftedType, FieldTypes
<1>3. /\ w \in [1 .. SyncBits -> {0, 1}] /\ w[SyncBits] = b
      /\ \A i \in 1 .. SyncBits - 1 : w[i] = m.window[i + 1]
  BY <1>2, WindowTypes
<1>4. m.sync /\ b = 1 => AllOnes(w)
  <2> SUFFICES ASSUME m.sync, b = 1, NEW i \in 1 .. SyncBits PROVE w[i] = 1
    BY <1>3 DEF AllOnes
  <2>1. CASE i = SyncBits
    BY <1>3, <2>1
  <2>2. CASE i # SyncBits
    <3>1. i \in 1 .. SyncBits - 1 /\ i + 1 \in 1 .. SyncBits
      BY <2>2, Widths
    <3>2. m.window[i + 1] = 1
      BY <1>2, <3>1 DEF SyncInv, AllOnes
    <3> QED BY <1>3, <3>1, <3>2
  <2> QED BY <2>1, <2>2
<1> HIDE DEF w, b, s
<1>5. s.sync <=> AllOnes(w)
  BY <1>1, <1>4
<1>6. s.sync => s.bits = 0
  BY <1>1, <1>5
<1> QED BY <1>1, <1>5, <1>6 DEF SyncInv, s, w, b

LEMMA WindowShifts ==
  ASSUME NEW m \in MechanicsType, Framing(m)
  PROVE  \A i \in 1 .. SyncBits : Shifted(m).window[i] = At(Shifted(m), SyncBits - i)
<1> DEFINE s == Shifted(m)
           b == BitUnderHead(m)
           w == Append(Tail(m.window), b)
<1>0. NumBits(TrackOf(m)) > 0
  BY DEF Framing
<1>1. s.window = w
  BY <1>0, ShiftedFields
<1>2. b \in {0, 1} /\ m.window \in [1 .. SyncBits -> {0, 1}]
  BY <1>0, ShiftedType, FieldTypes
<1>3. w[SyncBits] = b /\ \A i \in 1 .. SyncBits - 1 : w[i] = m.window[i + 1]
  BY <1>2, WindowTypes
<1>4. At(s, 0) = b /\ \A k \in Nat : At(s, k + 1) = At(m, k)
  BY <1>0, BitsMove
<1> HIDE DEF s, b, w
<1> SUFFICES ASSUME NEW i \in 1 .. SyncBits PROVE w[i] = At(s, SyncBits - i)
  BY <1>1 DEF s
<1>5. CASE i = SyncBits
  <2>1. SyncBits - i = 0
    BY <1>5, Widths
  <2> QED BY <1>3, <1>4, <1>5, <2>1
<1>6. CASE i # SyncBits
  <2> DEFINE k == SyncBits - (i + 1)
  <2>1. i \in 1 .. SyncBits - 1 /\ i + 1 \in 1 .. SyncBits /\ k \in Nat /\ SyncBits - i = k + 1
    BY <1>6, Widths
  <2>2. m.window[i + 1] = At(m, k)
    BY <2>1 DEF Framing
  <2> HIDE DEF k
  <2> QED BY <1>3, <1>4, <2>1, <2>2
<1> QED BY <1>5, <1>6

\* A mark is what fills the window.
LEMMA MarkInWindow ==
  ASSUME NEW m \in MechanicsType, \A i \in 1 .. SyncBits : m.window[i] = At(m, SyncBits - i)
  PROVE  AllOnes(m.window) <=> MarkAt(m, 0)
<1>1. m.window \in [1 .. SyncBits -> {0, 1}]
  BY FieldTypes
<1>2. ASSUME AllOnes(m.window), NEW i \in 0 .. SyncBits - 1 PROVE At(m, 0 + i) = 1
  <2> DEFINE j == SyncBits - i
  <2>1. j \in 1 .. SyncBits /\ SyncBits - j = 0 + i
    BY Widths
  <2> HIDE DEF j
  <2>2. m.window[j] = 1
    BY <1>1, <1>2, <2>1 DEF AllOnes
  <2> QED BY <2>1, <2>2
<1>3. ASSUME MarkAt(m, 0), NEW i \in 1 .. SyncBits PROVE m.window[i] = 1
  <2> DEFINE j == SyncBits - i
  <2>1. j \in 0 .. SyncBits - 1 /\ 0 + j = j
    BY Widths
  <2>2. At(m, 0 + j) = 1
    BY <1>3, <2>1 DEF MarkAt
  <2> QED BY <2>1, <2>2
<1> QED BY <1>1, <1>2, <1>3 DEF AllOnes, MarkAt

\* Counting one bit further in a byte.
LEMMA NextBit ==
  ASSUME NEW k \in Nat
  PROVE  (k + 1) % ByteBits = IF (k % ByteBits) + 1 >= ByteBits THEN 0 ELSE (k % ByteBits) + 1
<1> DEFINE B == ByteBits
           x == k % B
<1>1. B \in Nat \ {0} /\ 0 \in Int /\ 1 \in Int /\ k \in Int
  BY Widths
<1>2. x \in 0 .. B - 1
  BY <1>1, DivMod
<1>3. (x + 1) % B = (k + 1) % B
  BY <1>1, ModAdd
<1> HIDE DEF x, B
<1>4. CASE x + 1 >= B
  <2>1. x + 1 = 1 * B + 0 /\ 0 \in 0 .. B - 1
    BY <1>1, <1>2, <1>4
  <2>2. (1 * B + 0) % B = 0
    BY <1>1, <2>1, ModUnique
  <2> QED BY <1>3, <1>4, <2>1, <2>2 DEF B, x
<1>5. CASE ~(x + 1 >= B)
  <2>1. x + 1 = 0 * B + (x + 1) /\ x + 1 \in 0 .. B - 1
    BY <1>1, <1>2, <1>5
  <2>2. (0 * B + (x + 1)) % B = x + 1
    BY <1>1, <2>1, ModUnique
  <2> QED BY <1>3, <1>5, <2>1, <2>2 DEF B, x
<1> QED BY <1>4, <1>5

LEMMA SmallRemainder ==
  ASSUME NEW k \in 0 .. ByteBits - 1
  PROVE  k % ByteBits = k
<1>1. ByteBits \in Nat \ {0} /\ 0 \in Int /\ 0 * ByteBits + k = k
  BY Widths
<1> QED BY <1>1, ModUnique

\* A bit, and the nearest mark is a position further behind the head.
LEMMA CutShifts ==
  ASSUME NEW m \in MechanicsType, SyncInv(m), Framing(m), ~Shifted(m).sync,
         NEW k \in 0 .. NumBits(TrackOf(m)) - 1, CutFrom(m, k)
  PROVE  k + 1 \in 0 .. NumBits(TrackOf(m)) - 1 /\ CutFrom(Shifted(m), k + 1)
<1> DEFINE n == NumBits(TrackOf(m))
           s == Shifted(m)
           w == Append(Tail(m.window), BitUnderHead(m))
           cut == SubSeq(w, SyncBits - ByteBits + 1, SyncBits)
<1>1. n \in Nat \ {0} /\ k \in Nat /\ k < n /\ ByteBits \in Nat \ {0} /\ SyncBits \in Nat \ {0}
        /\ ByteBits <= SyncBits /\ s \in MechanicsType
  BY Tracks, Widths, ShiftedType DEF Framing
<1>2. /\ TrackOf(s) = TrackOf(m)
      /\ \A j \in Nat : At(s, j + 1) = At(m, j)
      /\ \A j \in Nat : MarkAt(s, j + 1) <=> MarkAt(m, j)
  BY <1>1, BitsMove
<1>3. \A i \in 1 .. SyncBits : s.window[i] = At(s, SyncBits - i)
  BY WindowShifts
<1>4. ~MarkAt(s, 0)
  <2>1. s.window = w /\ ~AllOnes(w)
    BY <1>1, SyncShifts, ShiftedFields
  <2> HIDE DEF s, w
  <2> QED BY <1>1, <1>3, <2>1, MarkInWindow
<1>5. IF m.bits + 1 >= ByteBits THEN s.bits = 0 /\ s.byte = cut
      ELSE s.bits = m.bits + 1 /\ s.byte = m.byte
  <2>1. ~s.sync => IF m.bits + 1 >= ByteBits THEN s.bits = 0 /\ s.byte = cut
                   ELSE s.bits = m.bits + 1 /\ s.byte = m.byte
    <3>1. NumBits(TrackOf(m)) > 0
      BY DEF Framing
    <3> QED BY <3>1, ShiftedFields, Zenon
  <2> HIDE DEF cut, w
  <2> QED BY <2>1
<1>6. \A i \in 1 .. ByteBits : cut[i] = w[SyncBits - ByteBits + i]
  <2>1. BitUnderHead(m) \in {0, 1} /\ m.window \in [1 .. SyncBits -> {0, 1}]
    BY <1>1, ShiftedType, FieldTypes
  <2> QED BY <2>1, WindowTypes
<1>7. s.window = w
  BY <1>1, ShiftedFields
<1>8. m.bits = k % ByteBits /\ m.bits \in 0 .. ByteBits - 1
  BY FieldTypes DEF CutFrom
<1>9. MarkAt(m, k) /\ \A j \in 0 .. k - 1 : ~MarkAt(m, j)
  BY DEF CutFrom
<1>10. k >= ByteBits => \A i \in 1 .. ByteBits : m.byte[i] = At(m, m.bits + ByteBits - i)
  BY DEF CutFrom
<1> HIDE DEF n, s, w, cut
<1>11. MarkAt(s, k + 1)
  BY <1>1, <1>2, <1>9
<1>12. k + 1 < n
  <2> SUFFICES ASSUME k + 1 = n PROVE FALSE
    BY <1>1
  <2>1. ASSUME NEW i \in 0 .. SyncBits - 1 PROVE At(s, 0 + i) = 1
    <3>1. i \in Nat /\ 0 + i = i /\ (k + 1) + i = i + n
      BY <1>1
    <3>2. At(s, i + n) = At(s, i)
      BY <1>1, <1>2, <3>1, Turns DEF n
    <3>3. At(s, (k + 1) + i) = 1
      BY <1>11 DEF MarkAt
    <3> QED BY <3>1, <3>2, <3>3
  <2> QED BY <1>4, <2>1 DEF MarkAt
<1>13. \A j \in 0 .. (k + 1) - 1 : ~MarkAt(s, j)
  <2> TAKE j \in 0 .. (k + 1) - 1
  <2>1. CASE j = 0
    BY <1>4, <2>1
  <2>2. CASE j # 0
    <3> DEFINE l == j - 1
    <3>1. l \in 0 .. k - 1 /\ l \in Nat /\ j = l + 1
      BY <1>1, <2>2
    <3> HIDE DEF l
    <3> QED BY <1>2, <1>9, <3>1
  <2> QED BY <2>1, <2>2
<1>14. s.bits = (k + 1) % ByteBits
  BY <1>1, <1>5, <1>8, NextBit
<1>15. ASSUME k + 1 >= ByteBits, NEW i \in 1 .. ByteBits
       PROVE  s.byte[i] = At(s, s.bits + ByteBits - i)
  <2>1. CASE m.bits + 1 >= ByteBits
    <3> DEFINE j == SyncBits - ByteBits + i
    <3>1. j \in 1 .. SyncBits /\ SyncBits - j = 0 + ByteBits - i
      BY <1>1
    <3>2. s.byte[i] = w[j]
      BY <1>5, <1>6, <2>1
    <3> HIDE DEF j
    <3>3. w[j] = At(s, SyncBits - j)
      BY <1>3, <1>7, <3>1
    <3> QED BY <1>5, <2>1, <3>1, <3>2, <3>3
  <2>2. CASE ~(m.bits + 1 >= ByteBits)
    <3>1. k >= ByteBits
      <4> SUFFICES ASSUME k <= ByteBits - 1 PROVE FALSE
        BY <1>1
      <4>1. k \in 0 .. ByteBits - 1
        BY <1>1
      <4>2. m.bits = k
        BY <1>8, <4>1, SmallRemainder
      <4> QED BY <1>1, <1>15, <2>2, <4>2
    <3>2. s.byte[i] = At(m, m.bits + ByteBits - i)
      BY <1>5, <1>10, <2>2, <3>1
    <3> DEFINE l == m.bits + ByteBits - i
    <3>3. l \in Nat /\ s.bits + ByteBits - i = l + 1
      BY <1>1, <1>5, <1>8, <2>2
    <3> HIDE DEF l
    <3> QED BY <1>2, <3>2, <3>3 DEF l
  <2> QED BY <2>1, <2>2
<1>16. k + 1 \in 0 .. n - 1
  BY <1>1, <1>12
<1>17. CutFrom(s, k + 1)
  BY <1>11, <1>13, <1>14, <1>15 DEF CutFrom
<1> QED BY <1>16, <1>17 DEF n, s

LEMMA FramingShifts ==
  ASSUME NEW m \in MechanicsType, SyncInv(m), Framing(m)
  PROVE  Framing(Shifted(m))
<1> DEFINE s == Shifted(m)
<1>1. NumBits(TrackOf(m)) > 0 /\ m.cached = TrackOf(m)
  BY DEF Framing
<1>2. /\ TrackOf(s) = TrackOf(m) /\ s.cached = m.cached /\ s \in MechanicsType
      /\ SyncInv(s)
  BY <1>1, BitsMove, ShiftedFields, ShiftedType, SyncShifts
<1>3. \A i \in 1 .. SyncBits : s.window[i] = At(s, SyncBits - i)
  BY WindowShifts
<1>4. \E k \in 0 .. NumBits(TrackOf(m)) - 1 : CutFrom(s, k)
  <2>1. CASE s.sync
    <3> HIDE DEF s
    <3>1. s.bits = 0 /\ MarkAt(s, 0)
      BY <1>2, <1>3, <2>1, MarkInWindow DEF SyncInv
    <3>2. 0 % ByteBits = 0 /\ ~(0 >= ByteBits)
      BY Widths, SmallRemainder
    <3>3. CutFrom(s, 0)
      BY <3>1, <3>2 DEF CutFrom
    <3>4. 0 \in 0 .. NumBits(TrackOf(m)) - 1
      BY <1>1, Tracks
    <3> QED BY <3>3, <3>4
  <2>2. CASE ~s.sync
    <3>1. PICK k \in 0 .. NumBits(TrackOf(m)) - 1 : CutFrom(m, k)
      BY DEF Framing
    <3> QED BY <2>2, <3>1, CutShifts
  <2> QED BY <2>1, <2>2
<1> HIDE DEF s
<1> QED BY <1>1, <1>2, <1>3, <1>4 DEF Framing, s

SameBits(x, m) == x.window = m.window /\ x.bits = m.bits /\ x.byte = m.byte /\ x.sync = m.sync
SameFrame(x, m) == SameBits(x, m) /\ x.half = m.half /\ x.pos = m.pos /\ x.cached = m.cached

LEMMA SameFraming ==
  ASSUME NEW m, NEW x
  PROVE  /\ SameBits(x, m) /\ SyncInv(m) => SyncInv(x)
         /\ SameFrame(x, m) /\ Framing(m) => Framing(x)
<1>1. SameBits(x, m) /\ SyncInv(m) => SyncInv(x)
  BY DEF SameBits, SyncInv
<1>2. ASSUME SameFrame(x, m), Framing(m) PROVE Framing(x)
  <2>1. /\ TrackOf(x) = TrackOf(m) /\ x.pos = m.pos /\ x.cached = m.cached
        /\ x.window = m.window /\ x.bits = m.bits /\ x.byte = m.byte
    BY <1>2 DEF SameFrame, SameBits, TrackOf
  <2>2. \A k : At(x, k) = At(m, k)
    BY <2>1 DEF At
  <2>3. \A k : MarkAt(x, k) <=> MarkAt(m, k)
    BY <2>2 DEF MarkAt
  <2>4. \A k : CutFrom(m, k) => CutFrom(x, k)
    BY <2>1, <2>2, <2>3 DEF CutFrom
  <2> QED BY <1>2, <2>1, <2>2, <2>4 DEF Framing
<1> QED BY <1>1, <1>2

\* A turn of the disk is at most one bit, and the same track unless a new disk is
\* encoded or the head has moved.
LEMMA Turned ==
  ASSUME NEW m \in MechanicsType
  PROVE  /\ Advance(m).half = m.half /\ Advance(m).phase = m.phase
         /\ \E x \in MechanicsType :
              /\ SameBits(x, m) /\ x.half = m.half
              /\ Advance(m) = x \/ (NumBits(TrackOf(x)) > 0 /\ Advance(m) = Shifted(x))
              /\ Advance(m).dirty = m.dirty /\ m.cached = TrackOf(m) => SameFrame(x, m)
<1> DEFINE n == EnsureTrack(m)
           c == Clocked(n)
           a == Advance(m)
<1>1. n \in MechanicsType /\ c \in MechanicsType /\ a \in MechanicsType
  BY EnsureType, ClockedType, AdvanceType
<1>2. /\ SameBits(n, m) /\ n.half = m.half /\ n.phase = m.phase
      /\ n.dirty = m.dirty /\ m.cached = TrackOf(m) => n = m
      /\ ~n.dirty
  <2> DEFINE t == TrackOf(m)
             q == IF NumBits(m.cached) > 0 /\ NumBits(t) > 0
                    THEN ((m.pos * NumBits(t)) \div NumBits(m.cached)) % NumBits(t) ELSE 0
  <2>1. n = IF m.dirty THEN [m EXCEPT !.dirty = FALSE, !.cached = t]
            ELSE IF t = m.cached THEN m ELSE [m EXCEPT !.cached = t, !.pos = q]
    BY DEF EnsureTrack
  <2> HIDE DEF t, q, n
  <2>2. SameBits(n, m) /\ n.half = m.half /\ n.phase = m.phase /\ ~n.dirty
    BY <2>1 DEF SameBits, MechanicsType
  <2>3. n.dirty = m.dirty /\ m.cached = t => n = m
    BY <2>1, <2>2
  <2> QED BY <2>2, <2>3 DEF t
<1> HIDE DEF n
<1>3. SameFrame(c, n) /\ c.phase = n.phase /\ c.dirty = n.dirty
  <2> DEFINE u == (n.ue7 + RefTicks) % Threshold(n)
             f == (n.uf4 + Overflows(n)) % 4
  <2>1. c = [n EXCEPT !.ue7 = u, !.uf4 = f]
    BY DEF Clocked
  <2> HIDE DEF u, f, c
  <2> QED BY <1>1, <2>1 DEF MechanicsType, SameFrame, SameBits
<1> HIDE DEF c
<1>4. a = IF ~m.motor \/ ~m.loaded THEN m
          ELSE IF ~ReadsTrack(n) THEN n
          ELSE IF CellEnds(n) THEN Shifted(c) ELSE c
  BY DEF Advance, n, c
<1>5. NumBits(TrackOf(c)) = NumBits(TrackOf(n))
  BY <1>3 DEF SameFrame, TrackOf
<1>6. ASSUME ReadsTrack(n)
      PROVE  /\ NumBits(TrackOf(c)) > 0
             /\ Shifted(c).half = c.half /\ Shifted(c).dirty = c.dirty /\ Shifted(c).phase = c.phase
  <2>1. NumBits(TrackOf(c)) > 0
    BY <1>5, <1>6 DEF ReadsTrack
  <2>2. Shifted(c).half = c.half /\ Shifted(c).dirty = c.dirty
    BY <1>1, <2>1, ShiftedFields
  <2>3. Shifted(c).phase = c.phase
    <3>1. ASSUME NEW p, NEW w, NEW s, NEW b, NEW y, NEW r
          PROVE  [c EXCEPT !.pos = p, !.window = w, !.sync = s, !.bits = b, !.byte = y,
                           !.ready = r].phase = c.phase
      BY <1>1 DEF MechanicsType
    <3> QED BY <3>1 DEF Shifted
  <2> QED BY <2>1, <2>2, <2>3
<1> HIDE DEF a
<1>7. CASE a = m
  <2>1. SameBits(m, m) /\ SameFrame(m, m)
    BY DEF SameBits, SameFrame
  <2> QED BY <1>7, <2>1 DEF a
<1>8. CASE a = n
  <2>1. SameFrame(n, n)
    BY DEF SameBits, SameFrame
  <2> QED BY <1>1, <1>2, <1>8, <2>1 DEF a
<1>9. SameBits(c, m) /\ c.half = m.half
  BY <1>2, <1>3 DEF SameFrame, SameBits
<1>10. c.dirty = m.dirty /\ m.cached = TrackOf(m) => SameFrame(c, m)
  BY <1>2, <1>3
<1>11. CASE a = c
  BY <1>1, <1>2, <1>3, <1>9, <1>10, <1>11 DEF a, SameFrame
<1>12. CASE ReadsTrack(n) /\ a = Shifted(c)
  BY <1>1, <1>2, <1>3, <1>6, <1>9, <1>10, <1>12 DEF a, SameFrame
<1> QED BY <1>4, <1>7, <1>8, <1>11, <1>12

\* The port moves the head and nothing else that frames bytes; moving it twice
\* with the same value moves it once.
LEMMA Moved ==
  ASSUME NEW m \in MechanicsType, NEW port
  PROVE  LET u == MechanicsUpdate(m, port) IN
         /\ SameBits(u, m) /\ u.pos = m.pos /\ u.cached = m.cached /\ u.dirty = m.dirty
         /\ u.phase = Phase(port)
         /\ u.half = Stepped(m.half, m.phase, Phase(port))
         /\ m.phase = Phase(port) => u.half = m.half
<1> DEFINE u == MechanicsUpdate(m, port)
           h == Stepped(m.half, m.phase, Phase(port))
           p == Phase(port)
           z == Zone(port)
           on == "motor" \in port
<1>1. u = [m EXCEPT !.motor = on, !.zone = z, !.half = h, !.phase = p]
  BY DEF MechanicsUpdate
<1>2. m.phase = p => h = m.half
  <2>1. p \in 0 .. 3
    BY DEF Phase, Bit
  <2>2. m.phase = p => Turn(m.phase, p) = 0
    BY <2>1 DEF Turn
  <2> QED BY <2>2 DEF Stepped
<1> HIDE DEF h, p, z, on, u
<1> QED BY <1>1, <1>2 DEF MechanicsType, SameBits, u, h, p

LEMMA HandedFrame ==
  ASSUME TypeOK, NEW vias, NEW m, Handed(vias, m)
  PROVE  /\ SameBits(m, mech) /\ m.pos = mech.pos /\ m.cached = mech.cached /\ m.dirty = mech.dirty
         /\ m.half = mech.half \/ m.phase = Phase(OutputB(vias["via2"]))
<1>1. mech \in MechanicsType
  BY TypeParts
<1>2. CASE m = mech
  BY <1>2 DEF SameBits
<1>3. CASE m = [mech EXCEPT !.ready = FALSE]
  BY <1>1, <1>3 DEF SameBits, MechanicsType
<1>4. CASE m = MechanicsUpdate(mech, OutputB(vias["via2"]))
  <2> DEFINE port == OutputB(vias["via2"])
  <2> HIDE DEF port
  <2>1. m = MechanicsUpdate(mech, port)
    BY <1>4 DEF port
  <2> QED BY <1>1, <2>1, Moved DEF port
<1> QED BY <1>2, <1>3, <1>4 DEF Handed

LEMMA FramedCycle ==
  ASSUME TypeOK, FramedInv, NEW vias, NEW m, Handed(vias, m), Cycle(vias, m)
  PROVE  FramedInv'
<1> DEFINE port == OutputB(vias["via2"])
           turned == Advance(m)
           u == MechanicsUpdate(turned, port)
<1>1. mech \in MechanicsType /\ m \in MechanicsType /\ turned \in MechanicsType /\ u \in MechanicsType
  BY TypeParts, HandedType, AdvanceType, UpdateType
<1>2. /\ SameBits(m, mech) /\ m.pos = mech.pos /\ m.cached = mech.cached /\ m.dirty = mech.dirty
      /\ m.half = mech.half \/ m.phase = Phase(port)
  BY HandedFrame
<1>3. mech' = u /\ framed' = (/\ mech'.half = mech.half
                              /\ mech'.dirty = mech.dirty
                              /\ framed \/ (mech'.sync /\ OnMark(mech')))
  BY DEF Cycle
<1> HIDE DEF port
<1>4. /\ SameBits(u, turned) /\ u.pos = turned.pos /\ u.cached = turned.cached
      /\ u.dirty = turned.dirty
      /\ turned.phase = Phase(port) => u.half = turned.half
  BY <1>1, Moved
<1>5. /\ turned.half = m.half /\ turned.phase = m.phase
  BY <1>1, Turned
<1>6. PICK x \in MechanicsType :
        /\ SameBits(x, m) /\ x.half = m.half
        /\ turned = x \/ (NumBits(TrackOf(x)) > 0 /\ turned = Shifted(x))
        /\ turned.dirty = m.dirty /\ m.cached = TrackOf(m) => SameFrame(x, m)
  BY <1>1, Turned
<1> HIDE DEF turned, u
<1>7. SyncInv(mech')
  <2>1. SyncInv(m)
    BY <1>2, SameFraming DEF FramedInv
  <2>2. SyncInv(x)
    BY <1>6, <2>1, SameFraming
  <2>3. SyncInv(turned)
    BY <1>6, <2>2, SyncShifts
  <2> QED BY <1>3, <1>4, <2>3, SameFraming
<1>8. ASSUME framed' PROVE Framing(mech')
  <2>1. u.half = mech.half /\ u.dirty = mech.dirty /\ (framed \/ (u.sync /\ OnMark(u)))
    BY <1>3, <1>8
  <2>2. m.half = mech.half /\ u.half = turned.half
    BY <1>2, <1>4, <1>5, <2>1
  <2>3. CASE framed
    <3>1. SyncInv(mech) /\ Framing(mech)
      BY <2>3 DEF FramedInv
    <3>2. SameFrame(m, mech)
      BY <1>2, <2>2 DEF SameFrame
    <3>3. SyncInv(m) /\ Framing(m)
      BY <1>2, <3>1, <3>2, SameFraming
    <3>4. m.cached = TrackOf(m)
      BY <3>3 DEF Framing
    <3>5. SameFrame(x, m)
      BY <1>2, <1>4, <1>6, <2>1, <3>4
    <3>6. SyncInv(x) /\ Framing(x)
      BY <1>6, <3>3, <3>5, SameFraming
    <3>7. Framing(turned)
      BY <1>6, <3>6, FramingShifts
    <3>8. SameFrame(u, turned)
      BY <1>4, <2>2 DEF SameFrame
    <3> QED BY <1>3, <3>7, <3>8, SameFraming
  <2>4. CASE u.sync /\ OnMark(u)
    <3> DEFINE n == NumBits(TrackOf(u))
    <3>1. /\ u.cached = TrackOf(u) /\ n > 0
          /\ \A i \in 1 .. SyncBits : Track[TrackOf(u)][((u.pos - i) % n) + 1] = 1
      BY <2>4 DEF OnMark
    <3>2. AllOnes(u.window) /\ u.bits = 0 /\ u.window \in [1 .. SyncBits -> {0, 1}]
      BY <1>1, <1>3, <1>7, <2>4, FieldTypes DEF SyncInv
    <3>3. ASSUME NEW j \in 0 .. SyncBits - 1 PROVE At(u, j) = 1
      <4>1. j + 1 \in 1 .. SyncBits /\ u.pos - (j + 1) = u.pos - j - 1
        BY <1>1, Widths, HeadIsInt
      <4> QED BY <3>1, <4>1 DEF At
    <3>4. \A i \in 1 .. SyncBits : u.window[i] = At(u, SyncBits - i)
      <4> TAKE i \in 1 .. SyncBits
      <4>1. SyncBits - i \in 0 .. SyncBits - 1
        BY Widths
      <4>2. u.window[i] = 1
        BY <3>2 DEF AllOnes
      <4> QED BY <3>3, <4>1, <4>2
    <3>5. MarkAt(u, 0)
      BY <1>1, <3>2, <3>4, MarkInWindow
    <3>6. 0 % ByteBits = 0 /\ ~(0 >= ByteBits)
      BY Widths, SmallRemainder
    <3>7. CutFrom(u, 0)
      BY <3>2, <3>5, <3>6 DEF CutFrom
    <3>8. 0 \in 0 .. n - 1
      BY <3>1, Tracks
    <3> QED BY <1>3, <3>1, <3>4, <3>7, <3>8 DEF Framing
  <2> QED BY <2>1, <2>3, <2>4
<1> QED BY <1>7, <1>8 DEF FramedInv

LEMMA ResetSync ==
  ASSUME NEW m
  PROVE  SyncInv(MechanicsReset(m))
<1> DEFINE zeros == [i \in 1 .. SyncBits |-> 0]
<1>1. MechanicsReset(m).window = zeros /\ ~MechanicsReset(m).sync
  BY DEF MechanicsReset
<1>2. ~AllOnes(zeros)
  BY Widths DEF AllOnes
<1> QED BY <1>1, <1>2 DEF SyncInv

LEMMA FramedNext == TypeOK /\ FramedInv /\ [Next]_vars => FramedInv'
<1> SUFFICES ASSUME TypeOK, FramedInv, [Next]_vars PROVE FramedInv'
  OBVIOUS
<1>m. mech \in MechanicsType
  BY TypeParts
<1>1. CASE NoAccessCycle \/ CpuAccess
  BY <1>1, EachCycle, FramedCycle
<1>2. CASE Reset
  <2>1. mech' = MechanicsReset(mech) /\ ~framed'
    BY <1>2 DEF Reset, StateAfterReset
  <2> QED BY <2>1, ResetSync DEF FramedInv
<1>3. CASE InsertDisk \/ EjectDisk
  <2>1. SameBits(mech', mech) /\ ~framed'
    BY <1>m, <1>3 DEF InsertDisk, EjectDisk, SameBits, MechanicsType
  <2> QED BY <2>1, SameFraming DEF FramedInv
<1>4. CASE UNCHANGED vars
  <2>1. mech' = mech /\ framed' = framed
    BY <1>4 DEF vars, history
  <2> QED BY <2>1 DEF FramedInv
<1> QED BY <1>1, <1>2, <1>3, <1>4 DEF Next

\* The nearest mark is what CHOOSE finds, for there is one at most.
LEMMA FramesBytes ==
  ASSUME TypeOK, FramedInv
  PROVE  BytesFramed
<1> SUFFICES ASSUME framed PROVE /\ mech.bits = FromMark % ByteBits
                                 /\ FromMark >= ByteBits =>
                                      \A i \in 1 .. ByteBits :
                                        mech.byte[i] = BitBefore(mech.bits + ByteBits - i)
  BY DEF BytesFramed
<1> DEFINE n == NumBits(TrackOf(mech))
<1>1. PICK k \in 0 .. n - 1 : CutFrom(mech, k)
  BY DEF FramedInv, Framing
<1>2. n \in Nat
  BY Tracks
<1>3. \A j : BitBefore(j) = At(mech, j)
  BY DEF BitBefore, At
<1>4. \A j : IsMark(j) <=> MarkAt(mech, j)
  BY <1>3 DEF IsMark, MarkAt
<1> DEFINE Nearest(j) == IsMark(j) /\ \A l \in 0 .. j - 1 : ~IsMark(l)
<1>5. Nearest(k)
  BY <1>1, <1>4 DEF CutFrom
<1>6. FromMark = k
  <2>1. FromMark = CHOOSE j \in 0 .. n : Nearest(j)
    BY DEF FromMark
  <2>2. k \in 0 .. n
    BY <1>1, <1>2
  <2>3. ASSUME NEW j \in 0 .. n, Nearest(j) PROVE j = k
    <3>1. ~(j < k) /\ ~(k < j)
      BY <1>1, <1>2, <1>5, <2>3
    <3> QED BY <1>1, <1>2, <3>1
  <2> HIDE DEF n, Nearest
  <2> QED BY <1>5, <2>1, <2>2, <2>3
<1> QED BY <1>1, <1>3, <1>6 DEF CutFrom

\* gcr_advance: once it has passed a sync mark of the track, the drive cuts bytes
\* where the track has them, counted from the last mark, for any tracks and any
\* length of a mark, however the density, the motor and the disk change.
THEOREM BytesAreFramed == Spec => []BytesFramed
<1>1. Init => FramedInv
  BY ResetSync DEF Init, NoDisk, FramedInv
<1> QED BY TypeCorrect, <1>1, FramedNext, FramesBytes, PTL DEF Spec

=============================================================================
