---------------------------- MODULE Cia6526Proofs ----------------------------
(***************************************************************************)
(* Theorems about Cia6526, for any width of a byte, any digits of the      *)
(* clock, any dividers and any programs.                                   *)
(***************************************************************************)
EXTENDS Cia6526, FiniteSetTheorems, TLAPS

-----------------------------------------------------------------------------
(* Quotients and remainders *)

LEMMA Scale ==
  ASSUME NEW n \in Nat, NEW a \in Int, NEW b \in Int, a <= b
  PROVE  a * n <= b * n
OBVIOUS

LEMMA DivMod ==
  ASSUME NEW n \in Nat \ {0}, NEW a \in Int
  PROVE  /\ a % n \in 0 .. n - 1 /\ a \div n \in Int
         /\ a = (a \div n) * n + (a % n)
OBVIOUS

\* Quotient and remainder are unique.
LEMMA ModUnique ==
  ASSUME NEW n \in Nat \ {0}, NEW a \in Int, NEW q \in Int, NEW s \in 0 .. n - 1,
         a = q * n + s
  PROVE  a % n = s
<1> DEFINE p == a \div n
           x == a % n
           c == p - q
<1>1. p \in Int /\ x \in 0 .. n - 1 /\ a = p * n + x
  BY DivMod
<1> HIDE DEF p, x
<1>2. c \in Int /\ c * n = s - x
  <2>1. c * n = p * n - q * n /\ p * n \in Int /\ q * n \in Int
    BY <1>1
  <2> QED BY <1>1, <2>1
<1> HIDE DEF c
<1>3. (c >= 1 => 1 * n <= c * n) /\ (c <= -1 => c * n <= (-1) * n)
  BY <1>2, Scale
<1>4. c = 0
  BY <1>1, <1>2, <1>3
<1> QED BY <1>1, <1>2, <1>4 DEF x

\* Numbers that differ by a multiple have the same remainder.
LEMMA SameRemainder ==
  ASSUME NEW n \in Nat \ {0}, NEW a \in Int, NEW k \in Int
  PROVE  (a + k * n) % n = a % n
<1> DEFINE p == a \div n
           b == a + k * n
           x == a % n
<1>1. p \in Int /\ x \in 0 .. n - 1 /\ a = p * n + x
  BY DivMod
<1> HIDE DEF p, x
<1>2. b = (p + k) * n + x /\ b \in Int /\ p + k \in Int
  <2>1. (p + k) * n = p * n + k * n /\ p * n \in Int /\ k * n \in Int
    BY <1>1
  <2> QED BY <1>1, <2>1
<1> HIDE DEF b
<1>3. b % n = x
  BY <1>1, <1>2, ModUnique
<1> QED BY <1>3 DEF b, x

\* Reducing an index early makes no difference to where it goes on from.
LEMMA ModAdd ==
  ASSUME NEW n \in Nat \ {0}, NEW a \in Int, NEW k \in Int
  PROVE  ((a % n) + k) % n = (a + k) % n
<1> DEFINE p == a \div n
           x == a % n
           y == x + k
<1>1. p \in Int /\ x \in Int /\ y \in Int /\ a + k = y + p * n
  BY DivMod
<1> HIDE DEF p, y
<1>2. (y + p * n) % n = y % n
  BY <1>1, SameRemainder
<1> QED BY <1>1, <1>2 DEF y

LEMMA ModSubtract ==
  ASSUME NEW n \in Nat \ {0}, NEW a \in Int, NEW b \in Int
  PROVE  (a - (b % n)) % n = (a - b) % n
<1> DEFINE q == b \div n
           x == b % n
           d == a - b
<1>1. q \in Int /\ x \in Int /\ d \in Int /\ a - x = d + q * n
  BY DivMod
<1> HIDE DEF q, x
<1>2. (d + q * n) % n = d % n
  <2> HIDE DEF d
  <2> QED BY <1>1, SameRemainder
<1> QED BY <1>1, <1>2 DEF x

LEMMA Reduced ==
  ASSUME NEW n \in Nat \ {0}
  PROVE  /\ \A a \in 0 .. n - 1 : a % n = a
         /\ n % n = 0
OBVIOUS

-----------------------------------------------------------------------------
(* Widths *)

LEMMA Widths ==
  /\ Byte \in Nat \ {0} /\ Byte > 1 /\ Word \in Nat \ {0} /\ Word > 3
  /\ Word = Byte * Byte /\ Word = (Byte - 1) * Byte + Byte
  /\ 0 \in 0 .. Word - 1 /\ Word - 1 \in 0 .. Word - 1
  /\ \A i \in Int : i % Word \in 0 .. Word - 1
<1>1. Byte \in Nat /\ Byte > 1
  BY CiaAssumption
<1>2. Byte * Byte >= 2 * Byte /\ Word \in Nat
  BY <1>1, Scale DEF Word
<1>3. Word = (Byte - 1) * Byte + Byte
  BY <1>1 DEF Word
<1>4. Word > 3
  BY <1>1, <1>2 DEF Word
<1>5. \A i \in Int : i % Word \in 0 .. Word - 1
  BY <1>2, <1>4, DivMod
<1> QED BY <1>1, <1>2, <1>3, <1>4, <1>5 DEF Word

\* A digit on top of a lower one stays under the product of their bases.
LEMMA TwoDigits ==
  ASSUME NEW n \in Nat \ {0}, NEW k \in Nat \ {0},
         NEW q \in 0 .. k - 1, NEW r \in 0 .. n - 1
  PROVE  q * n + r \in 0 .. k * n - 1
<1> DEFINE x == q * n
           y == (k - 1) * n
<1>1. 0 * n <= x /\ x <= y
  BY Scale
<1>2. x \in Int /\ y \in Int /\ k * n = y + n
  OBVIOUS
<1> HIDE DEF x, y
<1>3. x + r \in 0 .. (y + n) - 1
  BY <1>1, <1>2
<1> QED BY <1>2, <1>3 DEF x

\* A write of one byte leaves a latch in its width.
LEMMA Halves ==
  ASSUME NEW n \in 0 .. Word - 1, NEW b \in Bytes
  PROVE  /\ ((n \div Byte) * Byte) + b \in 0 .. Word - 1
         /\ (b * Byte) + (n % Byte) \in 0 .. Word - 1
<1> DEFINE h == n \div Byte
           l == n % Byte
<1>1. n \in Int /\ h \in Int /\ l \in 0 .. Byte - 1 /\ n = h * Byte + l
  BY Widths, DivMod
<1> HIDE DEF h, l
<1>2. h <= Byte - 1
  <2> SUFFICES ASSUME h >= Byte PROVE FALSE
    BY <1>1, Widths
  <2>1. Byte * Byte <= h * Byte
    BY <1>1, Widths, Scale
  <2> QED BY <1>1, <2>1, Widths
<1>3. h >= 0
  <2> SUFFICES ASSUME h <= -1 PROVE FALSE
    BY <1>1
  <2>1. h * Byte <= (-1) * Byte
    BY <1>1, Widths, Scale
  <2> QED BY <1>1, <2>1, Widths
<1>4. h \in 0 .. Byte - 1 /\ b \in 0 .. Byte - 1
  BY <1>1, <1>2, <1>3, Widths DEF Bytes
<1>5. h * Byte + b \in 0 .. Word - 1 /\ b * Byte + l \in 0 .. Word - 1
  BY <1>1, <1>4, Widths, TwoDigits
<1> QED BY <1>5 DEF h, l

-----------------------------------------------------------------------------
(* Types *)

TypeInv ==
  /\ TypeOK
  /\ icr_read = FALSE
  /\ tod.time.h > 0

LEMMA DecreasedType ==
  ASSUME NEW v \in TimerType
  PROVE  AfterLoad(Decreased(v)) \in TimerType
<1>1. Counted(v) \in 0 .. Word - 1
  BY Widths DEF Counted, TimerType
<1>2. Decreased(v) \in TimerType
  BY <1>1 DEF Decreased, Reloaded, PipeAfterLoad, TimerType
<1> QED BY <1>2 DEF AfterLoad, Reloaded, PipeAfterLoad, TimerType

LEMMA TimersAfterType ==
  ASSUME TypeOK
  PROVE  TimersAfter \in [Timers -> TimerType]
<1> SUFFICES ASSUME NEW t \in Timers
             PROVE  Piped(AfterLoad(Decreased(timer[t])), Counts(t)) \in TimerType
  BY DEF TimersAfter
<1> DEFINE v == AfterLoad(Decreased(timer[t]))
<1>1. v \in TimerType
  BY DecreasedType DEF TypeOK
<1> HIDE DEF v
<1>2. Piped(v, Counts(t)) \in TimerType
  BY <1>1 DEF Piped, TimerType
<1> QED BY <1>2 DEF v

LEMMA CountsAfterType ==
  ASSUME TypeOK
  PROVE  /\ CountsAfter \in [Timers -> 0 .. Word - 1]
         /\ LoadedAfter \in [Timers -> 0 .. Word - 1]
<1>1. \A t \in Timers : counts[t] \in Int /\ timer[t].latch \in 0 .. Word - 1
  BY DEF TypeOK, TimerType
<1> QED BY <1>1, Widths DEF TypeOK, CountsAfter, LoadedAfter

LEMMA HourCases ==
  ASSUME NEW x, x.h \in Int
  PROVE  \/ x.h + 1 < Noon /\ NextHour(x) = [x EXCEPT !.h = @ + 1]
         \/ x.h + 1 = Noon /\ NextHour(x) = [x EXCEPT !.h = @ + 1, !.pm = ~@]
         \/ x.h + 1 > Noon /\ NextHour(x) = [x EXCEPT !.h = 1]
<1>1. Noon \in Nat
  BY CiaAssumption
<1>2. CASE x.h + 1 < Noon
  <2>1. ~(x.h + 1 = Noon) /\ ~(x.h + 1 > Noon)
    BY <1>1, <1>2
  <2> QED BY <1>2, <2>1, Zenon DEF NextHour
<1>3. CASE x.h + 1 = Noon
  <2>1. ~(x.h + 1 < Noon) /\ ~(x.h + 1 > Noon)
    BY <1>1, <1>3
  <2> QED BY <1>3, <2>1, Zenon DEF NextHour
<1>4. CASE x.h + 1 > Noon
  <2>1. ~(x.h + 1 < Noon) /\ ~(x.h + 1 = Noon)
    BY <1>1, <1>4
  <2> QED BY <1>4, <2>1, Zenon DEF NextHour
<1> QED BY <1>1, <1>2, <1>3, <1>4

\* A tenth changes the tenths, and the hours of no time are none.
LEMMA NextTenthType ==
  ASSUME NEW x \in Times, x.h > 0
  PROVE  NextTenth(x) \in Times /\ NextTenth(x).h > 0 /\ NextTenth(x).t # x.t
<1>1. Tenths \in Nat /\ Tenths > 1 /\ Sixty \in Nat \ {0} /\ Noon \in Nat /\ Noon > 1
  BY CiaAssumption
<1>2. ASSUME NEW y \in Times, y.h > 0
      PROVE  NextHour(y) \in Times /\ NextHour(y).h > 0 /\ NextHour(y).t = y.t
  <2>1. y.h \in Int /\ y.h + 1 \in Int
    BY <1>2 DEF Times
  <2> DEFINE n == y.h + 1
             b == ~y.pm
  <2>2. b \in BOOLEAN
    OBVIOUS
  <2>3. /\ n <= Noon => n \in 0 .. Noon /\ n > 0
        /\ 1 \in 0 .. Noon /\ 1 > 0
    BY <1>1, <1>2 DEF Times
  <2>4. /\ n < Noon => n <= Noon
        /\ n = Noon => n <= Noon
    BY <1>1, <2>1
  <2> HIDE DEF n, b
  <2>5. \/ n <= Noon /\ NextHour(y) = [y EXCEPT !.h = n]
        \/ n <= Noon /\ NextHour(y) = [y EXCEPT !.h = n, !.pm = b]
        \/ NextHour(y) = [y EXCEPT !.h = 1]
    BY <2>1, <2>4, HourCases, Zenon DEF n, b
  <2> QED BY <2>2, <2>3, <2>5, Zenon DEF Times
<1>3. ASSUME NEW y \in Times, y.h > 0
      PROVE  NextMinute(y) \in Times /\ NextMinute(y).h > 0 /\ NextMinute(y).t = y.t
  <2>1. [y EXCEPT !.m = 0] \in Times /\ [y EXCEPT !.m = 0].h > 0
    BY <1>1, <1>3 DEF Times
  <2>2. NextHour([y EXCEPT !.m = 0]).t = y.t
    BY <1>2, <2>1 DEF Times
  <2>3. CASE y.m + 1 < Sixty
    BY <1>1, <1>3, <2>3 DEF NextMinute, Times
  <2>4. CASE ~(y.m + 1 < Sixty)
    BY <1>2, <2>1, <2>2, <2>4 DEF NextMinute
  <2> QED BY <2>3, <2>4
<1>4. ASSUME NEW y \in Times, y.h > 0
      PROVE  NextSecond(y) \in Times /\ NextSecond(y).h > 0 /\ NextSecond(y).t = y.t
  <2>1. [y EXCEPT !.s = 0] \in Times /\ [y EXCEPT !.s = 0].h > 0
    BY <1>1, <1>4 DEF Times
  <2>2. NextMinute([y EXCEPT !.s = 0]).t = y.t
    BY <1>3, <2>1 DEF Times
  <2>3. CASE y.s + 1 < Sixty
    BY <1>1, <1>4, <2>3 DEF NextSecond, Times
  <2>4. CASE ~(y.s + 1 < Sixty)
    BY <1>3, <2>1, <2>2, <2>4 DEF NextSecond
  <2> QED BY <2>3, <2>4
<1>5. CASE x.t + 1 < Tenths
  BY <1>1, <1>5 DEF NextTenth, Times
<1>6. CASE ~(x.t + 1 < Tenths)
  <2>1. [x EXCEPT !.t = 0] \in Times /\ [x EXCEPT !.t = 0].h > 0
    BY <1>1 DEF Times
  <2>2. NextSecond([x EXCEPT !.t = 0]).t = 0 /\ x.t # 0
    BY <1>1, <1>4, <1>6, <2>1 DEF Times
  <2> QED BY <1>4, <1>6, <2>1, <2>2 DEF NextTenth
<1> QED BY <1>5, <1>6

MostTicks == Divider[TRUE] + Divider[FALSE]
TodInv(c) == c \in TodType /\ c.ticks < MostTicks /\ c.time.h > 0

LEMMA Ticks ==
  /\ MostTicks \in Nat /\ 0 < MostTicks
  /\ \A high \in BOOLEAN : Divider[high] \in Nat /\ Divider[high] <= MostTicks
<1> DEFINE a == Divider[TRUE]
           b == Divider[FALSE]
<1>1. a \in Nat \ {0} /\ b \in Nat \ {0} /\ MostTicks = a + b
  BY CiaAssumption, Zenon DEF MostTicks
<1>2. ASSUME NEW high \in BOOLEAN
      PROVE  Divider[high] \in Nat /\ Divider[high] <= MostTicks
  <2> DEFINE c == Divider[high]
  <2>1. c = a \/ c = b
    BY Zenon
  <2> HIDE DEF a, b, c
  <2>2. c \in Nat /\ c <= MostTicks
    BY <1>1, <2>1
  <2> QED BY <2>2 DEF c
<1> HIDE DEF a, b
<1>3. MostTicks \in Nat /\ 0 < MostTicks
  BY <1>1
<1> QED BY <1>2, <1>3

\* The clock stands, or goes on by a cycle, a cycle of the power line or a tenth.
LEMMA TodCases ==
  \/ TenthDue /\ TodAfter = AlarmSeen(Advanced)
  \/ /\ PowerEdge /\ ~TenthDue
     /\ TodAfter = [tod EXCEPT !.cycles = 0, !.ticks = @ + 1]
  \/ tod.running /\ ~PowerEdge /\ TodAfter = [tod EXCEPT !.cycles = @ + 1]
  \/ TodAfter = tod
<1>1. CASE TenthDue
  BY <1>1 DEF TodAfter, TenthDue, PowerEdge
<1>2. CASE PowerEdge /\ ~TenthDue
  BY <1>2 DEF TodAfter, PowerEdge
<1>3. CASE tod.running /\ ~PowerEdge
  BY <1>3 DEF TodAfter, TenthDue
<1>4. CASE ~tod.running
  <2>1. ~PowerEdge /\ ~TenthDue
    BY <1>4 DEF PowerEdge, TenthDue
  <2> QED BY <1>4, <2>1 DEF TodAfter
<1> QED BY <1>1, <1>2, <1>3, <1>4 DEF TenthDue

LEMMA AdvancedType ==
  ASSUME TypeInv
  PROVE  TodInv(Advanced)
<1>1. tod \in TodType /\ tod.time.h > 0
  BY DEF TypeInv, TypeOK
<1>2. 0 \in Nat /\ 0 \in 0 .. PowerCycles
  BY CiaAssumption
<1>3. tod.time \in Times
  BY <1>1, Zenon DEF TodType
<1>4. NextTenth(tod.time) \in Times /\ NextTenth(tod.time).h > 0
  BY <1>1, <1>3, NextTenthType
<1> QED BY <1>1, <1>2, <1>4, Ticks, Zenon DEF Advanced, TodType, TodInv

LEMMA TodAfterType ==
  ASSUME TypeInv
  PROVE  TodInv(TodAfter)
<1>1. /\ tod \in TodType /\ tod.ticks < MostTicks /\ tod.ticks \in Nat
      /\ tod.time \in Times /\ tod.time.h > 0
      /\ 0 \in Nat /\ 0 \in 0 .. PowerCycles
  <2>1. tod \in TodType /\ tod.ticks < MostTicks /\ tod.time.h > 0
    BY Zenon DEF TypeInv, TypeOK, MostTicks
  <2> QED BY <2>1, CiaAssumption DEF TodType
<1>2. MostTicks \in Nat /\ Divider[todin] \in Nat /\ Divider[todin] <= MostTicks
  BY Ticks DEF TypeInv, TypeOK
<1>3. TodInv(AlarmSeen(Advanced))
  BY AdvancedType, Zenon DEF AlarmSeen, TodInv, TodType
<1>4. ASSUME PowerEdge, ~TenthDue
      PROVE  TodInv([tod EXCEPT !.cycles = 0, !.ticks = @ + 1])
  <2> DEFINE n == tod.ticks + 1
  <2>1. n \in Nat /\ n < MostTicks
    BY <1>1, <1>2, <1>4 DEF TenthDue
  <2> HIDE DEF n
  <2>2. TodInv([tod EXCEPT !.cycles = 0, !.ticks = n])
    BY <1>1, <2>1, Zenon DEF TodInv, TodType
  <2> QED BY <2>2 DEF n
<1>5. ASSUME tod.running, ~PowerEdge
      PROVE  TodInv([tod EXCEPT !.cycles = @ + 1])
  <2> DEFINE n == tod.cycles + 1
  <2>1. n \in 0 .. PowerCycles
    BY <1>1, <1>5, CiaAssumption DEF PowerEdge, TodType
  <2> HIDE DEF n
  <2>2. TodInv([tod EXCEPT !.cycles = n])
    BY <1>1, <2>1, Zenon DEF TodInv, TodType
  <2> QED BY <2>2 DEF n
<1>6. TodInv(tod)
  BY <1>1, Zenon DEF TodInv
<1> QED BY <1>3, <1>4, <1>5, <1>6, TodCases, Zenon

InputsOK     == program \in Programs /\ pins \subseteq Pins /\ line \in BOOLEAN
TimersOK     == /\ timer \in [Timers -> TimerType]
                /\ counts \in [Timers -> 0 .. Word - 1]
                /\ loaded \in [Timers -> 0 .. Word - 1]
InterruptsOK == /\ icr \subseteq Events /\ ir \in BOOLEAN /\ icr_read = FALSE
                /\ mask \subseteq Events /\ delayed \subseteq Events
                /\ owed \subseteq Events
ReadOK       == noted \in Times /\ got \in Times

AllTypes == /\ InputsOK /\ TimersOK /\ InterruptsOK /\ TodInv(tod) /\ ReadOK
            /\ todin \in BOOLEAN

LEMMA Parts ==
  (TypeInv <=> AllTypes) /\ (TypeInv <=> AllTypes)'
<1>1. FALSE \in BOOLEAN
  OBVIOUS
<1>2. TypeInv <=> AllTypes
  BY <1>1, Zenon DEF TypeInv, TypeOK, InputsOK, TimersOK, InterruptsOK, TodInv, ReadOK,
                     MostTicks, AllTypes
<1>3. TypeInv' <=> AllTypes'
  BY <1>1, Zenon DEF TypeInv, TypeOK, InputsOK, TimersOK, InterruptsOK, TodInv, ReadOK,
                     MostTicks, AllTypes
<1> QED BY <1>2, <1>3

LEMMA EventTypes ==
  ASSUME TypeInv
  PROVE  /\ Found \subseteq Events /\ icr \subseteq Found /\ EventsNow \subseteq Found
         /\ Happened \subseteq Events /\ Ir \in BOOLEAN
<1>1. EventsNow \subseteq Events /\ Happened \subseteq Events
  BY Zenon DEF EventsNow, TimerEvents, Happened, Events
<1>2. icr \subseteq Events /\ ir \in BOOLEAN
  BY DEF TypeInv, TypeOK
<1> QED BY <1>1, <1>2 DEF Found, Ir

LEMMA StoppedTypes ==
  StoppedTimer \in TimerType /\ TodInv(StoppedTod) /\ Zero \in Times
<1>1. StoppedTimer \in TimerType
  BY Widths DEF StoppedTimer, TimerType, Modes
<1>2. /\ 0 \in 0 .. Tenths - 1 /\ 0 \in 0 .. Sixty - 1 /\ 0 \in 0 .. Noon
      /\ 1 \in 0 .. Noon /\ 0 \in 0 .. PowerCycles
  BY CiaAssumption
<1>3. Zero \in Times /\ PowerUp \in Times /\ PowerUp.h = 1
  BY <1>2 DEF Zero, PowerUp, Times
<1>4. StoppedTod \in TodType /\ StoppedTod.ticks = 0 /\ StoppedTod.time = PowerUp
  BY <1>2, <1>3 DEF StoppedTod, TodType
<1>5. TodInv(StoppedTod)
  BY <1>3, <1>4, Ticks DEF TodInv
<1> QED BY <1>1, <1>3, <1>5

LEMMA InitType ==
  ASSUME Init
  PROVE  TypeInv
<1>1. InputsOK /\ InterruptsOK
  BY DEF Init, InputsOK, InterruptsOK
<1>2. TimersOK
  BY StoppedTypes, Widths DEF Init, TimersOK
<1>3. TodInv(tod) /\ ReadOK /\ todin \in BOOLEAN
  BY StoppedTypes DEF Init, ReadOK
<1> QED BY <1>1, <1>2, <1>3, Parts DEF AllTypes

LEMMA ResetType ==
  ASSUME TypeInv, Reset
  PROVE  TypeInv'
<1>1. InputsOK' /\ InterruptsOK'
  BY DEF Reset, InputsOK, InterruptsOK, TypeInv, TypeOK
<1>2. TimersOK'
  BY StoppedTypes, Widths DEF Reset, TimersOK
<1>3. TodInv(tod)' /\ ReadOK' /\ todin' \in BOOLEAN
  BY StoppedTypes DEF Reset, ReadOK, TodInv
<1> QED BY <1>1, <1>2, <1>3, Parts DEF AllTypes

\* What the cycle, the interrupts, the timers and the clock do of themselves.
LEMMA KeptTypes ==
  ASSUME TypeInv
  PROVE  /\ Cycle => InputsOK'
         /\ NoIcrAccess => InterruptsOK'
         /\ TimersKept => TimersOK'
         /\ TodKept => TodInv(tod)' /\ ReadOK'
<1>1. ASSUME Cycle PROVE InputsOK'
  BY <1>1, EventTypes, CiaAssumption
  DEF Cycle, Inputs, Phase2, InputsOK, TypeInv, TypeOK
<1>2. ASSUME NoIcrAccess PROVE InterruptsOK'
  BY <1>2, EventTypes DEF NoIcrAccess, InterruptsOK, ReadRemembered, TypeInv, TypeOK
<1>3. ASSUME TimersKept PROVE TimersOK'
  BY <1>3, TimersAfterType, CountsAfterType DEF TimersKept, TimersOK, TypeInv
<1>4. ASSUME TodKept PROVE TodInv(tod)' /\ ReadOK'
  <2>1. TodInv(TodAfter)
    BY TodAfterType
  <2> QED BY <1>4, <2>1 DEF TodKept, TodInv, ReadOK, TypeInv, TypeOK
<1> QED BY <1>1, <1>2, <1>3, <1>4

\* A write of one digit, taken apart: what it writes to, what it makes of it.
TimeBefore == IF TodAfter.sets_alarm THEN TodAfter.alarm ELSE TodAfter.time
DigitSet(old, x, digit) ==
  IF digit = "h" THEN [old EXCEPT !.h = x.h, !.pm = HourWritten(x)]
  ELSE [old EXCEPT ![digit] = x[digit]]
TodSet(new, digit) ==
  IF TodAfter.sets_alarm THEN [TodAfter EXCEPT !.alarm = new]
  ELSE [TodAfter EXCEPT !.time = new,
                        !.running = CASE digit = "h" -> FALSE
                                      [] digit = "t" -> TRUE
                                      [] OTHER -> @,
                        !.ticks = IF digit = "t" THEN 0 ELSE @]
WritesDigit(x, digit) ==
  LET set == TodSet(DigitSet(TimeBefore, x, digit), digit)
      rings == IF digit = "t" /\ AlarmEdge(set) THEN {"ALRM"} ELSE {}
  IN /\ tod' = IF digit = "t" THEN AlarmSeen(set) ELSE set
     /\ icr' = Found \cup rings
     /\ owed' = owed \cup Happened \cup rings

LEMMA WriteTimeIs ==
  ASSUME WriteTime
  PROVE  \E x \in program.times, digit \in {"h", "m", "s", "t"} : WritesDigit(x, digit)
BY DEF WriteTime, WritesDigit, TodSet, DigitSet, TimeBefore

LEMMA DigitWritten ==
  ASSUME NEW old \in Times, NEW x \in Times, x.h > 0, NEW digit \in {"h", "m", "s", "t"}
  PROVE  /\ DigitSet(old, x, digit) \in Times
         /\ old.h > 0 => DigitSet(old, x, digit).h > 0
         /\ digit # "t" => DigitSet(old, x, digit).t = old.t
<1>1. CASE digit = "h"
  <2> DEFINE b == HourWritten(x)
             new == [old EXCEPT !.h = x.h, !.pm = b]
  <2>1. b \in BOOLEAN
    <3>1. x.pm \in BOOLEAN
      BY DEF Times
    <3> QED BY <3>1 DEF HourWritten
  <2> HIDE DEF b
  <2>2. new \in Times /\ new.h = x.h /\ new.t = old.t
    BY <2>1 DEF Times
  <2> HIDE DEF new
  <2> QED BY <1>1, <2>2 DEF new, b, DigitSet
<1>2. CASE digit = "m"
  <2> DEFINE new == [old EXCEPT !.m = x.m]
  <2>1. new \in Times /\ new.h = old.h /\ new.t = old.t
    BY DEF Times
  <2> QED BY <1>2, <2>1 DEF DigitSet
<1>3. CASE digit = "s"
  <2> DEFINE new == [old EXCEPT !.s = x.s]
  <2>1. new \in Times /\ new.h = old.h /\ new.t = old.t
    BY DEF Times
  <2> QED BY <1>3, <2>1 DEF DigitSet
<1>4. CASE digit = "t"
  <2> DEFINE new == [old EXCEPT !.t = x.t]
  <2>1. new \in Times /\ new.h = old.h
    BY DEF Times
  <2> QED BY <1>4, <2>1 DEF DigitSet
<1> QED BY <1>1, <1>2, <1>3, <1>4

LEMMA WriteTimeType ==
  ASSUME TypeInv, WriteTime
  PROVE  TodInv(tod)' /\ InterruptsOK' /\ TimersOK' /\ InputsOK' /\ ReadOK'
<1>1. PICK x \in program.times, digit \in {"h", "m", "s", "t"} :
        WritesDigit(x, digit)
  BY WriteTimeIs
<1> DEFINE old == TimeBefore
           new == DigitSet(old, x, digit)
           set == TodSet(new, digit)
           rings == IF digit = "t" /\ AlarmEdge(set) THEN {"ALRM"} ELSE {}
<1>2. /\ tod' = IF digit = "t" THEN AlarmSeen(set) ELSE set
      /\ icr' = Found \cup rings
      /\ owed' = owed \cup Happened \cup rings
  BY <1>1 DEF WritesDigit
<1>3. rings \subseteq Events
  BY DEF Events
<1>4. x \in Times /\ x.h > 0
  BY CiaAssumption, Zenon DEF TypeInv, TypeOK
<1>5. TodInv(TodAfter) /\ old \in Times /\ (~TodAfter.sets_alarm => old.h > 0)
  BY TodAfterType DEF TodInv, TodType, TimeBefore
<1> HIDE DEF old, rings
<1>6. new \in Times /\ (old.h > 0 => new.h > 0)
  BY <1>4, <1>5, DigitWritten
<1> HIDE DEF new
<1>7. TodInv(set)
  <2>1. CASE TodAfter.sets_alarm
    BY <1>5, <1>6, <2>1 DEF TodInv, TodType, TodSet
  <2>2. CASE ~TodAfter.sets_alarm
    <3> DEFINE r == CASE digit = "h" -> FALSE
                      [] digit = "t" -> TRUE
                      [] OTHER -> TodAfter.running
               n == IF digit = "t" THEN 0 ELSE TodAfter.ticks
    <3>1. r \in BOOLEAN
      <4>1. TodAfter.running \in BOOLEAN
        BY <1>5, Zenon DEF TodInv, TodType
      <4> QED BY <4>1
    <3>2. n \in Nat /\ n < MostTicks
      BY <1>5, Ticks DEF TodInv, TodType
    <3> HIDE DEF r, n
    <3>3. TodInv([TodAfter EXCEPT !.time = new, !.running = r, !.ticks = n])
      BY <1>5, <1>6, <2>2, <3>1, <3>2, Zenon DEF TodInv, TodType
    <3> QED BY <2>2, <3>3 DEF r, n, TodSet
  <2> QED BY <2>1, <2>2
<1> HIDE DEF set
<1>8. TodInv(AlarmSeen(set))
  BY <1>7, Zenon DEF AlarmSeen, TodInv, TodType
<1>9. TodInv(tod)'
  BY <1>2, <1>7, <1>8 DEF TodInv
<1>10. InterruptsOK'
  BY <1>2, <1>3, EventTypes DEF WriteTime, InterruptsOK, ReadRemembered, TypeInv, TypeOK
<1>11. TimersOK' /\ InputsOK'
  BY KeptTypes DEF WriteTime
<1>12. ReadOK'
  BY DEF WriteTime, ReadOK, TypeInv, TypeOK
<1> QED BY <1>9, <1>10, <1>11, <1>12

\* A pipeline holds two counts at the most.
LEMMA PipeLength ==
  ASSUME NEW pipe \in SUBSET {"active", "count"}
  PROVE  /\ Cardinality(pipe) = (IF "active" \in pipe THEN 1 ELSE 0)
                                + (IF "count" \in pipe THEN 1 ELSE 0)
         /\ Cardinality(pipe) \in 0 .. 2
<1>1. /\ Cardinality({}) = 0 /\ Cardinality({"active"}) = 1 /\ Cardinality({"count"}) = 1
      /\ IsFiniteSet({"active"})
  BY FS_EmptySet, FS_Singleton
<1>2. Cardinality({"active"} \cup {"count"}) = 2
  BY <1>1, FS_AddElement
<1>3. CASE "active" \in pipe /\ "count" \in pipe
  <2>1. pipe = {"active"} \cup {"count"}
    BY <1>3
  <2> QED BY <1>2, <1>3, <2>1
<1>4. CASE "active" \in pipe /\ "count" \notin pipe
  <2>1. pipe = {"active"}
    BY <1>4
  <2> QED BY <1>1, <1>4, <2>1
<1>5. CASE "active" \notin pipe /\ "count" \in pipe
  <2>1. pipe = {"count"}
    BY <1>5
  <2> QED BY <1>1, <1>5, <2>1
<1>6. CASE "active" \notin pipe /\ "count" \notin pipe
  <2>1. pipe = {}
    BY <1>6
  <2> QED BY <1>1, <1>6, <2>1
<1> QED BY <1>3, <1>4, <1>5, <1>6

\* A write of a control register, taken apart: the timer's part of it and the clock's.
Controls(t) == IF t = "A" THEN program.cra ELSE program.crb
WritesControl(t, c) ==
  /\ timer' = [TimersAfter EXCEPT
       ![t].start = c.start, ![t].oneshot = c.oneshot, ![t].inmode = c.inmode,
       ![t].load = IF c.load THEN @ \cup {"soon"} ELSE @]
  /\ tod' = [TodAfter EXCEPT
       !.cycles = IF c.start /\ ~TimersAfter[t].start THEN 0 ELSE @,
       !.sets_alarm = IF t = "B" THEN c.high ELSE @]
  /\ todin' = IF t = "A" THEN c.high ELSE todin

LEMMA ControlIs ==
  ASSUME WriteControl
  PROVE  \E t \in Timers : \E c \in Controls(t) : WritesControl(t, c)
BY Zenon DEF WriteControl, Controls, WritesControl

\* What the accesses do to the timers.
LEMMA WriteTimerTypes ==
  ASSUME TypeInv, WriteTimerLo \/ WriteTimerHi \/ WriteControl
  PROVE  TimersOK'
<1>1. /\ TimersAfter \in [Timers -> TimerType]
      /\ CountsAfter \in [Timers -> 0 .. Word - 1]
      /\ LoadedAfter \in [Timers -> 0 .. Word - 1]
  BY TimersAfterType, CountsAfterType DEF TypeInv
<1>2. CASE WriteTimerLo
  <2>1. PICK t \in Timers, b \in Bytes :
          timer' = [TimersAfter EXCEPT ![t].latch = ((@ \div Byte) * Byte) + b]
    BY <1>2 DEF WriteTimerLo
  <2> DEFINE n == ((TimersAfter[t].latch \div Byte) * Byte) + b
  <2>2. n \in 0 .. Word - 1
    <3>1. TimersAfter[t].latch \in 0 .. Word - 1
      BY <1>1 DEF TimerType
    <3> QED BY <3>1, Halves
  <2> HIDE DEF n
  <2>3. timer' = [TimersAfter EXCEPT ![t].latch = n]
    BY <2>1 DEF n
  <2>4. timer' \in [Timers -> TimerType]
    BY <1>1, <2>2, <2>3 DEF TimerType
  <2> QED BY <1>1, <1>2, <2>4 DEF WriteTimerLo, TimersOK
<1>3. CASE WriteTimerHi
  <2>1. PICK t \in Timers, b \in Bytes :
          LET v == TimersAfter[t]
              latch == (b * Byte) + (v.latch % Byte)
          IN /\ timer' = [TimersAfter EXCEPT
                  ![t].latch = latch,
                  ![t].counter = IF v.start THEN @ ELSE latch]
             /\ counts' = [CountsAfter EXCEPT
                  ![t] = IF v.start THEN @ ELSE Cardinality(v.pipe)]
             /\ loaded' = [LoadedAfter EXCEPT ![t] = IF v.start THEN @ ELSE latch]
    BY <1>3 DEF WriteTimerHi
  <2> DEFINE v == TimersAfter[t]
             n == (b * Byte) + (v.latch % Byte)
             k == Cardinality(v.pipe)
  <2>2. v \in TimerType /\ v.latch \in 0 .. Word - 1 /\ v.pipe \subseteq {"active", "count"}
    BY <1>1 DEF TimerType
  <2>3. n \in 0 .. Word - 1
    BY <2>2, Halves
  <2>4. k \in 0 .. Word - 1
    BY <2>2, PipeLength, Widths
  <2>5. /\ timer' = [TimersAfter EXCEPT
                       ![t].latch = n, ![t].counter = IF v.start THEN @ ELSE n]
        /\ counts' = [CountsAfter EXCEPT ![t] = IF v.start THEN @ ELSE k]
        /\ loaded' = [LoadedAfter EXCEPT ![t] = IF v.start THEN @ ELSE n]
    BY <2>1
  <2> HIDE DEF n, k
  <2>6. timer' \in [Timers -> TimerType]
    <3> DEFINE m == IF v.start THEN v.counter ELSE n
    <3>1. m \in 0 .. Word - 1
      BY <2>2, <2>3 DEF TimerType
    <3>2. timer' = [TimersAfter EXCEPT ![t] = [v EXCEPT !.latch = n, !.counter = m]]
      BY <1>1, <2>5, Zenon
    <3> HIDE DEF m, v
    <3>3. [v EXCEPT !.latch = n, !.counter = m] \in TimerType
      BY <2>2, <2>3, <3>1, Zenon DEF TimerType
    <3> QED BY <1>1, <3>2, <3>3, Zenon
  <2> QED BY <1>1, <2>3, <2>4, <2>5, <2>6 DEF TimersOK
<1>4. CASE WriteControl
  <2>1. PICK t \in Timers : \E c \in Controls(t) : WritesControl(t, c)
    BY <1>4, ControlIs
  <2>2. PICK c \in Controls(t) : WritesControl(t, c)
    BY <2>1
  <2>3. c \in Control
    BY CiaAssumption, Zenon DEF TypeInv, TypeOK, Controls
  <2>4. timer' \in [Timers -> TimerType]
    <3> DEFINE v == TimersAfter[t]
               m == IF c.load THEN v.load \cup {"soon"} ELSE v.load
    <3>1. v \in TimerType /\ m \in SUBSET {"soon", "now"}
      BY <1>1 DEF TimerType
    <3>2. c.start \in BOOLEAN /\ c.oneshot \in BOOLEAN /\ c.inmode \in Modes
      BY <2>3, Zenon DEF Control
    <3>3. timer' = [TimersAfter EXCEPT ![t] =
            [v EXCEPT !.start = c.start, !.oneshot = c.oneshot, !.inmode = c.inmode,
                      !.load = m]]
      BY <1>1, <2>2, Zenon DEF WritesControl
    <3> HIDE DEF m, v
    <3>4. [v EXCEPT !.start = c.start, !.oneshot = c.oneshot, !.inmode = c.inmode,
                    !.load = m] \in TimerType
      BY <3>1, <3>2, Zenon DEF TimerType
    <3> QED BY <1>1, <3>3, <3>4, Zenon
  <2> QED BY <1>1, <1>4, <2>4 DEF WriteControl, TimersOK
<1> QED BY <1>2, <1>3, <1>4

LEMMA ControlTodType ==
  ASSUME TypeInv, WriteControl
  PROVE  TodInv(tod)' /\ todin' \in BOOLEAN
<1>1. PICK t \in Timers : \E c \in Controls(t) : WritesControl(t, c)
  BY ControlIs
<1>2. PICK c \in Controls(t) : WritesControl(t, c)
  BY <1>1
<1>3. c \in Control
  BY CiaAssumption, Zenon DEF TypeInv, TypeOK, Controls
<1>4. c.high \in BOOLEAN
  BY <1>3, Zenon DEF Control
<1> DEFINE n == IF c.start /\ ~TimersAfter[t].start THEN 0 ELSE TodAfter.cycles
           b == IF t = "B" THEN c.high ELSE TodAfter.sets_alarm
<1>5. TodInv(TodAfter)
  BY TodAfterType
<1>6. n \in 0 .. PowerCycles
  BY <1>5, CiaAssumption DEF TodInv, TodType
<1>7. b \in BOOLEAN
  BY <1>4, <1>5, Zenon DEF TodInv, TodType
<1>8. tod' = [TodAfter EXCEPT !.cycles = n, !.sets_alarm = b]
  BY <1>2, Zenon DEF WritesControl
<1> HIDE DEF n, b
<1>9. TodInv([TodAfter EXCEPT !.cycles = n, !.sets_alarm = b])
  BY <1>5, <1>6, <1>7, Zenon DEF TodInv, TodType
<1>10. todin' \in BOOLEAN
  BY <1>2, <1>4, Zenon DEF TypeInv, TypeOK, WritesControl
<1> QED BY <1>8, <1>9, <1>10, Zenon DEF TodInv

\* The registers of the clock show what the clock or its latch holds.
LEMMA ReadTypes ==
  ASSUME TypeInv, ReadHours \/ ReadMinutesOrSeconds \/ ReadTenths
  PROVE  TodInv(tod)' /\ ReadOK'
<1>1. TodInv(TodAfter) /\ noted \in Times /\ got \in Times
  BY TodAfterType DEF TypeInv, TypeOK
<1>2. TodAfter \in TodType /\ TodAfter.time \in Times /\ TodAfter.latch \in Times
  BY <1>1 DEF TodInv, TodType
<1>3. TimeShown \in Times
  BY <1>2, Zenon DEF TimeShown
<1>4. CASE ReadHours
  <2>1. /\ tod' = [TodAfter EXCEPT !.latched = TRUE, !.latch = TimeShown]
        /\ noted' = IF TodAfter.latched THEN noted ELSE TodAfter.time
        /\ got' = [noted' EXCEPT !.h = TimeShown.h, !.pm = TimeShown.pm]
    BY <1>4, Zenon DEF ReadHours, TimeShown
  <2>2. TodInv(tod')
    BY <1>1, <1>3, <2>1, Zenon DEF TodInv, TodType
  <2>3. noted' \in Times
    BY <1>1, <1>2, <2>1, Zenon
  <2>4. got' \in Times
    BY <1>3, <2>1, <2>3, Zenon DEF Times
  <2> QED BY <2>2, <2>3, <2>4, Zenon DEF TodInv, ReadOK
<1>5. CASE ReadMinutesOrSeconds
  <2>1. PICK digit \in {"m", "s"} :
          got' = IF tod.latched THEN [got EXCEPT ![digit] = TimeShown[digit]] ELSE got
    BY <1>5 DEF ReadMinutesOrSeconds
  <2>2. [got EXCEPT !.m = TimeShown.m] \in Times /\ [got EXCEPT !.s = TimeShown.s] \in Times
    BY <1>1, <1>3, Zenon DEF Times
  <2>3. got' \in Times
    BY <1>1, <2>1, <2>2
  <2>4. TodInv(tod)' /\ noted' \in Times
    BY <1>1, <1>5, Zenon DEF ReadMinutesOrSeconds, TodInv
  <2> QED BY <2>3, <2>4 DEF ReadOK
<1>6. CASE ReadTenths
  <2>1. TodInv([TodAfter EXCEPT !.latched = FALSE])
    BY <1>1, Zenon DEF TodInv, TodType
  <2>2. [got EXCEPT !.t = TimeShown.t] \in Times
    BY <1>1, <1>3, Zenon DEF Times
  <2>3. got' \in Times /\ noted' \in Times
    BY <1>1, <1>6, <2>2, Zenon DEF ReadTenths
  <2>4. TodInv(tod)'
    BY <1>6, <2>1, Zenon DEF ReadTenths, TodInv
  <2> QED BY <2>3, <2>4 DEF ReadOK
<1> QED BY <1>4, <1>5, <1>6

LEMMA TypeStep ==
  ASSUME TypeInv, [Next]_vars
  PROVE  TypeInv'
<1>0. todin \in BOOLEAN /\ InterruptsOK /\ ReadOK
  BY Parts DEF AllTypes
<1>1. CASE NoAccess
  BY <1>0, <1>1, KeptTypes, Parts DEF AllTypes, NoAccess
<1>2. CASE ReadIcr
  <2>1. InterruptsOK'
    BY <1>0, <1>2, EventTypes DEF ReadIcr, InterruptsOK, ReadRemembered
  <2> QED BY <1>0, <1>2, <2>1, KeptTypes, Parts DEF AllTypes, ReadIcr
<1>3. CASE WriteIcr
  <2>1. PICK set \in BOOLEAN, bits \in {{"TA", "TB"}, Events} :
       LET m == IF set THEN delayed \cup bits ELSE delayed \ bits IN
       /\ delayed' = m /\ mask' = m
       /\ ir' = (Ir \/ Found \cap m # {})
    BY <1>3 DEF WriteIcr
  <2>2. delayed' \subseteq Events /\ mask' \subseteq Events /\ ir' \in BOOLEAN
    <3>1. bits \subseteq Events
      BY DEF Events
    <3> QED BY <1>0, <2>1, <3>1 DEF InterruptsOK
  <2>3. InterruptsOK'
    BY <1>0, <1>3, <2>2, EventTypes DEF WriteIcr, InterruptsOK, ReadRemembered
  <2> QED BY <1>0, <1>3, <2>3, KeptTypes, Parts DEF AllTypes, WriteIcr
<1>4. CASE WriteTimerLo
  BY <1>0, <1>4, KeptTypes, WriteTimerTypes, Parts DEF AllTypes, WriteTimerLo
<1>5. CASE WriteTimerHi
  BY <1>0, <1>5, KeptTypes, WriteTimerTypes, Parts DEF AllTypes, WriteTimerHi
<1>6. CASE WriteControl
  <2>1. ReadOK'
    BY <1>0, <1>6 DEF WriteControl, ReadOK
  <2> QED BY <1>6, <2>1, KeptTypes, WriteTimerTypes, ControlTodType, Parts
          DEF AllTypes, WriteControl
<1>7. CASE ReadHours
  BY <1>0, <1>7, KeptTypes, ReadTypes, Parts DEF AllTypes, ReadHours
<1>8. CASE ReadMinutesOrSeconds
  BY <1>0, <1>8, KeptTypes, ReadTypes, Parts DEF AllTypes, ReadMinutesOrSeconds
<1>9. CASE ReadTenths
  BY <1>0, <1>9, KeptTypes, ReadTypes, Parts DEF AllTypes, ReadTenths
<1>10. CASE WriteTime
  BY <1>0, <1>10, WriteTimeType, Parts DEF AllTypes, WriteTime
<1>11. CASE Reset
  BY <1>11, ResetType
<1>12. CASE UNCHANGED vars
  BY <1>12, Parts DEF AllTypes, vars, InputsOK, TimersOK, InterruptsOK, TodInv, ReadOK
<1> QED BY <1>1, <1>2, <1>3, <1>4, <1>5, <1>6, <1>7, <1>8, <1>9, <1>10, <1>11, <1>12 DEF Next

LEMMA TypeHolds ==
  Spec => []TypeInv
<1> QED BY InitType, TypeStep, PTL DEF Spec

(* Every variable keeps its type through every program: a counter and a    *)
(* latch their width, a time its digits, and the ticks of a tenth stay     *)
(* under what either setting of CRA_TODIN lets them be.                    *)
THEOREM TypeCorrect ==
  Spec => []TypeOK
<1>1. TypeInv => TypeOK
  BY DEF TypeInv
<1> QED BY <1>1, TypeHolds, PTL

-----------------------------------------------------------------------------
(* Events.  The edge at which the alarm is looked for hides no arrival of  *)
(* the clock at it: while the last comparison was equal, the tenths of     *)
(* time and alarm are equal still, and a tenth later they are not.         *)

AlarmRemembered(c) == c.prev_alarm => c.time.t = c.alarm.t

EventInv ==
  /\ icr = owed
  /\ AlarmRemembered(tod)

LEMMA AllAreSeen ==
  ASSUME TypeInv, AlarmRemembered(tod)
  PROVE  EventsNow = Happened
<1>1. /\ Advanced.time = NextTenth(tod.time) /\ Advanced.alarm = tod.alarm
      /\ Advanced.prev_alarm = tod.prev_alarm
  BY Zenon DEF TypeInv, TypeOK, TodType, Advanced
<1>2. NextTenth(tod.time).t # tod.time.t
  BY NextTenthType, Zenon DEF TypeInv, TypeOK, TodType
<1>3. AlarmEdge(Advanced) <=> Advanced.time = tod.alarm
  BY <1>1, <1>2, Zenon DEF AlarmEdge, AlarmRemembered
<1> QED BY <1>3 DEF EventsNow, TimerEvents, Happened, TypeInv

LEMMA SeenIsRemembered ==
  ASSUME NEW c \in TodType
  PROVE  AlarmRemembered(AlarmSeen(c))
<1> DEFINE d == AlarmSeen(c)
<1>1. d.prev_alarm = (c.time = c.alarm) /\ d.time = c.time /\ d.alarm = c.alarm
  BY Zenon DEF AlarmSeen, TodType
<1> QED BY <1>1, Zenon DEF AlarmRemembered

LEMMA AlarmAfter ==
  ASSUME TypeInv, AlarmRemembered(tod)
  PROVE  AlarmRemembered(TodAfter)
<1>1. AlarmRemembered(AlarmSeen(Advanced))
  BY AdvancedType, SeenIsRemembered DEF TodInv
<1>2. /\ AlarmRemembered([tod EXCEPT !.cycles = 0, !.ticks = @ + 1])
      /\ AlarmRemembered([tod EXCEPT !.cycles = @ + 1])
  BY Zenon DEF AlarmRemembered, TypeInv, TypeOK, TodType
<1>3. \/ TodAfter = AlarmSeen(Advanced)
      \/ TodAfter = [tod EXCEPT !.cycles = 0, !.ticks = @ + 1]
      \/ TodAfter = [tod EXCEPT !.cycles = @ + 1]
      \/ TodAfter = tod
  BY TodCases
<1> QED BY <1>1, <1>2, <1>3, Zenon

\* A write of the tenths looks for the alarm, one of another digit leaves the tenths.
LEMMA WriteTimeEvents ==
  ASSUME TypeInv, EventInv, WriteTime
  PROVE  EventInv'
<1>1. PICK x \in program.times, digit \in {"h", "m", "s", "t"} :
        WritesDigit(x, digit)
  BY WriteTimeIs
<1> DEFINE old == TimeBefore
           new == DigitSet(old, x, digit)
           set == TodSet(new, digit)
           rings == IF digit = "t" /\ AlarmEdge(set) THEN {"ALRM"} ELSE {}
<1>2. /\ tod' = IF digit = "t" THEN AlarmSeen(set) ELSE set
      /\ icr' = Found \cup rings
      /\ owed' = owed \cup Happened \cup rings
  BY <1>1 DEF WritesDigit
<1>3. icr' = owed'
  <2> HIDE DEF rings
  <2> QED BY <1>2, AllAreSeen DEF EventInv, Found
<1>4. x \in Times /\ x.h > 0
  BY CiaAssumption, Zenon DEF TypeInv, TypeOK
<1>5. TodAfter \in TodType /\ old \in Times
  BY TodAfterType, Zenon DEF TodInv, TodType, TimeBefore
<1>6. AlarmRemembered(TodAfter)
  BY AlarmAfter DEF EventInv
<1> HIDE DEF old
<1>7. new \in Times /\ (digit # "t" => new.t = old.t)
  BY <1>4, <1>5, DigitWritten
<1> HIDE DEF new
<1>8. CASE digit = "t"
  <2>1. set.prev_alarm = TodAfter.prev_alarm /\ DOMAIN set = DOMAIN TodAfter
    BY <1>5, Zenon DEF TodType, TodSet
  <2> HIDE DEF set
  <2>2. tod' = [set EXCEPT !.prev_alarm = (set.time = set.alarm)]
    BY <1>2, <1>8 DEF AlarmSeen
  <2>3. {"prev_alarm", "time", "alarm"} \subseteq DOMAIN TodAfter
    BY <1>5, Zenon DEF TodType
  <2>4. tod'.prev_alarm = (set.time = set.alarm) /\ tod'.time = set.time /\ tod'.alarm = set.alarm
    BY <2>1, <2>2, <2>3, Zenon
  <2> QED BY <1>3, <2>4, Zenon DEF EventInv, AlarmRemembered
<1>9. CASE digit # "t"
  <2>1. tod' = set
    BY <1>2, <1>9
  <2>2. CASE TodAfter.sets_alarm
    <3>1. set.time = TodAfter.time /\ set.alarm = new /\ set.prev_alarm = TodAfter.prev_alarm
      BY <1>5, <2>2, Zenon DEF TodType, TodSet
    <3>2. old = TodAfter.alarm
      BY <2>2 DEF old, TimeBefore
    <3> QED BY <1>3, <1>6, <1>7, <1>9, <2>1, <3>1, <3>2, Zenon DEF EventInv, AlarmRemembered
  <2>3. CASE ~TodAfter.sets_alarm
    <3>1. set.time = new /\ set.alarm = TodAfter.alarm /\ set.prev_alarm = TodAfter.prev_alarm
      BY <1>5, <2>3, Zenon DEF TodType, TodSet
    <3>2. old = TodAfter.time
      BY <2>3 DEF old, TimeBefore
    <3> QED BY <1>3, <1>6, <1>7, <1>9, <2>1, <3>1, <3>2, Zenon DEF EventInv, AlarmRemembered
  <2> QED BY <2>2, <2>3
<1> QED BY <1>8, <1>9

LEMMA EventStep ==
  ASSUME TypeInv, EventInv, [Next]_vars
  PROVE  EventInv'
<1>1. EventsNow = Happened /\ icr = owed
  BY AllAreSeen DEF EventInv
<1>2. AlarmRemembered(TodAfter) /\ TodAfter \in TodType
  BY AlarmAfter, TodAfterType DEF EventInv, TodInv
<1>3. ASSUME NoIcrAccess PROVE icr' = owed'
  BY <1>1, <1>3 DEF NoIcrAccess, Found
<1>4. ASSUME tod' = TodAfter PROVE AlarmRemembered(tod)'
  BY <1>2, <1>4 DEF AlarmRemembered
<1>5. CASE NoAccess
  BY <1>3, <1>4, <1>5 DEF NoAccess, TodKept, EventInv
<1>6. CASE ReadIcr
  BY <1>1, <1>4, <1>6 DEF ReadIcr, TodKept, EventInv, Found
<1>7. CASE WriteIcr
  BY <1>1, <1>4, <1>7 DEF WriteIcr, TodKept, EventInv, Found
<1>8. CASE WriteTimerLo
  BY <1>3, <1>4, <1>8 DEF WriteTimerLo, TodKept, EventInv
<1>9. CASE WriteTimerHi
  BY <1>3, <1>4, <1>9 DEF WriteTimerHi, TodKept, EventInv
<1>10. CASE WriteControl
  <2>1. \E n, b : tod' = [TodAfter EXCEPT !.cycles = n, !.sets_alarm = b]
    BY <1>10, Zenon DEF WriteControl
  <2>2. AlarmRemembered(tod)'
    BY <1>2, <2>1, Zenon DEF AlarmRemembered, TodType
  <2> QED BY <1>3, <1>10, <2>2 DEF WriteControl, EventInv
<1>11. CASE ReadHours
  <2>1. tod' = [TodAfter EXCEPT !.latched = TRUE, !.latch = TimeShown]
    BY <1>11, Zenon DEF ReadHours, TimeShown
  <2>2. AlarmRemembered(tod)'
    BY <1>2, <2>1, Zenon DEF AlarmRemembered, TodType
  <2> QED BY <1>3, <1>11, <2>2 DEF ReadHours, EventInv
<1>12. CASE ReadMinutesOrSeconds
  BY <1>3, <1>4, <1>12 DEF ReadMinutesOrSeconds, EventInv
<1>13. CASE ReadTenths
  <2>1. AlarmRemembered(tod)'
    BY <1>2, <1>13, Zenon DEF ReadTenths, AlarmRemembered, TodType
  <2> QED BY <1>3, <1>13, <2>1 DEF ReadTenths, EventInv
<1>14. CASE WriteTime
  BY <1>14, WriteTimeEvents
<1>15. CASE Reset
  BY <1>15 DEF Reset, EventInv, AlarmRemembered, StoppedTod
<1>16. CASE UNCHANGED vars
  BY <1>16 DEF vars, EventInv, AlarmRemembered
<1> QED BY <1>5, <1>6, <1>7, <1>8, <1>9, <1>10, <1>11, <1>12, <1>13, <1>14, <1>15, <1>16 DEF Next

LEMMA LineStep ==
  ASSUME icr = owed, [Next]_vars
  PROVE  [owed \cap mask # {} /\ ~Reset => line']_vars
<1>1. ASSUME Cycle, owed \cap mask # {} PROVE line'
  BY <1>1 DEF Cycle, Phase2, Ir, Found
<1>2. ASSUME Next PROVE Cycle \/ Reset
  BY <1>2 DEF Next, NoAccess, ReadIcr, WriteIcr, WriteTimerLo, WriteTimerHi, WriteControl,
              ReadHours, ReadMinutesOrSeconds, ReadTenths, WriteTime
<1> QED BY <1>1, <1>2

LEMMA EventsHold ==
  Spec => []EventInv
<1>1. Init => EventInv
  BY DEF Init, EventInv, AlarmRemembered, StoppedTod
<1> QED BY <1>1, EventStep, TypeHolds, PTL DEF Spec

(* No read loses an event: the register holds exactly what the program has *)
(* not been told of, an underflow of timer B and an alarm in the cycle of  *)
(* the read included, and what the mask lets through holds the line.       *)
THEOREM EventsReported ==
  Spec => EventsAreReported
<1>1. EventInv => icr = owed
  BY DEF EventInv
<1> QED BY <1>1, EventsHold, LineStep, PTL DEF Spec, EventsAreReported

-----------------------------------------------------------------------------
(* The clock: what a read shows *)

ReadInv ==
  /\ got = noted
  /\ tod.latched => tod.latch = noted

LEMMA LatchAfter ==
  ASSUME TypeInv
  PROVE  /\ TodAfter.latched = tod.latched /\ TodAfter.latch = tod.latch
         /\ TodAfter \in TodType
<1>1. TodAfter \in TodType
  BY TodAfterType DEF TodInv
<1>2. /\ [tod EXCEPT !.cycles = 0, !.ticks = @ + 1].latched = tod.latched
      /\ [tod EXCEPT !.cycles = 0, !.ticks = @ + 1].latch = tod.latch
      /\ [tod EXCEPT !.cycles = @ + 1].latched = tod.latched
      /\ [tod EXCEPT !.cycles = @ + 1].latch = tod.latch
  BY Zenon DEF TypeInv, TypeOK, TodType
<1>3. AlarmSeen(Advanced).latched = tod.latched /\ AlarmSeen(Advanced).latch = tod.latch
  BY Zenon DEF TypeInv, TypeOK, TodType, Advanced, AlarmSeen
<1> QED BY <1>1, <1>2, <1>3, TodCases, Zenon

LEMMA ReadStep ==
  ASSUME TypeInv, ReadInv, [Next]_vars
  PROVE  ReadInv'
<1>1. /\ TodAfter.latched = tod.latched /\ TodAfter.latch = tod.latch
      /\ TodAfter \in TodType /\ got = noted /\ noted \in Times
  BY LatchAfter DEF ReadInv, TypeInv, TypeOK
<1>2. ASSUME UNCHANGED <<noted, got>>, tod'.latched = tod.latched, tod'.latch = tod.latch
      PROVE  ReadInv'
  BY <1>2 DEF ReadInv
<1>3. ASSUME tod' = TodAfter, UNCHANGED <<noted, got>> PROVE ReadInv'
  BY <1>1, <1>2, <1>3
<1>4. CASE TodKept
  BY <1>3, <1>4 DEF TodKept
<1>5. CASE WriteControl
  <2>1. \E n, b : tod' = [TodAfter EXCEPT !.cycles = n, !.sets_alarm = b]
    BY <1>5, Zenon DEF WriteControl
  <2>2. tod'.latched = tod.latched /\ tod'.latch = tod.latch
    BY <1>1, <2>1, Zenon DEF TodType
  <2> QED BY <1>2, <1>5, <2>2 DEF WriteControl
<1>6. CASE ReadHours
  <2>1. /\ tod' = [TodAfter EXCEPT !.latched = TRUE, !.latch = TimeShown]
        /\ noted' = IF TodAfter.latched THEN noted ELSE TodAfter.time
        /\ got' = [noted' EXCEPT !.h = TimeShown.h, !.pm = TimeShown.pm]
    BY <1>6, Zenon DEF ReadHours, TimeShown
  <2>2. noted' = TimeShown
    BY <1>1, <2>1, Zenon DEF ReadInv, TimeShown
  <2>3. TimeShown \in Times
    BY <1>1, Zenon DEF TimeShown, TodType
  <2>4. got' = noted'
    BY <2>1, <2>2, <2>3, Zenon DEF Times
  <2>5. tod'.latch = TimeShown
    BY <1>1, <2>1, Zenon DEF TodType
  <2> QED BY <2>2, <2>4, <2>5 DEF ReadInv
<1>7. CASE ReadMinutesOrSeconds
  <2>1. PICK digit \in {"m", "s"} :
          got' = IF tod.latched THEN [got EXCEPT ![digit] = TimeShown[digit]] ELSE got
    BY <1>7 DEF ReadMinutesOrSeconds
  <2>2. tod.latched => TimeShown = got
    BY <1>1, Zenon DEF ReadInv, TimeShown
  <2>3. [got EXCEPT ![digit] = got[digit]] = got
    BY <1>1, Zenon DEF Times
  <2>4. got' = got
    BY <2>1, <2>2, <2>3, Zenon
  <2> QED BY <1>3, <1>7, <2>4 DEF ReadMinutesOrSeconds
<1>8. CASE ReadTenths
  <2>1. tod.latched => TimeShown = got
    BY <1>1, Zenon DEF ReadInv, TimeShown
  <2>2. [got EXCEPT !.t = got.t] = got
    BY <1>1, Zenon DEF Times
  <2>3. got' = got /\ noted' = noted
    BY <1>8, <2>1, <2>2, Zenon DEF ReadTenths
  <2>4. tod'.latched = FALSE
    BY <1>1, <1>8, Zenon DEF ReadTenths, TodType
  <2> QED BY <1>1, <2>3, <2>4 DEF ReadInv
<1>9. CASE WriteTime
  <2>1. PICK x \in program.times, digit \in {"h", "m", "s", "t"} :
          WritesDigit(x, digit)
    BY <1>9, WriteTimeIs
  <2> DEFINE set == TodSet(DigitSet(TimeBefore, x, digit), digit)
  <2>2. set.latched = tod.latched /\ set.latch = tod.latch
    BY <1>1, Zenon DEF TodType, TodSet
  <2>3. {"latched", "latch", "prev_alarm"} \subseteq DOMAIN set
    BY <1>1, Zenon DEF TodType, TodSet
  <2> HIDE DEF set
  <2>4. AlarmSeen(set).latched = set.latched /\ AlarmSeen(set).latch = set.latch
    BY <2>3, Zenon DEF AlarmSeen
  <2>5. tod' = IF digit = "t" THEN AlarmSeen(set) ELSE set
    BY <2>1, Zenon DEF WritesDigit, set
  <2>6. tod'.latched = tod.latched /\ tod'.latch = tod.latch
    BY <2>2, <2>4, <2>5, Zenon
  <2> QED BY <1>2, <1>9, <2>6 DEF WriteTime
<1>10. CASE Reset
  BY <1>10 DEF Reset, ReadInv, StoppedTod
<1>11. CASE UNCHANGED vars
  BY <1>11 DEF vars, ReadInv
<1> QED BY <1>4, <1>5, <1>6, <1>7, <1>8, <1>9, <1>10, <1>11
        DEF Next, NoAccess, ReadIcr, WriteIcr, WriteTimerLo, WriteTimerHi

-----------------------------------------------------------------------------
(* The clock: the tenths of a day one by one.  Each digit with those above *)
(* it is a number of mixed radix, and the carry its successor.             *)

LEMMA NoCarry ==
  ASSUME NEW U \in Nat \ {0}, NEW D \in Nat \ {0}, NEW u \in 0 .. U - 1, NEW d \in 0 .. D - 1,
         d + 1 < D
  PROVE  u * D + (d + 1) = ((u * D + d) + 1) % (U * D)
<1> DEFINE N == U * D
           x == u * D
<1>1. N \in Nat \ {0} /\ x \in Int
  OBVIOUS
<1>2. x + (d + 1) \in 0 .. N - 1
  BY TwoDigits
<1>3. \A a \in 0 .. N - 1 : a % N = a
  BY <1>1, Reduced
<1> HIDE DEF N, x
<1>4. (x + d) + 1 = x + (d + 1)
  BY <1>1
<1>5. x + (d + 1) = ((x + d) + 1) % N
  BY <1>2, <1>3, <1>4
<1> QED BY <1>5 DEF x, N

LEMMA CarryOver ==
  ASSUME NEW U \in Nat \ {0}, NEW D \in Nat \ {0}, NEW u \in 0 .. U - 1
  PROVE  ((u + 1) % U) * D = ((u * D + (D - 1)) + 1) % (U * D)
<1> DEFINE N == U * D
           y == (u + 1) * D
           c == (u + 1) % U
<1>1. N \in Nat \ {0} /\ y \in Int /\ (u * D + (D - 1)) + 1 = y
  OBVIOUS
<1>2. N % N = 0 /\ \A a \in 0 .. N - 1 : a % N = a
  BY <1>1, Reduced
<1>3. CASE u + 1 < U
  <2>1. u + 1 \in 0 .. U - 1 /\ 0 \in 0 .. D - 1
    BY <1>3
  <2>2. (u + 1) * D + 0 \in 0 .. N - 1
    BY <2>1, TwoDigits
  <2>3. c = u + 1
    BY <2>1, Reduced
  <2>4. y \in 0 .. N - 1 /\ c * D = y
    BY <1>1, <2>2, <2>3
  <2> HIDE DEF N, y, c
  <2>5. c * D = y % N
    BY <1>2, <2>4
  <2> QED BY <1>1, <2>5 DEF c, N
<1>4. CASE ~(u + 1 < U)
  <2>1. u + 1 = U
    BY <1>4
  <2>2. c = 0 /\ y = N
    BY <2>1, Reduced
  <2>3. c * D = 0
    BY <2>2
  <2> HIDE DEF N, y, c
  <2>4. c * D = y % N
    BY <1>2, <2>2, <2>3
  <2> QED BY <1>1, <2>4 DEF c, N
<1> QED BY <1>3, <1>4

Minutes(x) == Hour24(x) * Sixty + x.m
Seconds(x) == Minutes(x) * Sixty + x.s

Hours         == 2 * Noon
HoursMinutes  == Hours * Sixty
HoursSeconds  == HoursMinutes * Sixty

LEMMA Radixes ==
  /\ Tenths \in Nat \ {0} /\ Tenths > 1 /\ Sixty \in Nat \ {0}
  /\ Noon \in Nat \ {0} /\ Noon > 1
  /\ Hours \in Nat \ {0} /\ HoursMinutes \in Nat \ {0} /\ HoursSeconds \in Nat \ {0}
  /\ Day = HoursSeconds * Tenths
<1>1. /\ Tenths \in Nat \ {0} /\ Tenths > 1 /\ Sixty \in Nat \ {0}
      /\ Noon \in Nat \ {0} /\ Noon > 1
  BY CiaAssumption
<1>2. \A a, b \in Nat \ {0} : a * b \in Nat \ {0}
  OBVIOUS
<1>3. Hours \in Nat \ {0}
  BY <1>1 DEF Hours
<1>4. HoursMinutes \in Nat \ {0}
  BY <1>1, <1>2, <1>3, Zenon DEF HoursMinutes
<1>5. HoursSeconds \in Nat \ {0}
  BY <1>1, <1>2, <1>4, Zenon DEF HoursSeconds
<1> QED BY <1>1, <1>3, <1>4, <1>5, Zenon DEF Day, HoursSeconds, HoursMinutes, Hours

\* The hour after noon's eleven is twelve of the other half, the one after twelve is one.
LEMMA NextHourIs ==
  ASSUME NEW x \in Times, x.h > 0
  PROVE  /\ Hour24(x) \in 0 .. Hours - 1
         /\ Hour24(NextHour(x)) = (Hour24(x) + 1) % Hours
<1>1. /\ Noon \in Nat \ {0} /\ Noon > 1 /\ Hours \in Nat \ {0} /\ Hours = Noon + Noon
      /\ x.h \in 1 .. Noon
  BY Radixes DEF Hours, Times
<1>2. /\ \A a \in 0 .. Noon - 1 : a % Noon = a
      /\ Noon % Noon = 0 /\ Hours % Hours = 0
      /\ \A a \in 0 .. Hours - 1 : a % Hours = a
  BY <1>1, Reduced
<1> DEFINE half == IF x.pm THEN Noon ELSE 0
<1>3. half \in {0, Noon} /\ (x.pm <=> half = Noon) /\ Hour24(x) = (x.h % Noon) + half
  BY <1>1 DEF Hour24
<1>4. CASE x.h + 1 < Noon /\ NextHour(x) = [x EXCEPT !.h = @ + 1]
  <2>1. NextHour(x).h = x.h + 1 /\ NextHour(x).pm = x.pm
    BY <1>4, Zenon DEF Times
  <2>2. Hour24(NextHour(x)) = ((x.h + 1) % Noon) + half
    BY <2>1, Zenon DEF Hour24
  <2> HIDE DEF half
  <2>3. x.h \in 0 .. Noon - 1 /\ x.h + 1 \in 0 .. Noon - 1
    BY <1>1, <1>4
  <2>4. Hour24(x) = x.h + half /\ Hour24(NextHour(x)) = (x.h + 1) + half
    BY <1>2, <1>3, <2>2, <2>3, Zenon
  <2>5. Hour24(x) \in 0 .. Hours - 1 /\ (x.h + half) + 1 \in 0 .. Hours - 1
    BY <1>1, <1>3, <2>3, <2>4
  <2>6. (x.h + half) + 1 = (x.h + 1) + half
    BY <1>1, <1>3
  <2> QED BY <1>2, <2>4, <2>5, <2>6, Zenon
<1>5. CASE x.h + 1 = Noon /\ NextHour(x) = [x EXCEPT !.h = @ + 1, !.pm = ~@]
  <2>1. NextHour(x).h = Noon /\ (NextHour(x).pm <=> ~x.pm)
    BY <1>5, Zenon DEF Times
  <2>2. x.h \in 0 .. Noon - 1
    BY <1>1, <1>5
  <2>3. Hour24(NextHour(x)) = 0 + (IF x.pm THEN 0 ELSE Noon) /\ Hour24(x) = x.h + half
    BY <1>2, <1>3, <2>1, <2>2, Zenon DEF Hour24
  <2>4. CASE x.pm
    <3>1. Hour24(NextHour(x)) = 0 /\ Hour24(x) = x.h + Noon
      BY <2>3, <2>4
    <3>2. Hour24(x) + 1 = Hours /\ Hour24(x) \in 0 .. Hours - 1
      BY <1>1, <1>5, <3>1
    <3> QED BY <1>2, <3>1, <3>2, Zenon
  <2>5. CASE ~x.pm
    <3>1. Hour24(NextHour(x)) = Noon /\ Hour24(x) = x.h
      BY <1>1, <2>3, <2>5
    <3>2. /\ Hour24(x) + 1 = Noon /\ Hour24(x) \in 0 .. Hours - 1
          /\ Noon \in 0 .. Hours - 1
      BY <1>1, <1>5, <3>1
    <3> QED BY <1>2, <3>1, <3>2, Zenon
  <2> QED BY <2>4, <2>5
<1>6. CASE x.h + 1 > Noon /\ NextHour(x) = [x EXCEPT !.h = 1]
  <2>1. x.h = Noon /\ 1 \in 0 .. Noon - 1
    BY <1>1, <1>6
  <2>2. NextHour(x).h = 1 /\ NextHour(x).pm = x.pm
    BY <1>6, Zenon DEF Times
  <2>3. Hour24(NextHour(x)) = (1 % Noon) + half
    BY <2>2, Zenon DEF Hour24
  <2> HIDE DEF half
  <2>4. Hour24(x) = 0 + half /\ Hour24(NextHour(x)) = 1 + half
    BY <1>2, <1>3, <2>1, <2>3, Zenon
  <2>5. /\ Hour24(x) + 1 = 1 + half /\ Hour24(x) \in 0 .. Hours - 1
        /\ 1 + half \in 0 .. Hours - 1
    <3>1. half = 0 \/ half = Noon
      BY <1>3
    <3> QED BY <1>1, <2>4, <3>1
  <2> QED BY <1>2, <2>4, <2>5, Zenon
<1>7. x.h \in Int
  BY <1>1
<1> QED BY <1>4, <1>5, <1>6, <1>7, HourCases, Zenon

\* A carry leaves the digits below it at zero.
LEMMA CarryKeeps ==
  ASSUME NEW x \in Times
  PROVE  /\ NextHour(x).m = x.m /\ NextHour(x).s = x.s /\ NextHour(x).t = x.t
         /\ NextMinute(x).s = x.s /\ NextMinute(x).t = x.t
         /\ NextSecond(x).t = x.t
<1>1. ASSUME NEW y, {"t", "s", "m", "h", "pm"} = DOMAIN y, y.h \in Int
      PROVE  /\ NextHour(y).m = y.m /\ NextHour(y).s = y.s /\ NextHour(y).t = y.t
  <2>1. \/ NextHour(y) = [y EXCEPT !.h = @ + 1]
        \/ NextHour(y) = [y EXCEPT !.h = @ + 1, !.pm = ~@]
        \/ NextHour(y) = [y EXCEPT !.h = 1]
    BY <1>1, HourCases
  <2> QED BY <1>1, <2>1, Zenon
<1> DEFINE Good(y) == {"t", "s", "m", "h", "pm"} = DOMAIN y /\ y.h \in Int
<1>2. ASSUME NEW y, Good(y)
      PROVE  NextMinute(y).s = y.s /\ NextMinute(y).t = y.t
  <2> DEFINE z == [y EXCEPT !.m = 0]
  <2>1. Good(z) /\ z.s = y.s /\ z.t = y.t
    BY <1>2, Zenon
  <2>2. NextHour(z).s = z.s /\ NextHour(z).t = z.t
    BY <1>1, <2>1, Zenon
  <2>3. NextMinute(y) = [y EXCEPT !.m = @ + 1] \/ NextMinute(y) = NextHour(z)
    BY Zenon DEF NextMinute
  <2>4. [y EXCEPT !.m = @ + 1].s = y.s /\ [y EXCEPT !.m = @ + 1].t = y.t
    BY <1>2, Zenon
  <2> QED BY <2>1, <2>2, <2>3, <2>4, Zenon
<1>3. ASSUME NEW y, Good(y)
      PROVE  NextSecond(y).t = y.t
  <2> DEFINE z == [y EXCEPT !.s = 0]
  <2>1. Good(z) /\ z.t = y.t
    BY <1>3, Zenon
  <2>2. NextMinute(z).t = z.t
    BY <1>2, <2>1, Zenon
  <2>3. NextSecond(y) = [y EXCEPT !.s = @ + 1] \/ NextSecond(y) = NextMinute(z)
    BY Zenon DEF NextSecond
  <2>4. [y EXCEPT !.s = @ + 1].t = y.t
    BY <1>3, Zenon
  <2> QED BY <2>1, <2>2, <2>3, <2>4, Zenon
<1>4. x.h \in Int
  BY DEF Times
<1>5. Good(x)
  BY <1>4, Zenon DEF Times
<1> QED BY <1>1, <1>2, <1>3, <1>5, Zenon

LEMMA NextMinuteIs ==
  ASSUME NEW x \in Times, x.h > 0
  PROVE  /\ Minutes(x) \in 0 .. HoursMinutes - 1
         /\ Minutes(NextMinute(x)) = (Minutes(x) + 1) % HoursMinutes
<1> DEFINE u == Hour24(x)
           y == [x EXCEPT !.m = 0]
<1>1. u \in 0 .. Hours - 1 /\ x.m \in 0 .. Sixty - 1 /\ Minutes(x) = u * Sixty + x.m
  BY NextHourIs DEF Times, Minutes
<1>2. y \in Times /\ y.h > 0 /\ y.h = x.h /\ y.pm = x.pm /\ y.m = 0
  BY Radixes DEF Times
<1>3. Hour24(y) = u
  BY <1>2, Zenon DEF Hour24
<1> HIDE DEF u
<1>4. Minutes(x) \in 0 .. HoursMinutes - 1
  BY <1>1, Radixes, TwoDigits DEF HoursMinutes
<1>5. CASE x.m + 1 < Sixty
  <2>1. NextMinute(x).m = x.m + 1 /\ Hour24(NextMinute(x)) = u
    BY <1>5, Zenon DEF NextMinute, Times, Hour24, u
  <2>2. Minutes(NextMinute(x)) = u * Sixty + (x.m + 1)
    BY <2>1, Zenon DEF Minutes
  <2>3. u * Sixty + (x.m + 1) = ((u * Sixty + x.m) + 1) % (Hours * Sixty)
    BY <1>1, <1>5, Radixes, NoCarry, Zenon
  <2> QED BY <1>1, <1>4, <2>2, <2>3, Zenon DEF HoursMinutes
<1>6. CASE ~(x.m + 1 < Sixty)
  <2> HIDE DEF y
  <2>1. NextMinute(x) = NextHour(y)
    BY <1>6, Zenon DEF NextMinute, y
  <2>2. Hour24(NextHour(y)) = (u + 1) % Hours
    BY <1>2, <1>3, NextHourIs
  <2>3. NextHour(y).m = 0
    BY <1>2, CarryKeeps
  <2>4. Minutes(NextMinute(x)) = ((u + 1) % Hours) * Sixty
    <3>1. ((u + 1) % Hours) * Sixty \in Int
      BY <1>1, Radixes, DivMod
    <3> QED BY <2>1, <2>2, <2>3, <3>1 DEF Minutes
  <2>5. ((u + 1) % Hours) * Sixty = ((u * Sixty + x.m) + 1) % (Hours * Sixty)
    <3>1. Sixty - 1 = x.m
      BY <1>1, <1>6, Radixes
    <3>2. ((u + 1) % Hours) * Sixty = ((u * Sixty + (Sixty - 1)) + 1) % (Hours * Sixty)
      BY <1>1, Radixes, CarryOver, Zenon
    <3> QED BY <3>1, <3>2, Zenon
  <2> QED BY <1>1, <1>4, <2>4, <2>5, Zenon DEF HoursMinutes
<1> QED BY <1>5, <1>6

LEMMA NextSecondIs ==
  ASSUME NEW x \in Times, x.h > 0
  PROVE  /\ Seconds(x) \in 0 .. HoursSeconds - 1
         /\ Seconds(NextSecond(x)) = (Seconds(x) + 1) % HoursSeconds
<1> DEFINE u == Minutes(x)
           y == [x EXCEPT !.s = 0]
<1>1. u \in 0 .. HoursMinutes - 1 /\ x.s \in 0 .. Sixty - 1 /\ Seconds(x) = u * Sixty + x.s
  BY NextMinuteIs DEF Times, Seconds
<1>2. /\ y \in Times /\ y.h > 0 /\ y.h = x.h /\ y.pm = x.pm /\ y.m = x.m /\ y.s = 0
  BY Radixes DEF Times
<1>3. Minutes(y) = u
  BY <1>2, Zenon DEF Hour24, Minutes
<1> HIDE DEF u
<1>4. Seconds(x) \in 0 .. HoursSeconds - 1
  BY <1>1, Radixes, TwoDigits DEF HoursSeconds
<1>5. CASE x.s + 1 < Sixty
  <2>1. NextSecond(x).s = x.s + 1 /\ Minutes(NextSecond(x)) = u
    BY <1>5, Zenon DEF NextSecond, Times, Hour24, Minutes, u
  <2>2. Seconds(NextSecond(x)) = u * Sixty + (x.s + 1)
    BY <2>1, Zenon DEF Seconds
  <2>3. u * Sixty + (x.s + 1) = ((u * Sixty + x.s) + 1) % (HoursMinutes * Sixty)
    BY <1>1, <1>5, Radixes, NoCarry, Zenon
  <2> QED BY <1>1, <1>4, <2>2, <2>3, Zenon DEF HoursSeconds
<1>6. CASE ~(x.s + 1 < Sixty)
  <2> HIDE DEF y
  <2>1. NextSecond(x) = NextMinute(y)
    BY <1>6, Zenon DEF NextSecond, y
  <2>2. Minutes(NextMinute(y)) = (u + 1) % HoursMinutes
    BY <1>2, <1>3, NextMinuteIs
  <2>3. NextMinute(y).s = 0
    BY <1>2, CarryKeeps
  <2>4. Seconds(NextSecond(x)) = ((u + 1) % HoursMinutes) * Sixty
    <3>1. ((u + 1) % HoursMinutes) * Sixty \in Int
      BY <1>1, Radixes, DivMod
    <3> QED BY <2>1, <2>2, <2>3, <3>1 DEF Seconds
  <2>5. ((u + 1) % HoursMinutes) * Sixty = ((u * Sixty + x.s) + 1) % (HoursMinutes * Sixty)
    <3>1. Sixty - 1 = x.s
      BY <1>1, <1>6, Radixes
    <3>2. ((u + 1) % HoursMinutes) * Sixty = ((u * Sixty + (Sixty - 1)) + 1) % (HoursMinutes * Sixty)
      BY <1>1, Radixes, CarryOver, Zenon
    <3> QED BY <3>1, <3>2, Zenon
  <2> QED BY <1>1, <1>4, <2>4, <2>5, Zenon DEF HoursSeconds
<1> QED BY <1>5, <1>6

LEMMA NextTenthIs ==
  ASSUME NEW x \in Times, x.h > 0
  PROVE  Instant(NextTenth(x)) = (Instant(x) + 1) % Day
<1> DEFINE u == Seconds(x)
           y == [x EXCEPT !.t = 0]
<1>1. u \in 0 .. HoursSeconds - 1 /\ x.t \in 0 .. Tenths - 1 /\ Instant(x) = u * Tenths + x.t
  <2>1. Instant(x) = u * Tenths + x.t
    BY Zenon DEF Instant, Seconds, Minutes
  <2> QED BY <2>1, NextSecondIs DEF Times
<1>2. /\ y \in Times /\ y.h > 0 /\ y.h = x.h /\ y.pm = x.pm /\ y.m = x.m /\ y.s = x.s
      /\ y.t = 0
  BY Radixes DEF Times
<1>3. Seconds(y) = u
  BY <1>2, Zenon DEF Hour24, Minutes, Seconds
<1>4. \A z : Instant(z) = Seconds(z) * Tenths + z.t
  BY Zenon DEF Instant, Seconds, Minutes
<1> HIDE DEF u
<1>5. CASE x.t + 1 < Tenths
  <2>1. NextTenth(x).t = x.t + 1 /\ Seconds(NextTenth(x)) = u
    BY <1>5, Zenon DEF NextTenth, Times, Hour24, Minutes, Seconds, u
  <2>2. Instant(NextTenth(x)) = u * Tenths + (x.t + 1)
    BY <1>4, <2>1, Zenon
  <2>3. u * Tenths + (x.t + 1) = ((u * Tenths + x.t) + 1) % (HoursSeconds * Tenths)
    BY <1>1, <1>5, Radixes, NoCarry, Zenon
  <2> QED BY <1>1, <2>2, <2>3, Radixes, Zenon
<1>6. CASE ~(x.t + 1 < Tenths)
  <2> HIDE DEF y
  <2>1. NextTenth(x) = NextSecond(y)
    BY <1>6, Zenon DEF NextTenth, y
  <2>2. Seconds(NextSecond(y)) = (u + 1) % HoursSeconds
    BY <1>2, <1>3, NextSecondIs
  <2>3. NextSecond(y).t = 0
    BY <1>2, CarryKeeps
  <2>4. Instant(NextTenth(x)) = ((u + 1) % HoursSeconds) * Tenths
    <3>1. ((u + 1) % HoursSeconds) * Tenths \in Int
      BY <1>1, Radixes, DivMod
    <3> QED BY <1>4, <2>1, <2>2, <2>3, <3>1
  <2>5. ((u + 1) % HoursSeconds) * Tenths = ((u * Tenths + x.t) + 1) % (HoursSeconds * Tenths)
    <3>1. Tenths - 1 = x.t
      BY <1>1, <1>6, Radixes
    <3>2. ((u + 1) % HoursSeconds) * Tenths = ((u * Tenths + (Tenths - 1)) + 1) % (HoursSeconds * Tenths)
      BY <1>1, Radixes, CarryOver, Zenon
    <3> QED BY <3>1, <3>2, Zenon
  <2> QED BY <1>1, <2>4, <2>5, Radixes, Zenon
<1> QED BY <1>5, <1>6

\* Only a tenth or the program changes the time.
LEMMA ClockStep ==
  ASSUME TypeInv, [Next]_vars
  PROVE  [tod'.time # tod.time /\ ~WriteTime /\ ~Reset =>
           Instant(tod'.time) = (Instant(tod.time) + 1) % Day]_vars
<1>1. SUFFICES ASSUME Next, tod'.time # tod.time, ~WriteTime, ~Reset
               PROVE  Instant(tod'.time) = (Instant(tod.time) + 1) % Day
  OBVIOUS
<1>2. tod \in TodType /\ TodAfter \in TodType /\ tod.time \in Times /\ tod.time.h > 0
  BY TodAfterType DEF TodInv, TypeInv, TypeOK, TodType
<1>3. tod'.time = TodAfter.time
  <2>1. CASE TodKept
    BY <2>1 DEF TodKept
  <2>2. CASE WriteControl
    <3>1. \E n, b : tod' = [TodAfter EXCEPT !.cycles = n, !.sets_alarm = b]
      BY <2>2, Zenon DEF WriteControl
    <3> QED BY <1>2, <3>1, Zenon DEF TodType
  <2>3. CASE ReadHours
    <3>1. tod' = [TodAfter EXCEPT !.latched = TRUE, !.latch = TimeShown]
      BY <2>3, Zenon DEF ReadHours, TimeShown
    <3> QED BY <1>2, <3>1, Zenon DEF TodType
  <2>4. CASE ReadMinutesOrSeconds
    BY <2>4 DEF ReadMinutesOrSeconds
  <2>5. CASE ReadTenths
    BY <1>2, <2>5, Zenon DEF ReadTenths, TodType
  <2> QED BY <1>1, <2>1, <2>2, <2>3, <2>4, <2>5
          DEF Next, NoAccess, ReadIcr, WriteIcr, WriteTimerLo, WriteTimerHi
<1>4. AlarmSeen(Advanced).time = NextTenth(tod.time)
  BY <1>2, Zenon DEF AlarmSeen, Advanced, TodType
<1>5. /\ [tod EXCEPT !.cycles = 0, !.ticks = @ + 1].time = tod.time
      /\ [tod EXCEPT !.cycles = @ + 1].time = tod.time
  BY <1>2, Zenon DEF TodType
<1>6. tod'.time = NextTenth(tod.time)
  BY <1>1, <1>3, <1>4, <1>5, TodCases, Zenon
<1> QED BY <1>2, <1>6, NextTenthIs, Zenon

LEMMA ReadHolds ==
  Spec => []ReadInv
<1>1. Init => ReadInv
  BY DEF Init, ReadInv, StoppedTod
<1> QED BY <1>1, ReadStep, TypeHolds, PTL DEF Spec

(* The clock takes the tenths of a day one by one, through every carry up  *)
(* to midnight, whatever its digits count; and the digits a program reads  *)
(* from the hours down to the tenths are those of one instant, however     *)
(* long it takes over them.                                                *)
THEOREM ClockRight ==
  Spec => ClockIsRight
<1>1. ReadInv => got = noted
  BY DEF ReadInv
<1> QED BY <1>1, ReadHolds, ClockStep, TypeHolds, PTL DEF Spec, ClockIsRight

-----------------------------------------------------------------------------
(* The timers.  What was fed to a timer since it was loaded is what it     *)
(* counted down, and what its pipeline holds still.                        *)

Fed(v, from) == ((from - v.counter) + Cardinality(v.pipe)) % Word

CountInv == \A t \in Timers : counts[t] = Fed(timer[t], loaded[t])

LEMMA FedByTheCycle ==
  ASSUME TypeInv, CountInv, NEW t \in Timers
  PROVE  CountsAfter[t] = Fed(TimersAfter[t], LoadedAfter[t])
<1> DEFINE v == timer[t]
           w == AfterLoad(Decreased(v))
           p == Piped(w, Counts(t))
           C == IF Counts(t) THEN 1 ELSE 0
           a == IF "active" \in v.pipe THEN 1 ELSE 0
           c == IF "count" \in v.pipe THEN 1 ELSE 0
           l == loaded[t]
           n == v.counter
<1>1. /\ v \in TimerType /\ w \in TimerType /\ v.pipe \in SUBSET {"active", "count"}
      /\ n \in 0 .. Word - 1 /\ v.latch \in 0 .. Word - 1 /\ l \in 0 .. Word - 1
  BY DecreasedType DEF TypeInv, TypeOK, TimerType
<1>2. C \in 0 .. 1 /\ a \in 0 .. 1 /\ c \in 0 .. 1 /\ Word \in Nat \ {0} /\ Word > 3
  BY Widths
<1>3. Cardinality(v.pipe) = a + c
  BY <1>1, PipeLength
<1>4. counts[t] = ((l - n) + (a + c)) % Word
  BY <1>3 DEF CountInv, Fed
<1>5. /\ p.counter = w.counter
      /\ p.pipe = (IF Counts(t) THEN {"active"} ELSE {})
                  \cup (IF "active" \in w.pipe THEN {"count"} ELSE {})
  <2> HIDE DEF w
  <2> QED BY <1>1, Zenon DEF Piped, TimerType
<1>6. /\ TimersAfter[t] = p
      /\ CountsAfter[t] = ((IF LoadedNow(t) THEN 0 ELSE counts[t]) + C) % Word
      /\ LoadedAfter[t] = IF LoadedNow(t) THEN v.latch ELSE l
  BY Zenon DEF TimersAfter, CountsAfter, LoadedAfter
<1>7. /\ p.pipe \in SUBSET {"active", "count"}
      /\ Cardinality(p.pipe) = C + (IF "active" \in w.pipe THEN 1 ELSE 0)
  <2> HIDE DEF p, w
  <2>1. p.pipe \in SUBSET {"active", "count"}
    BY <1>5
  <2>2. ("active" \in p.pipe <=> Counts(t)) /\ ("count" \in p.pipe <=> "active" \in w.pipe)
    BY <1>5
  <2> QED BY <2>1, <2>2, PipeLength
<1>8. CASE LoadedNow(t)
  <2>1. w.counter = v.latch /\ "active" \notin w.pipe
    <3>1. Underflows(v) \/ LoadFires(v)
      BY <1>8 DEF LoadedNow
    <3>2. /\ Decreased(v).latch = v.latch /\ Decreased(v).load = v.load
          /\ DOMAIN Decreased(v) = DOMAIN v
      BY <1>1, Zenon DEF Decreased, Reloaded, TimerType
    <3>3. CASE LoadFires(v)
      <4>1. w = Reloaded(Decreased(v))
        BY <3>2, <3>3 DEF AfterLoad, LoadFires
      <4>2. {"counter", "pipe"} \subseteq DOMAIN Decreased(v)
        BY <1>1, <3>2, Zenon DEF TimerType
      <4> QED BY <3>2, <4>1, <4>2 DEF Reloaded, PipeAfterLoad
    <3>4. CASE ~LoadFires(v)
      <4>1. w = Decreased(v) /\ Underflows(v)
        BY <3>1, <3>2, <3>4 DEF AfterLoad, LoadFires
      <4>2. w = [[v EXCEPT !.counter = v.latch, !.pipe = PipeAfterLoad(v)]
                     EXCEPT !.start = @ /\ ~v.oneshot]
        BY <4>1, Zenon DEF Decreased, Reloaded
      <4>3. w.counter = v.latch /\ w.pipe = PipeAfterLoad(v)
        BY <1>1, <4>2, Zenon DEF TimerType
      <4> QED BY <4>3 DEF PipeAfterLoad
    <3> QED BY <3>3, <3>4
  <2> HIDE DEF p, w, C, v
  <2>2. (v.latch - v.latch) + C = 0 + C /\ C + 0 = C /\ 0 + C = C
    BY <1>1, <1>2
  <2>3. Fed(p, v.latch) = ((v.latch - v.latch) + C) % Word
    BY <1>5, <1>7, <2>1, <2>2 DEF Fed
  <2> QED BY <1>6, <1>8, <2>2, <2>3, Zenon
<1>9. CASE ~LoadedNow(t)
  <2>1. w.counter = Counted(v) /\ w.pipe = v.pipe
    <3>1. ~Underflows(v) /\ ~LoadFires(v)
      BY <1>9 DEF LoadedNow
    <3>2. Decreased(v) = [v EXCEPT !.counter = Counted(v)]
      BY <3>1 DEF Decreased
    <3>3. w = Decreased(v)
      BY <1>1, <3>1, <3>2, Zenon DEF AfterLoad, LoadFires, TimerType
    <3> QED BY <1>1, <3>2, <3>3, Zenon DEF TimerType
  <2>2. Counted(v) = (n - c) % Word
    <3>1. \A i \in 0 .. Word - 1 : i % Word = i
      BY Widths, Reduced
    <3>2. n - 0 = n
      BY <1>1
    <3> QED BY <1>1, <3>1, <3>2, Zenon DEF Counted
  <2>3. Cardinality(p.pipe) = C + a
    BY <1>7, <2>1
  <2> HIDE DEF p, w, C, v, a, c, l, n
  <2>4. Fed(p, l) = ((l - ((n - c) % Word)) + (C + a)) % Word
    BY <1>5, <2>1, <2>2, <2>3, Zenon DEF Fed
  <2>5. /\ l + (C + a) \in Int /\ n - c \in Int /\ (n - c) % Word \in Int
        /\ (l - n) + (a + c) \in Int /\ C \in Int
    BY <1>1, <1>2, Widths
  <2>6. (l - ((n - c) % Word)) + (C + a) = (l + (C + a)) - ((n - c) % Word)
    BY <1>1, <1>2, <2>5
  <2>7. ((l + (C + a)) - ((n - c) % Word)) % Word = ((l + (C + a)) - (n - c)) % Word
    BY <1>2, <2>5, ModSubtract, Zenon
  <2>8. (counts[t] + C) % Word = (((l - n) + (a + c)) + C) % Word
    <3>1. ((((l - n) + (a + c)) % Word) + C) % Word = (((l - n) + (a + c)) + C) % Word
      BY <1>2, <2>5, ModAdd, Zenon
    <3> QED BY <1>4, <3>1, Zenon
  <2>9. ((l - n) + (a + c)) + C = (l + (C + a)) - (n - c)
    BY <1>1, <1>2
  <2> QED BY <1>6, <1>9, <2>4, <2>6, <2>7, <2>8, <2>9, Zenon
<1> QED BY <1>8, <1>9

\* A write of the high byte loads a timer that stands, with what its pipeline holds.
LEMMA FedByWriteTimerHi ==
  ASSUME TypeInv, CountInv, WriteTimerHi
  PROVE  CountInv'
<1>1. PICK u \in Timers, b \in Bytes :
        LET v == TimersAfter[u]
            latch == (b * Byte) + (v.latch % Byte)
        IN /\ timer' = [TimersAfter EXCEPT
                ![u].latch = latch,
                ![u].counter = IF v.start THEN @ ELSE latch]
           /\ counts' = [CountsAfter EXCEPT
                ![u] = IF v.start THEN @ ELSE Cardinality(v.pipe)]
           /\ loaded' = [LoadedAfter EXCEPT ![u] = IF v.start THEN @ ELSE latch]
  BY DEF WriteTimerHi
<1> DEFINE v == TimersAfter[u]
           n == (b * Byte) + (v.latch % Byte)
           k == Cardinality(v.pipe)
<1>2. /\ TimersAfter \in [Timers -> TimerType]
      /\ CountsAfter \in [Timers -> 0 .. Word - 1]
      /\ LoadedAfter \in [Timers -> 0 .. Word - 1]
  BY TimersAfterType, CountsAfterType DEF TypeInv
<1>3. v \in TimerType /\ v.latch \in 0 .. Word - 1 /\ v.pipe \in SUBSET {"active", "count"}
  BY <1>2 DEF TimerType
<1>4. n \in 0 .. Word - 1 /\ k \in 0 .. Word - 1
  BY <1>3, Halves, PipeLength, Widths
<1>5. /\ timer' = [TimersAfter EXCEPT
                     ![u].latch = n, ![u].counter = IF v.start THEN @ ELSE n]
      /\ counts' = [CountsAfter EXCEPT ![u] = IF v.start THEN @ ELSE k]
      /\ loaded' = [LoadedAfter EXCEPT ![u] = IF v.start THEN @ ELSE n]
  BY <1>1
<1> HIDE DEF n
<1>6. /\ timer'[u].counter = IF v.start THEN v.counter ELSE n
      /\ timer'[u].pipe = v.pipe
      /\ counts'[u] = IF v.start THEN CountsAfter[u] ELSE k
      /\ loaded'[u] = IF v.start THEN LoadedAfter[u] ELSE n
  BY <1>2, <1>3, <1>5, Zenon DEF TimerType
<1>7. CountsAfter[u] = Fed(v, LoadedAfter[u])
  BY FedByTheCycle
<1>8. k = ((n - n) + k) % Word
  <2> HIDE DEF k
  <2>1. (n - n) + k = k
    BY <1>4
  <2> QED BY <1>4, <2>1, Widths, Reduced, Zenon
<1>9. counts'[u] = Fed(timer'[u], loaded'[u])
  <2>1. CASE v.start
    BY <1>6, <1>7, <2>1, Zenon DEF Fed
  <2>2. CASE ~v.start
    <3>1. Cardinality(timer'[u].pipe) = k /\ timer'[u].counter = n
      BY <1>6, <2>2, Zenon
    <3>2. counts'[u] = k /\ loaded'[u] = n
      BY <1>6, <2>2, Zenon
    <3> HIDE DEF k
    <3> QED BY <1>8, <3>1, <3>2, Zenon DEF Fed
  <2> QED BY <2>1, <2>2
<1>10. ASSUME NEW t \in Timers, t # u
       PROVE  counts'[t] = Fed(timer'[t], loaded'[t])
  <2>1. timer'[t] = TimersAfter[t] /\ counts'[t] = CountsAfter[t] /\ loaded'[t] = LoadedAfter[t]
    BY <1>2, <1>5, <1>10, Zenon
  <2> QED BY <2>1, FedByTheCycle, Zenon
<1> QED BY <1>9, <1>10, Zenon DEF CountInv, Fed

LEMMA StoppedIsFed ==
  (((Word - 1) - (Word - 1)) + Cardinality({})) % Word = 0
<1>1. ((Word - 1) - (Word - 1)) + Cardinality({}) = 0
  BY Widths, FS_EmptySet
<1>2. 0 % Word = 0
  BY Widths, Reduced
<1> QED BY <1>1, <1>2, Zenon

LEMMA CountStep ==
  ASSUME TypeInv, CountInv, [Next]_vars
  PROVE  CountInv'
<1>1. TimersAfter \in [Timers -> TimerType]
  BY TimersAfterType DEF TypeInv
<1>2. ASSUME counts' = CountsAfter, loaded' = LoadedAfter,
             \A t \in Timers : /\ timer'[t].counter = TimersAfter[t].counter
                              /\ timer'[t].pipe = TimersAfter[t].pipe
      PROVE  CountInv'
  BY <1>2, FedByTheCycle, Zenon DEF CountInv, Fed
<1>3. CASE TimersKept
  BY <1>2, <1>3, Zenon DEF TimersKept
<1>4. CASE WriteTimerLo
  <2>1. PICK u \in Timers, b \in Bytes :
          timer' = [TimersAfter EXCEPT ![u].latch = ((@ \div Byte) * Byte) + b]
    BY <1>4 DEF WriteTimerLo
  <2>2. \A t \in Timers : /\ timer'[t].counter = TimersAfter[t].counter
                          /\ timer'[t].pipe = TimersAfter[t].pipe
    BY <1>1, <2>1, Zenon DEF TimerType
  <2> QED BY <1>2, <1>4, <2>2 DEF WriteTimerLo
<1>5. CASE WriteTimerHi
  BY <1>5, FedByWriteTimerHi
<1>6. CASE WriteControl
  <2>1. PICK u \in Timers : \E c \in Controls(u) : WritesControl(u, c)
    BY <1>6, ControlIs
  <2>2. PICK c \in Controls(u) : WritesControl(u, c)
    BY <2>1
  <2>3. \A t \in Timers : /\ timer'[t].counter = TimersAfter[t].counter
                          /\ timer'[t].pipe = TimersAfter[t].pipe
    <3> DEFINE v == TimersAfter[u]
               m == IF c.load THEN v.load \cup {"soon"} ELSE v.load
               w == [v EXCEPT !.start = c.start, !.oneshot = c.oneshot,
                              !.inmode = c.inmode, !.load = m]
    <3>1. timer' = [TimersAfter EXCEPT ![u] = w]
      BY <1>1, <2>2, Zenon DEF WritesControl
    <3>2. v \in TimerType
      BY <1>1
    <3> HIDE DEF m, v
    <3>3. w.counter = v.counter /\ w.pipe = v.pipe
      BY <3>2, Zenon DEF TimerType
    <3> HIDE DEF w
    <3> QED BY <1>1, <3>1, <3>3, Zenon DEF v
  <2> QED BY <1>2, <1>6, <2>3 DEF WriteControl
<1>7. CASE Reset
  <2>1. \A t \in Timers : /\ counts'[t] = 0 /\ loaded'[t] = Word - 1
                          /\ timer'[t].counter = Word - 1 /\ timer'[t].pipe = {}
    BY <1>7, Zenon DEF Reset, StoppedTimer
  <2> QED BY <2>1, StoppedIsFed DEF CountInv, Fed
<1>8. CASE UNCHANGED vars
  BY <1>8, Zenon DEF vars, CountInv, Fed
<1> QED BY <1>3, <1>4, <1>5, <1>6, <1>7, <1>8
        DEF Next, NoAccess, ReadIcr, WriteIcr, ReadHours, ReadMinutesOrSeconds, ReadTenths,
            WriteTime

LEMMA CountsHold ==
  Spec => []CountInv
<1>1. ASSUME Init PROVE CountInv
  <2>1. \A t \in Timers : /\ counts[t] = 0 /\ loaded[t] = Word - 1
                          /\ timer[t].counter = Word - 1 /\ timer[t].pipe = {}
    BY <1>1, Zenon DEF Init, StoppedTimer
  <2> QED BY <2>1, StoppedIsFed DEF CountInv, Fed
<1> QED BY <1>1, CountStep, TypeHolds, PTL DEF Spec

\* A timer underflows with its last count in the second place and one more in the first.
LEMMA UnderflowIs ==
  ASSUME TypeInv, CountInv, NEW t \in Timers, Underflows(timer[t])
  PROVE  counts[t] = (loaded[t] + 1) % Word
<1> DEFINE v == timer[t]
           n == v.counter
           l == loaded[t]
           c == IF "count" \in v.pipe THEN 1 ELSE 0
<1>1. /\ v.pipe \in SUBSET {"active", "count"} /\ "active" \in v.pipe /\ Counted(v) = 0
      /\ n \in 0 .. Word - 1 /\ l \in 0 .. Word - 1
  BY DEF TypeInv, TypeOK, TimerType, Underflows
<1>2. Cardinality(v.pipe) = 1 + c
  BY <1>1, PipeLength
<1>3. n = c
  <2>1. CASE "count" \in v.pipe
    <3>1. (n - 1) % Word = 0 /\ c = 1
      BY <1>1, <2>1 DEF Counted
    <3> HIDE DEF n, c
    <3>2. n # 0
      <4> SUFFICES ASSUME n = 0 PROVE FALSE
        OBVIOUS
      <4>1. n - 1 = (-1) * Word + (Word - 1) /\ n - 1 \in Int /\ -1 \in Int
        BY Widths
      <4>2. (n - 1) % Word = Word - 1
        BY <4>1, Widths, ModUnique
      <4> QED BY <3>1, <4>2, Widths
    <3>3. n - 1 \in 0 .. Word - 1
      BY <1>1, <3>2, Widths
    <3>4. (n - 1) % Word = n - 1
      BY <3>3, Widths, Reduced
    <3> QED BY <1>1, <3>1, <3>4
  <2>2. CASE "count" \notin v.pipe
    BY <1>1, <2>2 DEF Counted
  <2> QED BY <2>1, <2>2
<1>4. counts[t] = ((l - n) + (1 + c)) % Word
  BY <1>2 DEF CountInv, Fed
<1>5. (l - n) + (1 + c) = l + 1
  BY <1>1, <1>3
<1> QED BY <1>4, <1>5, Zenon

(* No count is lost in a pipeline and none is taken twice: a timer of any  *)
(* width underflows on one count more than it was loaded with, whatever    *)
(* starts, stops and loads the program and the other timer put in between. *)
THEOREM UnderflowsExact ==
  Spec => UnderflowsByTheLatch
<1>1. TypeInv /\ CountInv =>
        (\A t \in Timers : Underflows(timer[t]) => counts[t] = (loaded[t] + 1) % Word)
  BY UnderflowIs
<1>2. TypeInv /\ CountInv /\ [Next]_vars =>
        [~Reset => \A t \in Timers :
           Underflows(timer[t]) => counts[t] = (loaded[t] + 1) % Word]_vars
  BY <1>1
<1> QED BY <1>2, CountsHold, TypeHolds, PTL DEF Spec, UnderflowsByTheLatch
=============================================================================
