------------------------------- MODULE Cia6526 -------------------------------
(***************************************************************************)
(* The MOS 6526 CIA: two timers behind pipelines, the interrupt control    *)
(* register and the time-of-day clock.  One action per cycle: phase 2      *)
(* (timers, clock, interrupt, pipelines), then at most one access of the   *)
(* CPU, then phase 1.  As with the 1541, the CPU runs one of several       *)
(* programs, each known by the registers it touches.                       *)
(*                                                                         *)
(* Left out: the ports with the timers' outputs on them, and the serial    *)
(* register.  A time is a record of its digits, and the clock's pin a      *)
(* count of cycles.                                                        *)
(***************************************************************************)
EXTENDS Integers, FiniteSets

CONSTANTS
  Programs,        \* what the CPU and the pins may do
  Byte,            \* 256
  PowerCycles,     \* cycles_tod: of the CPU per cycle of the power line, less 1
  Divider,         \* 6 and 5: cycles of the power line per tenth, by CRA_TODIN
  Tenths, Sixty, Noon      \* 10, 60, 12

Timers == {"A", "B"}
Word   == Byte * Byte
Bytes  == 0 .. Byte - 1
Modes  == {"phi2", "cnt", "ta", "ta_cnt"}
Pins   == {"CNT", "FLAG"}
Events == {"TA", "TB", "ALRM", "FLG"}
Times  == [t : 0 .. Tenths - 1, s : 0 .. Sixty - 1, m : 0 .. Sixty - 1,
           h : 0 .. Noon, pm : BOOLEAN]
Control == [start : BOOLEAN, oneshot : BOOLEAN, inmode : Modes, load : BOOLEAN,
            high : BOOLEAN]

ASSUME CiaAssumption ==
  /\ Byte \in Nat /\ Byte > 1
  /\ PowerCycles \in Nat /\ Divider \in [BOOLEAN -> Nat \ {0}]
  /\ Tenths \in Nat /\ Tenths > 1 /\ Sixty \in Nat \ {0} /\ Noon \in Nat /\ Noon > 1
  /\ \A p \in Programs :
       /\ p.pins \subseteq SUBSET Pins
       /\ p.cra \subseteq Control /\ p.crb \subseteq Control
       /\ \A c \in p.cra : c.inmode \in {"phi2", "cnt"}
       /\ p.times \subseteq {x \in Times : x.h > 0}
       /\ p.registers \subseteq {"TA_LO", "TA_HI", "TB_LO", "TB_HI", "ICR",
                                 "MASK", "TOD_HR", "TOD_MIN", "TOD_SEC", "TOD_10THS"}

VARIABLES
  program,         \* the one of Programs that runs
  pins,            \* the pins that were high
  timer,           \* counter, latch, control register and pipelines of each
  todin,           \* CRA_TODIN
  icr, ir,         \* the data register: events, and the IR bit
  mask, delayed,   \* interrupt_mask, interrupt_mask_delayed
  line,            \* pending_bus_lines: the interrupt line of the next cycle
  icr_read,        \* icr_read_this_cycle
  tod,             \* the clock: time, alarm, their latches and dividers
  counts, loaded,  \* history: counts fed to a timer since it was loaded
  owed,            \* history: events no read has reported
  noted, got       \* history: the time at a read of the hours; what was read

vars == <<program, pins, timer, todin, icr, ir, mask, delayed, line, icr_read,
          tod, counts, loaded, owed, noted, got>>

Zero == [t |-> 0, s |-> 0, m |-> 0, h |-> 0, pm |-> FALSE]
PowerUp == [Zero EXCEPT !.h = 1]

StoppedTimer ==
  [counter |-> Word - 1, latch |-> Word - 1, start |-> FALSE, oneshot |-> FALSE,
   inmode |-> "phi2", pipe |-> {}, load |-> {}]

StoppedTod ==
  [time |-> PowerUp, alarm |-> Zero, latch |-> Zero, latched |-> FALSE,
   sets_alarm |-> FALSE, running |-> FALSE, cycles |-> 0, ticks |-> 0,
   prev_alarm |-> FALSE]

Init ==
  /\ program \in Programs
  /\ pins = Pins
  /\ timer = [t \in Timers |-> StoppedTimer] /\ todin = FALSE
  /\ icr = {} /\ ir = FALSE /\ mask = {} /\ delayed = {} /\ line = FALSE
  /\ icr_read = FALSE
  /\ tod = StoppedTod
  /\ counts = [t \in Timers |-> 0] /\ loaded = [t \in Timers |-> Word - 1]
  /\ owed = {} /\ noted = Zero /\ got = Zero

------------------------------------------------------------------------------
(* The timers.  A count enters a pipeline of two places: in the first the  *)
(* timer is active, in the second it counts.                               *)

CountedUnwrapped(v) == IF "count" \in v.pipe THEN v.counter - 1 ELSE v.counter
Counted(v) == IF "count" \in v.pipe THEN (v.counter - 1) % Word ELSE v.counter
Underflows(v) == Counted(v) = 0 /\ "active" \in v.pipe

(* A load takes the place of the count that is still in the first place.   *)
PipeKept(v) == v.pipe
PipeAfterLoad(v) == v.pipe \ {"active"}

Reloaded(v) == [v EXCEPT !.counter = v.latch, !.pipe = PipeAfterLoad(v)]

Decreased(v) ==
  IF Underflows(v) THEN [Reloaded(v) EXCEPT !.start = @ /\ ~v.oneshot]
  ELSE [v EXCEPT !.counter = Counted(v)]

LoadFires(v) == "now" \in v.load
AfterLoad(v) == IF LoadFires(v) THEN Reloaded(v) ELSE v

(* Timer B may count what timer A does in this very cycle. *)
Rising(pin) == pin \notin pins /\ pin \in pins'
Falling(pin) == pin \in pins /\ pin \notin pins'

Counts(t) ==
  /\ AfterLoad(Decreased(timer[t])).start
  /\ \/ timer[t].inmode = "phi2"
     \/ timer[t].inmode = "cnt" /\ Rising("CNT")
     \/ timer[t].inmode = "ta" /\ Underflows(timer["A"])
     \/ timer[t].inmode = "ta_cnt" /\ Underflows(timer["A"]) /\ "CNT" \in pins'

Piped(v, count) ==
  [v EXCEPT
    !.pipe = (IF count THEN {"active"} ELSE {})
             \cup (IF "active" \in @ THEN {"count"} ELSE {}),
    !.load = IF "soon" \in @ THEN {"now"} ELSE {}]

TimersAfter ==
  [t \in Timers |-> Piped(AfterLoad(Decreased(timer[t])), Counts(t))]

------------------------------------------------------------------------------
(* The clock *)

(* The hours come after eleven as twelve, of the other half of the day,    *)
(* and after twelve as one.                                                *)
NoonAtOne(x) ==
  IF x.h + 1 > Noon THEN [x EXCEPT !.h = 1, !.pm = ~@] ELSE [x EXCEPT !.h = @ + 1]
NextHour(x) ==
  CASE x.h + 1 < Noon -> [x EXCEPT !.h = @ + 1]
    [] x.h + 1 = Noon -> [x EXCEPT !.h = @ + 1, !.pm = ~@]
    [] x.h + 1 > Noon -> [x EXCEPT !.h = 1]

NextMinute(x) == IF x.m + 1 < Sixty THEN [x EXCEPT !.m = @ + 1]
                 ELSE NextHour([x EXCEPT !.m = 0])
NextSecond(x) == IF x.s + 1 < Sixty THEN [x EXCEPT !.s = @ + 1]
                 ELSE NextMinute([x EXCEPT !.s = 0])
NextTenth(x)  == IF x.t + 1 < Tenths THEN [x EXCEPT !.t = @ + 1]
                 ELSE NextSecond([x EXCEPT !.t = 0])

(* The alarm event is the edge of time and alarm becoming equal, looked    *)
(* for after a tenth and after a write to the tenths.                      *)
AlarmEdge(c) == c.time = c.alarm /\ ~c.prev_alarm
AlarmSeen(c) == [c EXCEPT !.prev_alarm = (c.time = c.alarm)]

PowerEdge == tod.running /\ tod.cycles >= PowerCycles
TenthDue  == PowerEdge /\ tod.ticks + 1 >= Divider[todin]

Advanced == [tod EXCEPT !.cycles = 0, !.ticks = 0, !.time = NextTenth(@)]

TodAfter ==
  CASE TenthDue                -> AlarmSeen(Advanced)
    [] PowerEdge /\ ~TenthDue  -> [tod EXCEPT !.cycles = 0, !.ticks = @ + 1]
    [] tod.running /\ ~PowerEdge -> [tod EXCEPT !.cycles = @ + 1]
    [] ~tod.running            -> tod

------------------------------------------------------------------------------
(* Interrupts *)

TimerEvents ==
  (IF Underflows(timer["A"]) THEN {"TA"} ELSE {})
  \cup (IF Underflows(timer["B"]) /\ ~icr_read THEN {"TB"} ELSE {})

EventsNow ==
  TimerEvents
  \cup (IF TenthDue /\ AlarmEdge(Advanced) THEN {"ALRM"} ELSE {})
  \cup (IF Falling("FLAG") THEN {"FLG"} ELSE {})

(* Phase 1 forgets the read again, before a timer could look at it. *)
ReadKept(read) == read
ReadRemembered(read) == FALSE

(* What is left of the cycle once the CPU's access is known: the events it *)
(* finds, the register as it leaves it, the mask it sets.                  *)
Found == icr \cup EventsNow
Ir == ir \/ Found \cap mask # {}

(* What the program must hear of, whatever the chip makes of it. *)
Happened ==
  (IF Underflows(timer["A"]) THEN {"TA"} ELSE {})
  \cup (IF Underflows(timer["B"]) THEN {"TB"} ELSE {})
  \cup (IF TenthDue /\ Advanced.time = tod.alarm THEN {"ALRM"} ELSE {})
  \cup (IF Falling("FLAG") THEN {"FLG"} ELSE {})

Inputs == pins' \in program.pins

LoadedNow(t) == Underflows(timer[t]) \/ LoadFires(timer[t])

CountsAfter ==
  [t \in Timers |-> ((IF LoadedNow(t) THEN 0 ELSE counts[t])
                      + (IF Counts(t) THEN 1 ELSE 0)) % Word]
LoadedAfter ==
  [t \in Timers |-> IF LoadedNow(t) THEN timer[t].latch ELSE loaded[t]]

Phase2 == line' = Ir

------------------------------------------------------------------------------
(* The CPU's accesses, each with what it leaves as the last phase has it *)

NoIcrAccess ==
  /\ icr' = Found /\ ir' = Ir
  /\ mask' = delayed /\ UNCHANGED delayed
  /\ icr_read' = ReadRemembered(FALSE)
  /\ owed' = owed \cup Happened

TimersKept == timer' = TimersAfter /\ counts' = CountsAfter /\ loaded' = LoadedAfter
TodKept == tod' = TodAfter /\ UNCHANGED <<noted, got>>

Cycle == Inputs /\ Phase2 /\ UNCHANGED program

Touches(reg) == reg \in program.registers

NoAccess ==
  Cycle /\ NoIcrAccess /\ TimersKept /\ TodKept /\ UNCHANGED todin

(* Reading takes the register's events, and the IR bit with them. *)
ReadIcr ==
  /\ Touches("ICR") /\ Cycle
  /\ icr' = {} /\ ir' = FALSE
  /\ mask' = delayed /\ UNCHANGED delayed
  /\ icr_read' = ReadRemembered(TRUE)
  /\ owed' = (owed \cup Happened) \ Found
  /\ TimersKept /\ TodKept /\ UNCHANGED todin

WriteIcr ==
  /\ Touches("MASK") /\ Cycle
  /\ \E set \in BOOLEAN, bits \in {{"TA", "TB"}, Events} :
       LET m == IF set THEN delayed \cup bits ELSE delayed \ bits IN
       /\ delayed' = m /\ mask' = m
       /\ ir' = (Ir \/ Found \cap m # {})
  /\ icr' = Found /\ icr_read' = ReadRemembered(FALSE)
  /\ owed' = owed \cup Happened
  /\ TimersKept /\ TodKept /\ UNCHANGED todin

Lo(t) == IF t = "A" THEN "TA_LO" ELSE "TB_LO"
Hi(t) == IF t = "A" THEN "TA_HI" ELSE "TB_HI"

WriteTimerLo ==
  /\ Cycle /\ NoIcrAccess /\ TodKept /\ UNCHANGED todin
  /\ \E t \in Timers, b \in Bytes :
       /\ Touches(Lo(t))
       /\ timer' = [TimersAfter EXCEPT
                     ![t].latch = ((@ \div Byte) * Byte) + b]
  /\ counts' = CountsAfter /\ loaded' = LoadedAfter

(* A timer that stands is loaded at once, counts in its pipeline and all. *)
WriteTimerHi ==
  /\ Cycle /\ NoIcrAccess /\ TodKept /\ UNCHANGED todin
  /\ \E t \in Timers, b \in Bytes :
       LET v == TimersAfter[t]
           latch == (b * Byte) + (v.latch % Byte)
       IN /\ Touches(Hi(t))
          /\ timer' = [TimersAfter EXCEPT
               ![t].latch = latch,
               ![t].counter = IF v.start THEN @ ELSE latch]
          /\ counts' = [CountsAfter EXCEPT
               ![t] = IF v.start THEN @ ELSE Cardinality(v.pipe)]
          /\ loaded' = [LoadedAfter EXCEPT ![t] = IF v.start THEN @ ELSE latch]

(* Control register A or B: c.high is TODIN in the one, and in the other   *)
(* whether the clock's registers are the alarm's.                          *)
WriteControl ==
  /\ Cycle /\ NoIcrAccess /\ UNCHANGED <<noted, got>>
  /\ \E t \in Timers : \E c \in IF t = "A" THEN program.cra ELSE program.crb :
       /\ timer' = [TimersAfter EXCEPT
            ![t].start = c.start, ![t].oneshot = c.oneshot, ![t].inmode = c.inmode,
            ![t].load = IF c.load THEN @ \cup {"soon"} ELSE @]
       /\ tod' = [TodAfter EXCEPT
            !.cycles = IF c.start /\ ~TimersAfter[t].start THEN 0 ELSE @,
            !.sets_alarm = IF t = "B" THEN c.high ELSE @]
       /\ todin' = IF t = "A" THEN c.high ELSE todin
  /\ counts' = CountsAfter /\ loaded' = LoadedAfter

(* Reading the hours latches the time for the registers that follow, until *)
(* the tenths are read.                                                    *)
ReadHours ==
  /\ Touches("TOD_HR") /\ Cycle /\ NoIcrAccess /\ TimersKept /\ UNCHANGED todin
  /\ LET time == IF TodAfter.latched THEN TodAfter.latch ELSE TodAfter.time IN
     /\ tod' = [TodAfter EXCEPT !.latched = TRUE, !.latch = time]
     /\ noted' = IF TodAfter.latched THEN noted ELSE TodAfter.time
     /\ got' = [noted' EXCEPT !.h = time.h, !.pm = time.pm]

TimeShown == IF TodAfter.latched THEN TodAfter.latch ELSE TodAfter.time

ReadMinutesOrSeconds ==
  /\ Touches("TOD_MIN") /\ Cycle /\ NoIcrAccess /\ TimersKept /\ UNCHANGED todin
  /\ tod' = TodAfter /\ UNCHANGED noted
  /\ \E digit \in {"m", "s"} :
       got' = IF tod.latched THEN [got EXCEPT ![digit] = TimeShown[digit]] ELSE got

ReadTenths ==
  /\ Touches("TOD_10THS") /\ Cycle /\ NoIcrAccess /\ TimersKept /\ UNCHANGED todin
  /\ tod' = [TodAfter EXCEPT !.latched = FALSE]
  /\ UNCHANGED noted
  /\ got' = IF tod.latched THEN [got EXCEPT !.t = TimeShown.t] ELSE got

(* A write changes the time or the alarm; the hours stop the clock, the    *)
(* tenths start it.  Twelve is written as its other half of the day.       *)
HourWritten(x) == IF x.h >= Noon THEN ~x.pm ELSE x.pm

WriteTime ==
  /\ Cycle /\ TimersKept /\ UNCHANGED <<todin, noted, got>>
  /\ mask' = delayed /\ UNCHANGED delayed /\ ir' = Ir
  /\ icr_read' = ReadRemembered(FALSE)
  /\ \E x \in program.times, digit \in {"h", "m", "s", "t"} :
       LET old == IF TodAfter.sets_alarm THEN TodAfter.alarm ELSE TodAfter.time
           new == IF digit = "h" THEN [old EXCEPT !.h = x.h, !.pm = HourWritten(x)]
                  ELSE [old EXCEPT ![digit] = x[digit]]
           set == IF TodAfter.sets_alarm THEN [TodAfter EXCEPT !.alarm = new]
                  ELSE [TodAfter EXCEPT
                         !.time = new,
                         !.running = CASE digit = "h" -> FALSE
                                       [] digit = "t" -> TRUE
                                       [] OTHER -> @,
                         !.ticks = IF digit = "t" THEN 0 ELSE @]
           rings == IF digit = "t" /\ AlarmEdge(set) THEN {"ALRM"} ELSE {}
       IN /\ tod' = IF digit = "t" THEN AlarmSeen(set) ELSE set
          /\ icr' = Found \cup rings
          /\ owed' = owed \cup Happened \cup rings

Reset ==
  /\ UNCHANGED program
  /\ pins' = Pins
  /\ timer' = [t \in Timers |-> StoppedTimer] /\ todin' = FALSE
  /\ icr' = {} /\ ir' = FALSE /\ mask' = {} /\ delayed' = {} /\ line' = FALSE
  /\ icr_read' = FALSE
  /\ tod' = StoppedTod
  /\ counts' = [t \in Timers |-> 0] /\ loaded' = [t \in Timers |-> Word - 1]
  /\ owed' = {} /\ noted' = Zero /\ got' = Zero

Next == \/ NoAccess \/ ReadIcr \/ WriteIcr \/ WriteTimerLo \/ WriteTimerHi
        \/ WriteControl \/ ReadHours \/ ReadMinutesOrSeconds \/ ReadTenths
        \/ WriteTime \/ Reset

Spec == Init /\ [][Next]_vars

------------------------------------------------------------------------------
TimerType ==
  [counter : 0 .. Word - 1, latch : 0 .. Word - 1, start : BOOLEAN,
   oneshot : BOOLEAN, inmode : Modes, pipe : SUBSET {"active", "count"},
   load : SUBSET {"soon", "now"}]

TodType ==
  [time : Times, alarm : Times, latch : Times, latched : BOOLEAN,
   sets_alarm : BOOLEAN, running : BOOLEAN, cycles : 0 .. PowerCycles,
   ticks : Nat, prev_alarm : BOOLEAN]

TypeOK ==
  /\ program \in Programs /\ pins \subseteq Pins
  /\ timer \in [Timers -> TimerType] /\ todin \in BOOLEAN
  /\ icr \subseteq Events /\ ir \in BOOLEAN
  /\ mask \subseteq Events /\ delayed \subseteq Events
  /\ line \in BOOLEAN /\ icr_read \in BOOLEAN
  /\ tod \in TodType /\ tod.ticks < Divider[TRUE] + Divider[FALSE]
  /\ counts \in [Timers -> 0 .. Word - 1] /\ loaded \in [Timers -> 0 .. Word - 1]
  /\ owed \subseteq Events /\ noted \in Times /\ got \in Times

(* A timer underflows on one count more than it was loaded with, modulo    *)
(* its width: however starts, stops, loads and the other timer's           *)
(* underflows meet in its pipeline, no count is lost in it and none is     *)
(* taken twice (decrease_timer, tick_phi2).  With the timers cascaded this *)
(* makes them one wide timer.                                              *)
UnderflowsByTheLatch ==
  [][~Reset => \A t \in Timers :
       Underflows(timer[t]) => counts[t] = (loaded[t] + 1) % Word]_vars

(* Every underflow, every falling edge of FLAG and every arrival of the    *)
(* clock at the alarm is in the data register until a read reports it, the *)
(* read that falls into its own cycle included; and nothing else is in     *)
(* there.  One that the mask lets through holds the interrupt line, from   *)
(* the next cycle on at the latest (registers_read, decrease_timer,        *)
(* check_alarm_interrupt, check_interrupt_mask).                           *)
EventsAreReported ==
  /\ [](icr = owed)
  /\ [][owed \cap mask # {} /\ ~Reset => line']_vars

(* The clock goes through the tenths of a day one by one, midnight and     *)
(* noon as twelve o'clock, unless the program sets it; and what is read    *)
(* from the hours down to the tenths is one instant, whatever carries in   *)
(* between (increase_tod_and_check_alarm, latch_read_tod_hr).              *)
Hour24(x)  == (x.h % Noon) + IF x.pm THEN Noon ELSE 0
Instant(x) == ((Hour24(x) * Sixty + x.m) * Sixty + x.s) * Tenths + x.t
Day == 2 * Noon * Sixty * Sixty * Tenths

ClockIsRight ==
  /\ [](got = noted)
  /\ [][tod'.time # tod.time /\ ~WriteTime /\ ~Reset =>
         Instant(tod'.time) = (Instant(tod.time) + 1) % Day]_vars
==============================================================================
