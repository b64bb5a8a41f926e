-------------------------- MODULE AudioThreadProofs --------------------------
(***************************************************************************)
(* Theorems about AudioThread, for a command queue of any capacity with    *)
(* indices of any width, and for any ratio of machine cycles to chip ticks.*)
(***************************************************************************)
EXTENDS AudioThread, TLAPS

-----------------------------------------------------------------------------
(* Quotients and remainders *)

LEMMA Scale ==
  ASSUME NEW n \in Nat, NEW a \in Int, NEW b \in Int, a <= b
  PROVE  a * n <= b * n
OBVIOUS

LEMMA DivMod ==
  ASSUME NEW n \in Nat \ {0}, NEW a \in Int
  PROVE  /\ a % n \in 0 .. n - 1 /\ a \div n \in Int
         /\ a = (a \div n) * n + (a % n)
OBVIOUS

\* Quotient and remainder are unique.
LEMMA ModUnique ==
  ASSUME NEW n \in Nat \ {0}, NEW a \in Int, NEW q \in Int, NEW s \in 0 .. n - 1,
         a = q * n + s
  PROVE  a % n = s
<1> DEFINE p == a \div n
           x == a % n
           c == p - q
<1>1. p \in Int /\ x \in 0 .. n - 1 /\ a = p * n + x
  BY DivMod
<1> HIDE DEF p, x
<1>2. c \in Int /\ c * n = s - x
  <2>1. c * n = p * n - q * n /\ p * n \in Int /\ q * n \in Int
    BY <1>1
  <2> QED BY <1>1, <2>1
<1> HIDE DEF c
<1>3. (c >= 1 => 1 * n <= c * n) /\ (c <= -1 => c * n <= (-1) * n)
  BY <1>2, Scale
<1>4. c = 0
  BY <1>1, <1>2, <1>3
<1> QED BY <1>1, <1>2, <1>4 DEF x

\* Numbers that differ by a multiple have the same remainder.
LEMMA SameRemainder ==
  ASSUME NEW n \in Nat \ {0}, NEW a \in Int, NEW k \in Int
  PROVE  (a + k * n) % n = a % n
<1> DEFINE p == a \div n
           b == a + k * n
           x == a % n
<1>1. p \in Int /\ x \in 0 .. n - 1 /\ a = p * n + x
  BY DivMod
<1> HIDE DEF p, x
<1>2. b = (p + k) * n + x /\ b \in Int /\ p + k \in Int
  <2>1. (p + k) * n = p * n + k * n /\ p * n \in Int /\ k * n \in Int
    BY <1>1
  <2> QED BY <1>1, <2>1
<1> HIDE DEF b
<1>3. b % n = x
  BY <1>1, <1>2, ModUnique
<1> QED BY <1>3 DEF b, x

\* Reducing an index early makes no difference to where it goes on from.
LEMMA ModAdd ==
  ASSUME NEW n \in Nat \ {0}, NEW a \in Int, NEW k \in Int
  PROVE  ((a % n) + k) % n = (a + k) % n
<1> DEFINE p == a \div n
           x == a % n
           y == x + k
<1>1. p \in Int /\ x \in Int /\ y \in Int /\ a + k = y + p * n
  BY DivMod
<1> HIDE DEF p, y
<1>2. (y + p * n) % n = y % n
  BY <1>1, SameRemainder
<1> QED BY <1>1, <1>2 DEF y

\* Numbers less than n apart have different remainders.
LEMMA ModApart ==
  ASSUME NEW n \in Nat \ {0}, NEW a \in Nat, NEW b \in Nat, b < a, a - b < n
  PROVE  a % n # b % n
<1> SUFFICES ASSUME a % n = b % n PROVE FALSE
  OBVIOUS
<1> DEFINE p == a \div n
           q == b \div n
           x == a % n
           y == b % n
           c == p - q
<1>0. /\ p \in Int /\ q \in Int /\ x \in Int /\ y = x
      /\ a = p * n + x /\ b = q * n + y
  BY DivMod
<1> HIDE DEF p, q, x, y
<1>1. c \in Int /\ c * n = a - b
  <2>1. c * n = p * n - q * n /\ p * n \in Int /\ q * n \in Int /\ c \in Int
    BY <1>0
  <2> HIDE DEF c
  <2> QED BY <1>0, <2>1
<1> HIDE DEF c
<1>2. (c >= 1 => 1 * n <= c * n) /\ (c <= 0 => c * n <= 0 * n)
  BY <1>1, Scale
<1> QED BY <1>1, <1>2

\* A slot can be computed from an index of any width that is a multiple of the slots.
LEMMA ModMultiple ==
  ASSUME NEW n \in Nat \ {0}, NEW k \in Nat \ {0}, NEW a \in Nat
  PROVE  (a % (k * n)) % n = a % n
<1> DEFINE W == k * n
           p == a \div W
           x == a % W
<1>1. p \in Int /\ x \in Int /\ a = p * W + x
  <2>1. W \in Nat \ {0}
    OBVIOUS
  <2> HIDE DEF W
  <2> QED BY <2>1, DivMod
<1> HIDE DEF p, x
<1>2. a = x + (p * k) * n /\ p * k \in Int
  BY <1>1
<1>3. (x + (p * k) * n) % n = x % n
  BY <1>1, <1>2, SameRemainder
<1> QED BY <1>2, <1>3 DEF x

\* The distance of two free-running indices, computed from their reduced values.
LEMMA ModDifference ==
  ASSUME NEW n \in Nat \ {0}, NEW a \in Nat, NEW b \in 0 .. a, a - b < n
  PROVE  ((a % n) - (b % n)) % n = a - b
<1> DEFINE p == a \div n
           q == b \div n
           x == a % n
           y == b % n
<1>1. p \in Int /\ q \in Int /\ x \in Int /\ y \in Int /\ a = p * n + x /\ b = q * n + y
  BY DivMod
<1> HIDE DEF p, q, x, y
<1>2. x - y = (q - p) * n + (a - b)
  <2>1. (q - p) * n = q * n - p * n /\ p * n \in Int /\ q * n \in Int
    BY <1>1
  <2> QED BY <1>1, <2>1
<1> DEFINE d == x - y
<1>3. d \in Int /\ d = (q - p) * n + (a - b) /\ q - p \in Int /\ a - b \in 0 .. n - 1
  BY <1>1, <1>2
<1> HIDE DEF d
<1>4. d % n = a - b
  BY <1>3, ModUnique
<1> QED BY <1>4 DEF d, x, y

-----------------------------------------------------------------------------
(* The inductive invariant *)

Accepted == Len(stamps)
Filled   == IF emu = "publish" THEN 1 ELSE 0

\* Commands accepted before the last signal_progress.
Signalled == Accepted - (frame_writes - Filled)

Draining   == {"drain", "apply", "store"}
Processing == {"drain", "apply", "store", "finish"}

\* The bounds of a behaviour, and what the counters of the history count.
CountInv ==
  /\ Accepted + lost + Filled <= MaxWrites
  /\ frame_writes - Filled \in 0 .. Accepted
  /\ emu = "start" => Accepted = 0

\* The flag is down from stop()'s store to the next start, and the thread is
\* gone between the join and that start.
ThreadInv ==
  /\ running <=> emu \in {"run", "publish", "notify"}
  /\ audio = "exited" => ~running
  /\ emu \in {"stopped", "start", "off"} => audio = "exited"

\* Time only goes on: nothing is signalled, processed or synthesised ahead of it.
TimeInv ==
  /\ emu # "start" => target_cycle <= total_cycles
  /\ audio # "exited" => last_processed <= target_cycle
  /\ audio \in Processing => my_target <= target_cycle
  /\ current_cycle = Len(heard) * Div /\ current_cycle <= total_cycles

\* The stamps of the accepted commands, in the order they were accepted.
StampInv ==
  /\ \A i \in 1 .. Accepted : stamps[i] <= total_cycles
  /\ \A i, j \in 1 .. Accepted : i <= j => stamps[i] <= stamps[j]
  /\ \A i \in 1 .. Signalled : stamps[i] <= target_cycle

\* The indices count the commands modulo their width: those accepted, those the
\* producer has been told are taken, those applied, and the end of the batch.
IndexInv ==
  /\ write = Accepted % Word
  /\ applied <= Accepted
  /\ \E taken \in 0 .. applied :
       /\ read = taken % Word
       /\ Accepted + Filled - taken <= Cap - 1
       /\ audio \notin Draining => taken = applied
       /\ (audio # "exited" /\ target_cycle <= last_processed) => Signalled <= taken
  /\ audio \in Draining =>
       /\ r = applied % Word
       /\ \E upto \in applied .. Accepted :
            /\ w = upto % Word
            /\ audio = "apply" => applied < upto
            /\ \A i \in upto + 1 .. Accepted : stamps[i] >= my_target
            /\ my_target = target_cycle => Signalled <= upto

\* A command stays in its slot until it has been applied.
SlotInv ==
  /\ \A i \in applied .. Accepted - 1 :
       buf[i % Cap] = [cycle |-> stamps[i + 1], id |-> i + 1]
  /\ emu = "publish" => buf[Accepted % Cap] = [cycle |-> total_cycles, id |-> Accepted + 1]

\* What has been applied was due, and what was due up to the target is applied
\* when the rest of the ticks up to it are made.
SynthInv ==
  /\ \A i \in 1 .. applied : stamps[i] < current_cycle + Div
  /\ audio = "apply" => stamps[applied + 1] <= my_target
  /\ audio \in {"store", "finish"} =>
       /\ \A i \in applied + 1 .. Accepted : stamps[i] >= my_target
       /\ my_target = target_cycle => Signalled <= applied
  /\ HeardOnTime

Inv == /\ TypeOK /\ CountInv /\ ThreadInv /\ TimeInv /\ StampInv
       /\ IndexInv /\ SlotInv /\ SynthInv

-----------------------------------------------------------------------------
(* The constants, the indices and the slots *)

LEMMA Sizes ==
  /\ Word \in Nat \ {0} /\ Cap \in Nat \ {0} /\ Cap >= 2 /\ Cap <= Word
  /\ \E k \in Nat \ {0} : Word = k * Cap
<1>1. PICK k \in 1 .. Word : Word = k * Cap
  BY ConstantsAssumption
<1>2. Word \in Int /\ k \in Nat \ {0}
  BY <1>1, ConstantsAssumption
<1>3. Cap <= k * Cap /\ k * Cap \in Nat
  BY <1>2, ConstantsAssumption
<1> QED BY <1>1, <1>2, <1>3, ConstantsAssumption

LEMMA IndexRange == \A a \in Nat : a % Word \in Index
BY Sizes DEF Index

LEMMA NextIndexIs ==
  ASSUME NEW a \in Nat
  PROVE  NextIndex(a % Word) = (a + 1) % Word
<1>1. Word \in Nat \ {0} /\ a \in Int /\ 1 \in Int
  BY Sizes
<1>2. ((a % Word) + 1) % Word = (a + 1) % Word
  BY <1>1, ModAdd, Zenon
<1> QED BY <1>2 DEF NextIndex

\* The queue's slot of a command is that of its number.
LEMMA SlotIs ==
  ASSUME NEW a \in Nat
  PROVE  (a % Word) % Cap = a % Cap /\ a % Cap \in 0 .. Cap - 1
<1>1. PICK k \in Nat \ {0} : Word = k * Cap
  BY Sizes
<1>2. (a % (k * Cap)) % Cap = a % Cap
  BY Sizes, ModMultiple
<1> QED BY <1>1, <1>2, Sizes

\* size() as either thread computes it is the number of commands between.
LEMMA SizeIs ==
  ASSUME NEW a \in Nat, NEW b \in 0 .. a, a - b < Cap
  PROVE  SizeFrom(a % Word, b % Word) = a - b
<1>1. a - b < Word
  BY Sizes
<1> QED BY <1>1, Sizes, ModDifference DEF SizeFrom

LEMMA CountsAreNat ==
  ASSUME TypeOK
  PROVE  /\ Accepted \in Nat /\ Accepted <= MaxWrites /\ MaxWrites \in Nat
         /\ Filled \in {0, 1} /\ Signalled \in Int
         /\ applied \in Nat /\ MaxCycle \in Nat /\ Div \in Nat \ {0}
BY ConstantsAssumption DEF TypeOK, Accepted, Filled, Signalled

\* The oldest command of the batch is at the front of the queue.
LEMMA FrontIs ==
  ASSUME Inv, audio \in {"drain", "apply"}, applied < Accepted
  PROVE  Front = [cycle |-> stamps[applied + 1], id |-> applied + 1]
<1>1. r = applied % Word
  BY DEF Inv, IndexInv, Draining
<1>2. Front = buf[applied % Cap]
  BY <1>1, CountsAreNat, SlotIs DEF Inv, Front
<1>3. applied \in applied .. Accepted - 1
  BY CountsAreNat DEF Inv
<1> QED BY <1>2, <1>3 DEF Inv, SlotInv

LEMMA StampRange ==
  ASSUME TypeOK
  PROVE  \A i \in 1 .. Accepted : stamps[i] \in Cycle
BY DEF TypeOK, Accepted

\* One step of the loop that takes a batch: there is a command to apply.
LEMMA BatchGoesOn ==
  ASSUME Inv, audio = "apply"
  PROVE  applied < Accepted
BY CountsAreNat DEF Inv, IndexInv, Draining

\* The command at the front, when it is to be applied.
CommandDue ==
  /\ applied + 1 \in 1 .. Accepted
  /\ Front.cycle = stamps[applied + 1] /\ Front.id = applied + 1
  /\ Front.cycle \in Cycle /\ Front.cycle <= total_cycles

LEMMA ApplyIsDue ==
  ASSUME Inv, audio = "apply"
  PROVE  CommandDue
<1>1. applied < Accepted /\ applied + 1 \in 1 .. Accepted
  BY BatchGoesOn, CountsAreNat DEF Inv
<1>2. Front.cycle = stamps[applied + 1] /\ Front.id = applied + 1
  BY <1>1, FrontIs
<1> QED BY <1>1, <1>2, StampRange DEF Inv, StampInv, CommandDue

-----------------------------------------------------------------------------
(* The invariant holds *)

LEMMA InitInv == Init => Inv
<1> SUFFICES ASSUME Init PROVE Inv
  OBVIOUS
<1>1. stamps = <<>> /\ heard = <<>> /\ Len(stamps) = 0 /\ Len(heard) = 0
        /\ Accepted = 0 /\ Filled = 0 /\ Signalled = 0 /\ applied = 0
  BY DEF Init, Accepted, Filled, Signalled
<1>2. 0 \in Cycle /\ 0 \in Index /\ 0 \in 0 .. MaxWrites /\ 0 \in 0 .. MaxResets
  BY Sizes, ConstantsAssumption DEF Cycle, Index
<1>3. TypeOK
  <2>1. buf \in [0 .. Cap - 1 -> Command]
    BY <1>2 DEF Init, Command
  <2>2. stamps \in Seq(Cycle) /\ heard \in Seq(0 .. MaxWrites)
    BY <1>1
  <2>3. running \in BOOLEAN
    BY DEF Init
  <2> QED BY <1>1, <1>2, <2>1, <2>2, <2>3, ConstantsAssumption DEF Init, TypeOK
<1>4. CountInv /\ ThreadInv
  BY <1>1, <1>2 DEF Init, CountInv, ThreadInv
<1>5. TimeInv /\ StampInv /\ SlotInv
  BY <1>1, ConstantsAssumption DEF Init, TimeInv, StampInv, SlotInv, Processing
<1>6. IndexInv
  <2>1. 0 % Word = 0
    BY Sizes
  <2> QED BY <1>1, <2>1, Sizes DEF Init, IndexInv, Draining
<1>7. SynthInv
  BY <1>1 DEF Init, SynthInv, HeardOnTime
<1> QED BY <1>3, <1>4, <1>5, <1>6, <1>7 DEF Inv

LEMMA NextType ==
  ASSUME Inv, [Next]_vars
  PROVE  TypeOK'
<1> USE CountsAreNat, ConstantsAssumption DEF Inv, TypeOK, emuVars, queueVars, threadVars,
     localVars, chipVars, ghostVars
<1>c. 0 \in Cycle /\ 0 \in Index
  BY Sizes DEF Cycle, Index
<1>1. CASE EmuTick
  BY <1>1 DEF EmuTick, Cycle
<1>2. CASE PushDropped
  BY <1>2 DEF PushDropped, CountInv, Accepted
<1>3. CASE PushFill
  <2>1. write % Cap \in 0 .. Cap - 1
    BY Sizes DEF Index
  <2>2. [cycle |-> total_cycles, id |-> Len(stamps) + 1] \in Command
    BY <1>3 DEF PushFill, Command, Accepted
  <2>3. buf' \in [0 .. Cap - 1 -> Command]
    BY <1>3, <2>1, <2>2 DEF PushFill
  <2>4. frame_writes + 1 <= MaxWrites
    BY <1>3 DEF PushFill, CountInv, Filled, Accepted
  <2> QED BY <1>3, <2>3, <2>4 DEF PushFill
<1>4. CASE PushPublish
  <2>1. write' \in Index
    BY <1>4, Sizes DEF PushPublish, NextIndex, Index
  <2>2. stamps' \in Seq(Cycle) /\ Len(stamps') = Len(stamps) + 1
    BY <1>4 DEF PushPublish
  <2>3. Len(stamps) + 1 <= MaxWrites
    BY <1>4 DEF PushPublish, CountInv, Accepted, Filled
  <2> QED BY <1>4, <2>1, <2>2, <2>3 DEF PushPublish
<1>5. CASE SignalStore
  BY <1>5 DEF SignalStore
<1>6. CASE SignalNotify
  BY <1>6 DEF SignalNotify, Notify
<1>7. CASE StopStore
  <2>1. running' \in BOOLEAN
    BY <1>7 DEF StopStore
  <2> QED BY <1>7, <2>1 DEF StopStore
<1>8. CASE StopNotify
  BY <1>8 DEF StopNotify, Notify
<1>9. CASE StopJoin
  BY <1>9 DEF StopJoin, Joined
<1>10. CASE ResetEngine
  <2>1. total_cycles' \in Cycle
    BY <1>10, <1>c DEF ResetEngine
  <2> QED BY <1>10, <1>c, <2>1 DEF ResetEngine
<1>11. CASE Start
  <2>1. running' \in BOOLEAN
    BY <1>11 DEF Start
  <2> QED BY <1>11, <1>c, <2>1 DEF Start, StartTarget
<1>12. CASE AudioLoop
  BY <1>12 DEF AudioLoop
<1>13. CASE AudioCheck
  BY <1>13 DEF AudioCheck
<1>14. CASE AudioBlock
  BY <1>14 DEF AudioBlock
<1>15. CASE AudioTimeout
  BY <1>15 DEF AudioTimeout
<1>16. CASE AudioSpuriousWake
  BY <1>16 DEF AudioSpuriousWake
<1>17. CASE AudioTest
  BY <1>17 DEF AudioTest
<1>18. CASE AudioDrain
  BY <1>18 DEF AudioDrain
<1>19. CASE AudioAdvanceToCommand
  <2>0. Front.cycle \in Cycle
    BY <1>19, ApplyIsDue DEF AudioAdvanceToCommand, CommandDue
  <2>1. current_cycle' \in Cycle
    BY <1>19, <2>0 DEF AudioAdvanceToCommand, ChipTick, Behind, Cycle
  <2>2. heard' \in Seq(0 .. MaxWrites)
    BY <1>19 DEF AudioAdvanceToCommand, ChipTick
  <2> QED BY <1>19, <2>1, <2>2 DEF AudioAdvanceToCommand, ChipTick
<1>20. CASE AudioApply
  <2>1. applied' = applied + 1 /\ applied' <= Accepted
    BY <1>20, ApplyIsDue DEF AudioApply, CommandDue
  <2>2. r' \in Index
    BY <1>20, Sizes DEF AudioApply, NextIndex, Index
  <2> QED BY <1>20, <2>1, <2>2 DEF AudioApply
<1>21. CASE AudioStoreRead
  BY <1>21 DEF AudioStoreRead, DrainedIndex
<1>22. CASE AudioAdvanceToTarget
  <2>1. current_cycle' \in Cycle
    BY <1>22 DEF AudioAdvanceToTarget, ChipTick, Behind, Cycle
  <2>2. heard' \in Seq(0 .. MaxWrites)
    BY <1>22 DEF AudioAdvanceToTarget, ChipTick
  <2> QED BY <1>22, <2>1, <2>2 DEF AudioAdvanceToTarget, ChipTick
<1>23. CASE AudioProcessed
  BY <1>23 DEF AudioProcessed
<1>24. CASE UNCHANGED vars
  BY <1>24 DEF vars
<1> QED BY <1>1, <1>2, <1>3, <1>4, <1>5, <1>6, <1>7, <1>8, <1>9, <1>10, <1>11, <1>12,
   <1>13, <1>14, <1>15, <1>16, <1>17, <1>18, <1>19, <1>20, <1>21, <1>22, <1>23, <1>24 DEF
   Next, EmuStep, EmuCall, AudioStep

\* What a step does to the commands that have been accepted.
Grows == stamps' = Append(stamps, total_cycles)

LEMMA GrowsTo ==
  ASSUME TypeOK, Grows
  PROVE  /\ Accepted' = Accepted + 1
         /\ \A i \in 1 .. Accepted : stamps'[i] = stamps[i]
         /\ stamps'[Accepted + 1] = total_cycles
BY DEF TypeOK, Grows, Accepted

\* What a step leaves alone that does not touch the history of the queue.
LEMMA CountsStay ==
  ASSUME UNCHANGED <<stamps, frame_writes>>, (emu' = "publish") <=> (emu = "publish")
  PROVE  /\ Accepted' = Accepted /\ Filled' = Filled /\ Signalled' = Signalled
BY DEF Accepted, Filled, Signalled

LEMMA CountersOf ==
  ASSUME Inv
  PROVE  /\ Accepted \in Nat /\ Filled \in {0, 1} /\ applied \in Nat
         /\ Signalled \in Int /\ Signalled <= Accepted
         /\ MaxCycle \in Nat /\ total_cycles \in Int /\ target_cycle \in Int
         /\ last_processed \in Int /\ my_target \in Int /\ current_cycle \in Int
<1>1. TypeOK /\ CountInv
  BY DEF Inv
<1>2. /\ Accepted \in Nat /\ Filled \in {0, 1} /\ applied \in Nat /\ Signalled \in Int
      /\ MaxCycle \in Nat
  BY <1>1, CountsAreNat
<1>3. frame_writes - Filled >= 0 /\ frame_writes \in Int
  BY <1>1, <1>2 DEF CountInv, TypeOK
<1>4. Signalled <= Accepted
  BY <1>2, <1>3 DEF Signalled
<1> QED BY <1>1, <1>2, <1>4 DEF TypeOK, Cycle

LEMMA CountsAtFill ==
  ASSUME TypeOK, PushFill
  PROVE  /\ Accepted' = Accepted /\ Filled = 0 /\ Filled' = 1 /\ Signalled' = Signalled
BY CountsAreNat DEF TypeOK, PushFill, Accepted, Filled, Signalled

LEMMA CountsAtPublish ==
  ASSUME TypeOK, PushPublish
  PROVE  /\ Accepted' = Accepted + 1 /\ Filled = 1 /\ Filled' = 0 /\ Signalled' = Signalled
         /\ Grows
<1>1. Grows /\ frame_writes' = frame_writes /\ emu = "publish" /\ emu' = "run"
  BY DEF PushPublish, Grows
<1>2. Accepted' = Accepted + 1
  BY <1>1, GrowsTo
<1>3. Filled = 1 /\ Filled' = 0
  BY <1>1 DEF Filled
<1>4. frame_writes \in Int /\ Accepted \in Int
  BY CountsAreNat DEF TypeOK
<1> QED BY <1>1, <1>2, <1>3, <1>4 DEF Signalled

LEMMA CountsAtSignal ==
  ASSUME TypeOK, SignalStore
  PROVE  /\ Accepted' = Accepted /\ Filled = 0 /\ Filled' = 0 /\ Signalled' = Accepted
<1>1. Accepted' = Accepted /\ Filled = 0 /\ Filled' = 0 /\ frame_writes' = 0
  BY DEF SignalStore, Accepted, Filled
<1> QED BY <1>1, CountsAreNat DEF Signalled

LEMMA CountsAtReset ==
  ASSUME ResetEngine
  PROVE  /\ Accepted' = 0 /\ Filled' = 0 /\ Signalled' = 0 /\ frame_writes' = 0
<1>1. Accepted' = 0 /\ Filled' = 0 /\ frame_writes' = 0
  BY DEF ResetEngine, Accepted, Filled
<1> QED BY <1>1 DEF Signalled

LEMMA NextCount ==
  ASSUME Inv, [Next]_vars
  PROVE  CountInv'
<1> USE CountsAreNat DEF Inv, TypeOK, CountInv, emuVars, queueVars, threadVars,
     localVars, chipVars, ghostVars
<1>1. CASE EmuTick
  BY <1>1, CountsStay DEF EmuTick
<1>2. CASE PushDropped
  BY <1>2, CountsStay DEF PushDropped, Accepted, Filled
<1>3. CASE PushFill
  <2>1. /\ Accepted' = Accepted /\ Filled = 0 /\ Filled' = 1 /\ emu' = "publish"
        /\ Len(stamps) + lost < MaxWrites /\ frame_writes' = frame_writes + 1 /\ lost' = lost
    BY <1>3, CountsAtFill DEF PushFill
  <2>2. /\ Accepted \in Nat /\ lost \in Nat /\ MaxWrites \in Nat /\ Accepted = Len(stamps)
        /\ frame_writes \in Int /\ frame_writes - Filled \in 0 .. Accepted
    BY <2>1, ConstantsAssumption DEF Accepted
  <2>3. /\ Accepted' + lost' + Filled' <= MaxWrites
        /\ frame_writes' - Filled' \in 0 .. Accepted'
    <3> HIDE DEF Inv, TypeOK, CountInv
    <3> QED BY <2>1, <2>2
  <2>4. emu' # "start"
    BY <2>1
  <2> QED BY <2>3, <2>4 DEF CountInv
<1>4. CASE PushPublish
  <2>1. /\ Accepted' = Accepted + 1 /\ Filled = 1 /\ Filled' = 0 /\ emu' = "run"
        /\ UNCHANGED <<frame_writes, lost>>
    BY <1>4, CountsAtPublish DEF PushPublish
  <2>2. /\ Accepted \in Nat /\ lost \in Nat /\ MaxWrites \in Nat
        /\ Accepted + lost + Filled <= MaxWrites
        /\ frame_writes \in Int /\ frame_writes - Filled \in 0 .. Accepted
    BY ConstantsAssumption
  <2>3. /\ Accepted' + lost' + Filled' <= MaxWrites
        /\ frame_writes' - Filled' \in 0 .. Accepted'
    <3> HIDE DEF Inv, TypeOK, CountInv
    <3> QED BY <2>1, <2>2
  <2>4. emu' # "start"
    BY <2>1
  <2> QED BY <2>3, <2>4 DEF CountInv
<1>5. CASE SignalStore
  BY <1>5, CountsAtSignal DEF SignalStore
<1>6. CASE SignalNotify
  BY <1>6, CountsStay DEF SignalNotify, Notify
<1>7. CASE StopStore
  BY <1>7, CountsStay DEF StopStore
<1>8. CASE StopNotify
  BY <1>8, CountsStay DEF StopNotify, Notify
<1>9. CASE StopJoin
  BY <1>9, CountsStay DEF StopJoin, Joined
<1>10. CASE ResetEngine
  BY <1>10, CountsAtReset, ConstantsAssumption DEF ResetEngine
<1>11. CASE Start
  BY <1>11, CountsStay DEF Start, StartTarget
<1>12. CASE AudioLoop
  BY <1>12, CountsStay DEF AudioLoop
<1>13. CASE AudioCheck
  BY <1>13, CountsStay DEF AudioCheck
<1>14. CASE AudioBlock
  BY <1>14, CountsStay DEF AudioBlock
<1>15. CASE AudioTimeout
  BY <1>15, CountsStay DEF AudioTimeout, TimesOut
<1>16. CASE AudioSpuriousWake
  BY <1>16, CountsStay DEF AudioSpuriousWake
<1>17. CASE AudioTest
  BY <1>17, CountsStay DEF AudioTest
<1>18. CASE AudioDrain
  BY <1>18, CountsStay DEF AudioDrain
<1>19. CASE AudioAdvanceToCommand
  BY <1>19, CountsStay DEF AudioAdvanceToCommand
<1>20. CASE AudioApply
  BY <1>20, CountsStay DEF AudioApply
<1>21. CASE AudioStoreRead
  BY <1>21, CountsStay DEF AudioStoreRead
<1>22. CASE AudioAdvanceToTarget
  BY <1>22, CountsStay DEF AudioAdvanceToTarget
<1>23. CASE AudioProcessed
  BY <1>23, CountsStay DEF AudioProcessed
<1>24. CASE UNCHANGED vars
  BY <1>24, CountsStay DEF vars
<1> QED BY <1>1, <1>2, <1>3, <1>4, <1>5, <1>6, <1>7, <1>8, <1>9, <1>10, <1>11, <1>12,
   <1>13, <1>14, <1>15, <1>16, <1>17, <1>18, <1>19, <1>20, <1>21, <1>22, <1>23, <1>24 DEF
   Next, EmuStep, EmuCall, AudioStep

LEMMA NextThread ==
  ASSUME Inv, [Next]_vars
  PROVE  ThreadInv'
<1> USE DEF Inv, TypeOK, ThreadInv, emuVars, queueVars, threadVars,
     localVars, chipVars, ghostVars
<1>1. CASE EmuTick
  BY <1>1 DEF EmuTick
<1>2. CASE PushDropped
  BY <1>2 DEF PushDropped
<1>3. CASE PushFill
  BY <1>3 DEF PushFill
<1>4. CASE PushPublish
  BY <1>4 DEF PushPublish
<1>5. CASE SignalStore
  BY <1>5 DEF SignalStore
<1>6. CASE SignalNotify
  BY <1>6 DEF SignalNotify, Notify
<1>7. CASE StopStore
  BY <1>7 DEF StopStore
<1>8. CASE StopNotify
  BY <1>8 DEF StopNotify, Notify
<1>9. CASE StopJoin
  BY <1>9 DEF StopJoin, Joined
<1>10. CASE ResetEngine
  BY <1>10 DEF ResetEngine
<1>11. CASE Start
  BY <1>11 DEF Start, StartTarget
<1>12. CASE AudioLoop
  BY <1>12 DEF AudioLoop
<1>13. CASE AudioCheck
  BY <1>13 DEF AudioCheck
<1>14. CASE AudioBlock
  BY <1>14 DEF AudioBlock
<1>15. CASE AudioTimeout
  BY <1>15 DEF AudioTimeout, TimesOut
<1>16. CASE AudioSpuriousWake
  BY <1>16 DEF AudioSpuriousWake
<1>17. CASE AudioTest
  BY <1>17 DEF AudioTest
<1>18. CASE AudioDrain
  BY <1>18 DEF AudioDrain
<1>19. CASE AudioAdvanceToCommand
  BY <1>19 DEF AudioAdvanceToCommand
<1>20. CASE AudioApply
  BY <1>20 DEF AudioApply
<1>21. CASE AudioStoreRead
  BY <1>21 DEF AudioStoreRead
<1>22. CASE AudioAdvanceToTarget
  BY <1>22 DEF AudioAdvanceToTarget
<1>23. CASE AudioProcessed
  BY <1>23 DEF AudioProcessed
<1>24. CASE UNCHANGED vars
  BY <1>24 DEF vars
<1> QED BY <1>1, <1>2, <1>3, <1>4, <1>5, <1>6, <1>7, <1>8, <1>9, <1>10, <1>11, <1>12,
   <1>13, <1>14, <1>15, <1>16, <1>17, <1>18, <1>19, <1>20, <1>21, <1>22, <1>23, <1>24 DEF
   Next, EmuStep, EmuCall, AudioStep

\* A tick of the chip ends where the machine has been.
LEMMA TickTakesTime ==
  ASSUME TypeOK, current_cycle = Len(heard) * Div, ChipTick
  PROVE  current_cycle' = Len(heard') * Div /\ Len(heard') = Len(heard) + 1
           /\ current_cycle' = current_cycle + Div
<1> DEFINE n == Len(heard)
<1>1. n \in Nat /\ Len(heard') = n + 1 /\ Div \in Nat
  BY ConstantsAssumption DEF TypeOK, ChipTick
<1>2. (n + 1) * Div = n * Div + Div
  BY <1>1
<1> QED BY <1>1, <1>2 DEF ChipTick

LEMMA NextTime ==
  ASSUME Inv, [Next]_vars
  PROVE  TimeInv'
<1>d. audio = "apply" => Front.cycle \in Cycle /\ Front.cycle <= total_cycles
  BY ApplyIsDue DEF CommandDue
<1> USE CountsAreNat DEF Inv, TypeOK, ThreadInv, TimeInv, Processing, Cycle, emuVars, queueVars, threadVars,
     localVars, chipVars, ghostVars
<1>1. CASE EmuTick
  BY <1>1 DEF EmuTick
<1>2. CASE PushDropped
  BY <1>2 DEF PushDropped
<1>3. CASE PushFill
  BY <1>3 DEF PushFill
<1>4. CASE PushPublish
  BY <1>4 DEF PushPublish
<1>5. CASE SignalStore
  <2>1. /\ target_cycle < total_cycles /\ target_cycle' = total_cycles /\ emu # "start"
        /\ UNCHANGED <<total_cycles, last_processed, my_target, audio, current_cycle, heard>>
    BY <1>5 DEF SignalStore
  <2>2. last_processed' <= target_cycle' \/ audio' = "exited"
    BY <2>1
  <2>3. audio' \in Processing => my_target' <= target_cycle'
    BY <2>1
  <2> QED BY <2>1, <2>2, <2>3
<1>6. CASE SignalNotify
  BY <1>6 DEF SignalNotify, Notify
<1>7. CASE StopStore
  BY <1>7 DEF StopStore
<1>8. CASE StopNotify
  BY <1>8 DEF StopNotify, Notify
<1>9. CASE StopJoin
  BY <1>9 DEF StopJoin, Joined
<1>10. CASE ResetEngine
  <2>1. current_cycle' = 0 /\ heard' = <<>> /\ 0 * Div = 0 /\ total_cycles' >= 0
    BY <1>10, ConstantsAssumption DEF ResetEngine
  <2> QED BY <1>10, <2>1 DEF ResetEngine
<1>11. CASE Start
  BY <1>11 DEF Start, StartTarget
<1>12. CASE AudioLoop
  BY <1>12 DEF AudioLoop
<1>13. CASE AudioCheck
  BY <1>13 DEF AudioCheck
<1>14. CASE AudioBlock
  BY <1>14 DEF AudioBlock
<1>15. CASE AudioTimeout
  BY <1>15 DEF AudioTimeout, TimesOut
<1>16. CASE AudioSpuriousWake
  BY <1>16 DEF AudioSpuriousWake
<1>17. CASE AudioTest
  <2>1. my_target' \in {my_target, target_cycle} /\ (audio' = "drain" => my_target' = target_cycle)
    BY <1>17 DEF AudioTest
  <2>2. audio = "test" /\ audio' \in {"exited", "loop", "drain"}
    BY <1>17 DEF AudioTest
  <2>3. UNCHANGED <<emuVars, queueVars, threadVars, chipVars, ghostVars>>
    BY <1>17 DEF AudioTest
  <2> QED BY <2>1, <2>2, <2>3
<1>18. CASE AudioDrain
  BY <1>18 DEF AudioDrain
<1>19. CASE AudioAdvanceToCommand
  <2>1. current_cycle' = Len(heard') * Div /\ current_cycle' = current_cycle + Div
    BY <1>19, TickTakesTime DEF AudioAdvanceToCommand
  <2>2. /\ my_target' = my_target /\ target_cycle' = target_cycle
        /\ UNCHANGED <<emu, total_cycles, last_processed>>
        /\ audio = "apply" /\ audio' = "apply"
    BY <1>19 DEF AudioAdvanceToCommand
  <2>3. current_cycle + Div <= total_cycles
    <3>1. Front.cycle \in Cycle /\ Front.cycle <= total_cycles
      BY <1>d, <2>2
    <3>2. current_cycle + Div <= Front.cycle
      BY <1>19 DEF AudioAdvanceToCommand, Behind
    <3>3. current_cycle + Div \in Int /\ total_cycles \in Int
      BY CountersOf, ConstantsAssumption
    <3> HIDE DEF Inv, TypeOK, TimeInv, ThreadInv
    <3> QED BY <3>1, <3>2, <3>3 DEF Cycle
  <2> QED BY <2>1, <2>2, <2>3
<1>20. CASE AudioApply
  BY <1>20 DEF AudioApply
<1>21. CASE AudioStoreRead
  BY <1>21 DEF AudioStoreRead
<1>22. CASE AudioAdvanceToTarget
  <2>1. current_cycle' = Len(heard') * Div /\ current_cycle' = current_cycle + Div
    BY <1>22, TickTakesTime DEF AudioAdvanceToTarget
  <2>2. my_target <= total_cycles
    BY <1>22 DEF AudioAdvanceToTarget
  <2> QED BY <1>22, <2>1, <2>2 DEF AudioAdvanceToTarget, Behind
<1>23. CASE AudioProcessed
  BY <1>23 DEF AudioProcessed
<1>24. CASE UNCHANGED vars
  BY <1>24 DEF vars
<1> QED BY <1>1, <1>2, <1>3, <1>4, <1>5, <1>6, <1>7, <1>8, <1>9, <1>10, <1>11, <1>12,
   <1>13, <1>14, <1>15, <1>16, <1>17, <1>18, <1>19, <1>20, <1>21, <1>22, <1>23, <1>24 DEF
   Next, EmuStep, EmuCall, AudioStep

LEMMA NextStamp ==
  ASSUME Inv, [Next]_vars
  PROVE  StampInv'
<1>n. /\ Accepted \in Nat /\ Signalled \in Int /\ Signalled <= Accepted
      /\ MaxCycle \in Nat /\ total_cycles \in Int
  BY CountersOf
<1>r. \A i \in 1 .. Accepted : stamps[i] \in Int
  BY StampRange DEF Inv, Cycle
<1> USE <1>n DEF Inv, TypeOK, StampInv, Cycle, emuVars, queueVars, threadVars,
     localVars, chipVars, ghostVars
<1>1. CASE EmuTick
  <2>1. total_cycles <= total_cycles' /\ total_cycles' \in Int
    BY <1>1 DEF EmuTick
  <2>2. UNCHANGED <<stamps, target_cycle>> /\ Accepted' = Accepted /\ Signalled' = Signalled
    BY <1>1, CountsStay DEF EmuTick
  <2> QED BY <1>r, <2>1, <2>2
<1>2. CASE PushDropped
  BY <1>2, CountsStay DEF PushDropped
<1>3. CASE PushFill
  BY <1>3, CountsAtFill DEF PushFill
<1>4. CASE PushPublish
  <2>1. Accepted' = Accepted + 1 /\ Signalled' = Signalled /\ Grows
    BY <1>4, CountsAtPublish
  <2>2. UNCHANGED <<total_cycles, target_cycle>>
    BY <1>4 DEF PushPublish
  <2>3. /\ \A i \in 1 .. Accepted : stamps'[i] = stamps[i]
        /\ stamps'[Accepted + 1] = total_cycles
    BY <2>1, GrowsTo
  <2>4. \A i \in 1 .. Accepted + 1 : i \in 1 .. Accepted \/ i = Accepted + 1
    OBVIOUS
  <2>5. \A i \in 1 .. Accepted : stamps'[i] <= total_cycles
    BY <2>3
  <2>6. \A i \in 1 .. Accepted' : stamps'[i] <= total_cycles'
    BY <2>1, <2>2, <2>3, <2>4, <2>5
  <2>7. \A i, j \in 1 .. Accepted' : i <= j => stamps'[i] <= stamps'[j]
    <3> SUFFICES ASSUME NEW i \in 1 .. Accepted', NEW j \in 1 .. Accepted', i <= j
                 PROVE  stamps'[i] <= stamps'[j]
      OBVIOUS
    <3>1. CASE j = Accepted + 1
      BY <2>2, <2>3, <2>6, <3>1
    <3>2. CASE j # Accepted + 1
      <4>1. i \in 1 .. Accepted /\ j \in 1 .. Accepted
        BY <2>1, <3>2
      <4> QED BY <2>3, <4>1
    <3> QED BY <3>1, <3>2
  <2>8. \A i \in 1 .. Signalled' : stamps'[i] <= target_cycle'
    BY <2>1, <2>2, <2>3
  <2> QED BY <2>6, <2>7, <2>8
<1>5. CASE SignalStore
  BY <1>5, CountsAtSignal DEF SignalStore
<1>6. CASE SignalNotify
  BY <1>6, CountsStay DEF SignalNotify, Notify
<1>7. CASE StopStore
  BY <1>7, CountsStay DEF StopStore
<1>8. CASE StopNotify
  BY <1>8, CountsStay DEF StopNotify, Notify
<1>9. CASE StopJoin
  BY <1>9, CountsStay DEF StopJoin, Joined
<1>10. CASE ResetEngine
  BY <1>10, CountsAtReset DEF ResetEngine
<1>11. CASE Start
  <2>1. Accepted' = 0 /\ Signalled' = 0
    BY <1>11, CountsStay DEF Start, CountInv, Filled, Signalled
  <2> QED BY <2>1
<1>12. CASE AudioLoop
  BY <1>12, CountsStay DEF AudioLoop
<1>13. CASE AudioCheck
  BY <1>13, CountsStay DEF AudioCheck
<1>14. CASE AudioBlock
  BY <1>14, CountsStay DEF AudioBlock
<1>15. CASE AudioTimeout
  BY <1>15, CountsStay DEF AudioTimeout, TimesOut
<1>16. CASE AudioSpuriousWake
  BY <1>16, CountsStay DEF AudioSpuriousWake
<1>17. CASE AudioTest
  BY <1>17, CountsStay DEF AudioTest
<1>18. CASE AudioDrain
  BY <1>18, CountsStay DEF AudioDrain
<1>19. CASE AudioAdvanceToCommand
  BY <1>19, CountsStay DEF AudioAdvanceToCommand
<1>20. CASE AudioApply
  BY <1>20, CountsStay DEF AudioApply
<1>21. CASE AudioStoreRead
  BY <1>21, CountsStay DEF AudioStoreRead
<1>22. CASE AudioAdvanceToTarget
  BY <1>22, CountsStay DEF AudioAdvanceToTarget
<1>23. CASE AudioProcessed
  BY <1>23, CountsStay DEF AudioProcessed
<1>24. CASE UNCHANGED vars
  BY <1>24, CountsStay DEF vars
<1> QED BY <1>1, <1>2, <1>3, <1>4, <1>5, <1>6, <1>7, <1>8, <1>9, <1>10, <1>11, <1>12,
   <1>13, <1>14, <1>15, <1>16, <1>17, <1>18, <1>19, <1>20, <1>21, <1>22, <1>23, <1>24 DEF
   Next, EmuStep, EmuCall, AudioStep

(* The indices: the numbers they stand for, and that they go on standing for them *)

\* The producer takes taken commands to be gone, the batch ends before upto.
Taken(taken) ==
  /\ read = taken % Word
  /\ Accepted + Filled - taken <= Cap - 1
  /\ audio \notin Draining => taken = applied
  /\ (audio # "exited" /\ target_cycle <= last_processed) => Signalled <= taken

Upto(upto) ==
  /\ w = upto % Word
  /\ audio = "apply" => applied < upto
  /\ \A i \in upto + 1 .. Accepted : stamps[i] >= my_target
  /\ my_target = target_cycle => Signalled <= upto

LEMMA IndexParts ==
  /\ IndexInv <=> /\ write = Accepted % Word
                  /\ applied <= Accepted
                  /\ \E taken \in 0 .. applied : Taken(taken)
                  /\ audio \in Draining => /\ r = applied % Word
                                           /\ \E upto \in applied .. Accepted : Upto(upto)
  /\ IndexInv' <=> /\ write' = Accepted' % Word
                   /\ applied' <= Accepted'
                   /\ \E taken \in 0 .. applied' : Taken(taken)'
                   /\ audio' \in Draining => /\ r' = applied' % Word
                                             /\ \E upto \in applied' .. Accepted' : Upto(upto)'
BY DEF IndexInv, Taken, Upto

\* A step that leaves the queue and the batch alone, wherever the threads go.
LEMMA IndexStays ==
  ASSUME IndexInv,
         Accepted' = Accepted, Filled' = Filled, Signalled' = Signalled,
         UNCHANGED <<queueVars, stamps, applied, localVars, target_cycle, last_processed>>,
         (audio' \in Draining) <=> (audio \in Draining),
         audio' = "apply" => audio = "apply", 
         audio' # "exited" => audio # "exited"
  PROVE  IndexInv'
<1>1. PICK taken \in 0 .. applied : Taken(taken)
  BY IndexParts
<1>2. Taken(taken)'
  BY <1>1 DEF Taken, queueVars
<1>3. audio' \in Draining => \E upto \in applied .. Accepted : Upto(upto)'
  <2> SUFFICES ASSUME audio' \in Draining PROVE \E upto \in applied .. Accepted : Upto(upto)'
    OBVIOUS
  <2>1. PICK upto \in applied .. Accepted : Upto(upto)
    BY IndexParts
  <2>2. Upto(upto)'
    BY <2>1 DEF Upto, localVars
  <2> QED BY <2>2
<1> QED BY <1>1, <1>2, <1>3, IndexParts DEF queueVars, localVars

LEMMA NextIndices ==
  ASSUME Inv, [Next]_vars
  PROVE  IndexInv'
<1>n. /\ Accepted \in Nat /\ Signalled \in Int /\ Signalled <= Accepted /\ Filled \in {0, 1}
      /\ applied \in Nat /\ Cap \in Nat /\ Cap <= Word /\ Word \in Nat \ {0}
  BY CountersOf, Sizes
<1>t. PICK taken \in 0 .. applied : Taken(taken)
  BY IndexParts DEF Inv
<1>u. audio \in Draining => \E upto \in applied .. Accepted : Upto(upto)
  BY IndexParts DEF Inv
<1>i. /\ IndexInv /\ write = Accepted % Word /\ applied <= Accepted
      /\ audio \in Draining => r = applied % Word
  BY DEF Inv, IndexInv
<1>d. audio = "apply" => CommandDue
  BY ApplyIsDue
<1>v. audio \in Draining => r \in Index /\ applied % Word = r
  BY <1>i DEF Inv, TypeOK
<1> USE <1>n DEF Draining, emuVars, queueVars, threadVars, localVars, chipVars, ghostVars
<1>1. CASE EmuTick
  BY <1>1, <1>i, CountsStay, IndexStays DEF EmuTick
<1>2. CASE PushDropped
  BY <1>2, <1>i, CountsStay, IndexStays DEF PushDropped
<1>3. CASE PushFill
  <2>1. SizeFrom(write, read) = Accepted - taken
    <3>1. taken \in 0 .. Accepted /\ Accepted - taken < Cap
      BY <1>t, <1>i DEF Taken
    <3>2. SizeFrom(Accepted % Word, taken % Word) = Accepted - taken
      BY <3>1, SizeIs
    <3> QED BY <1>t, <1>i, <3>2 DEF Taken
  <2>2. Accepted' = Accepted /\ Filled = 0 /\ Filled' = 1 /\ Signalled' = Signalled
    BY <1>3, CountsAtFill DEF Inv
  <2>3. Taken(taken)'
    BY <1>3, <1>t, <2>1, <2>2 DEF PushFill, Taken
  <2>4. audio \in Draining => \E upto \in applied .. Accepted : Upto(upto)'
    BY <1>3, <1>u, <2>2 DEF PushFill, Upto
  <2> QED BY <1>3, <1>i, <2>2, <2>3, <2>4, IndexParts DEF PushFill
<1>4. CASE PushPublish
  <2>1. /\ Accepted' = Accepted + 1 /\ Filled = 1 /\ Filled' = 0 /\ Signalled' = Signalled
        /\ Grows
    BY <1>4, CountsAtPublish DEF Inv
  <2>2. write' = (Accepted + 1) % Word
    BY <1>4, <1>i, NextIndexIs DEF PushPublish
  <2>3. Taken(taken)'
    BY <1>4, <1>t, <2>1 DEF PushPublish, Taken
  <2>4. audio \in Draining => \E upto \in applied .. Accepted + 1 : Upto(upto)'
    <3> SUFFICES ASSUME audio \in Draining
                 PROVE  \E upto \in applied .. Accepted + 1 : Upto(upto)'
      OBVIOUS
    <3>1. PICK upto \in applied .. Accepted : Upto(upto)
      BY <1>u
    <3>2. total_cycles >= my_target
      BY <1>4 DEF PushPublish, Inv, TypeOK, ThreadInv, TimeInv, Processing, Cycle
    <3>3. \A i \in 1 .. Accepted : stamps'[i] = stamps[i]
      BY <2>1, GrowsTo DEF Inv
    <3>4. stamps'[Accepted + 1] = total_cycles
      BY <2>1, GrowsTo DEF Inv
    <3>5. \A i \in upto + 1 .. Accepted + 1 : stamps'[i] >= my_target
      BY <3>1, <3>2, <3>3, <3>4 DEF Upto
    <3>6. Upto(upto)'
      BY <1>4, <2>1, <3>1, <3>5 DEF PushPublish, Upto
    <3> QED BY <3>6
  <2> QED BY <1>4, <1>i, <2>1, <2>2, <2>3, <2>4, IndexParts DEF PushPublish
<1>5. CASE SignalStore
  <2>1. Accepted' = Accepted /\ Filled = 0 /\ Filled' = 0
    BY <1>5, CountsAtSignal DEF Inv
  <2>2. /\ audio # "exited" => last_processed < target_cycle'
        /\ audio \in Draining => my_target < target_cycle'
    BY <1>5 DEF SignalStore, Inv, TypeOK, TimeInv, Processing, Cycle
  <2>i. last_processed \in Int /\ target_cycle' \in Int /\ my_target \in Int
    BY <1>5 DEF SignalStore, Inv, TypeOK, Cycle
  <2>3. Taken(taken)'
    BY <1>5, <1>t, <2>1, <2>2, <2>i DEF SignalStore, Taken
  <2>4. audio \in Draining => \E upto \in applied .. Accepted : Upto(upto)'
    <3> SUFFICES ASSUME audio \in Draining PROVE \E upto \in applied .. Accepted : Upto(upto)'
      OBVIOUS
    <3>1. PICK upto \in applied .. Accepted : Upto(upto)
      BY <1>u
    <3>2. my_target' # target_cycle' /\ UNCHANGED <<w, stamps, audio, applied, my_target>>
      BY <1>5, <2>2, <2>i DEF SignalStore
    <3> QED BY <2>1, <3>1, <3>2 DEF Upto
  <2> QED BY <1>5, <1>i, <2>1, <2>3, <2>4, IndexParts DEF SignalStore
<1>6. CASE SignalNotify
  BY <1>6, <1>i, CountsStay, IndexStays DEF SignalNotify, Notify
<1>7. CASE StopStore
  BY <1>7, <1>i, CountsStay, IndexStays DEF StopStore
<1>8. CASE StopNotify
  BY <1>8, <1>i, CountsStay, IndexStays DEF StopNotify, Notify
<1>9. CASE StopJoin
  BY <1>9, <1>i, CountsStay, IndexStays DEF StopJoin, Joined
<1>10. CASE ResetEngine
  <2>1. Accepted' = 0 /\ Filled' = 0 /\ Signalled' = 0
    BY <1>10, CountsAtReset
  <2>2. 0 % Word = 0 /\ 0 <= Cap - 1
    BY Sizes
  <2>3. audio' = "exited" /\ read' = 0 /\ write' = 0 /\ applied' = 0
    BY <1>10 DEF ResetEngine, Inv, ThreadInv
  <2>4. Taken(0)'
    BY <2>1, <2>2, <2>3 DEF Taken
  <2> QED BY <2>1, <2>2, <2>3, <2>4, IndexParts
<1>11. CASE Start
  <2>1. audio = "exited" /\ Accepted = 0 /\ Filled = 0 /\ Signalled = 0
    BY <1>11 DEF Start, Inv, TypeOK, ThreadInv, CountInv, Filled, Signalled
  <2>2. Accepted' = Accepted /\ Filled' = Filled /\ Signalled' = Signalled
    BY <1>11, CountsStay DEF Start
  <2>3. Taken(taken)'
    BY <1>11, <1>t, <1>i, <2>1, <2>2 DEF Start, Taken
  <2> QED BY <1>11, <1>i, <2>2, <2>3, IndexParts DEF Start
<1>12. CASE AudioLoop
  BY <1>12, <1>i, CountsStay, IndexStays DEF AudioLoop
<1>13. CASE AudioCheck
  BY <1>13, <1>i, CountsStay, IndexStays DEF AudioCheck
<1>14. CASE AudioBlock
  BY <1>14, <1>i, CountsStay, IndexStays DEF AudioBlock
<1>15. CASE AudioTimeout
  BY <1>15, <1>i, CountsStay, IndexStays DEF AudioTimeout, TimesOut
<1>16. CASE AudioSpuriousWake
  BY <1>16, <1>i, CountsStay, IndexStays DEF AudioSpuriousWake
<1>17. CASE AudioTest
  <2>1. Accepted' = Accepted /\ Filled' = Filled /\ Signalled' = Signalled
    BY <1>17, CountsStay DEF AudioTest
  <2>2. taken = applied
    BY <1>17, <1>t DEF AudioTest, Taken
  <2>3. UNCHANGED <<queueVars, target_cycle, last_processed, applied, stamps>> /\ audio = "test"
    BY <1>17 DEF AudioTest
  <2>4. Taken(taken)'
    BY <1>17, <1>t, <2>1, <2>2, <2>3 DEF Taken
  <2>5. CASE audio' = "drain"
    <3>1. my_target' = target_cycle /\ r' = applied % Word /\ w' = Accepted % Word
      BY <1>17, <1>t, <1>i, <2>2, <2>5 DEF AudioTest, Taken
    <3>2. Upto(Accepted)'
      BY <2>1, <2>3, <2>5, <3>1 DEF Upto
    <3> QED BY <1>i, <2>1, <2>3, <2>4, <2>5, <3>1, <3>2, IndexParts
  <2>6. CASE audio' # "drain"
    BY <1>17, <1>i, <2>1, <2>3, <2>4, <2>6, IndexParts DEF AudioTest
  <2> QED BY <2>5, <2>6
<1>18. CASE AudioDrain
  <2>1. Accepted' = Accepted /\ Filled' = Filled /\ Signalled' = Signalled
    BY <1>18, CountsStay DEF AudioDrain
  <2>2. Taken(taken)'
    BY <1>18, <1>t, <2>1 DEF AudioDrain, Taken
  <2>3. PICK upto \in applied .. Accepted : Upto(upto)
    BY <1>18, <1>u DEF AudioDrain
  <2>4. audio' = "apply" => applied < upto
    <3>1. audio' = "apply" => applied % Word # upto % Word
      BY <1>18, <1>i, <2>3 DEF AudioDrain, Upto
    <3> QED BY <2>3, <3>1
  <2>5. Upto(upto)'
    BY <1>18, <2>1, <2>3, <2>4 DEF AudioDrain, Upto
  <2> QED BY <1>18, <1>i, <2>1, <2>2, <2>5, IndexParts DEF AudioDrain
<1>19. CASE AudioAdvanceToCommand
  BY <1>19, <1>i, CountsStay, IndexStays DEF AudioAdvanceToCommand, ChipTick
<1>20. CASE AudioApply
  <2>1. Accepted' = Accepted /\ Filled' = Filled /\ Signalled' = Signalled
    BY <1>20, CountsStay DEF AudioApply
  <2>2. applied' = applied + 1
    BY <1>20, <1>d DEF AudioApply, CommandDue
  <2>3. r' = (applied + 1) % Word
    BY <1>20, <1>i, NextIndexIs DEF AudioApply
  <2>4. Taken(taken)' /\ taken \in 0 .. applied + 1
    BY <1>20, <1>t, <2>1 DEF AudioApply, Taken
  <2>5. PICK upto \in applied .. Accepted : Upto(upto)
    BY <1>20, <1>u DEF AudioApply
  <2>6. applied < upto /\ upto \in applied + 1 .. Accepted
    BY <1>20, <2>5 DEF AudioApply, Upto
  <2>7. Upto(upto)'
    BY <1>20, <2>1, <2>5 DEF AudioApply, Upto
  <2>8. /\ \E t \in 0 .. applied' : Taken(t)'
        /\ \E u \in applied' .. Accepted' : Upto(u)'
    BY <2>1, <2>2, <2>4, <2>6, <2>7
  <2>9. write' = Accepted' % Word /\ applied' <= Accepted' /\ r' = applied' % Word
    BY <1>20, <1>i, <2>1, <2>2, <2>3, <2>6 DEF AudioApply
  <2> QED BY <2>8, <2>9, IndexParts
<1>21. CASE AudioStoreRead
  <2>1. Accepted' = Accepted /\ Filled' = Filled /\ Signalled' = Signalled
    BY <1>21, CountsStay DEF AudioStoreRead
  <2>2. read' = applied % Word
    BY <1>21, <1>i DEF AudioStoreRead, DrainedIndex
  <2>3. Taken(applied)'
    BY <1>21, <1>t, <2>1, <2>2 DEF AudioStoreRead, Taken
  <2> QED BY <1>21, <1>i, <2>1, <2>3, IndexParts DEF AudioStoreRead
<1>22. CASE AudioAdvanceToTarget
  BY <1>22, <1>i, CountsStay, IndexStays DEF AudioAdvanceToTarget, ChipTick
<1>23. CASE AudioProcessed
  <2>1. Accepted' = Accepted /\ Filled' = Filled /\ Signalled' = Signalled
    BY <1>23, CountsStay DEF AudioProcessed
  <2>2. taken = applied
    BY <1>23, <1>t DEF AudioProcessed, Taken
  <2>3. target_cycle <= my_target => Signalled <= applied
    BY <1>23 DEF AudioProcessed, Inv, TypeOK, TimeInv, SynthInv, Processing, Cycle
  <2>4. Taken(taken)'
    BY <1>23, <1>t, <2>1, <2>2, <2>3 DEF AudioProcessed, Taken
  <2> QED BY <1>23, <1>i, <2>1, <2>4, IndexParts DEF AudioProcessed
<1>24. CASE UNCHANGED vars
  BY <1>24, <1>i, CountsStay, IndexStays DEF vars
<1> QED BY <1>1, <1>2, <1>3, <1>4, <1>5, <1>6, <1>7, <1>8, <1>9, <1>10, <1>11, <1>12,
   <1>13, <1>14, <1>15, <1>16, <1>17, <1>18, <1>19, <1>20, <1>21, <1>22, <1>23, <1>24 DEF
   Next, EmuStep, EmuCall, AudioStep

(* What lies in the slots *)

LEMMA SlotsStay ==
  ASSUME SlotInv, UNCHANGED <<buf, stamps, total_cycles>>, Accepted' = Accepted,
         applied' = applied, emu' = "publish" => emu = "publish"
  PROVE  SlotInv'
BY DEF SlotInv

LEMMA NextSlots ==
  ASSUME Inv, [Next]_vars
  PROVE  SlotInv'
<1>n. /\ Accepted \in Nat /\ applied \in Nat /\ Cap \in Nat \ {0}
      /\ applied <= Accepted /\ write = Accepted % Word
  BY CountersOf, Sizes DEF Inv, IndexInv
<1>s. SlotInv /\ buf \in [0 .. Cap - 1 -> Command]
  BY DEF Inv, TypeOK
<1>d. audio = "apply" => CommandDue
  BY ApplyIsDue
<1> USE <1>n DEF emuVars, queueVars, threadVars, localVars, chipVars, ghostVars
<1>1. CASE EmuTick
  <2>1. Accepted' = Accepted
    BY <1>1, CountsStay DEF EmuTick
  <2> QED BY <1>1, <1>s, <2>1 DEF EmuTick, SlotInv
<1>2. CASE PushDropped
  BY <1>2, <1>s, CountsStay, SlotsStay DEF PushDropped
<1>3. CASE PushFill
  <2>1. Accepted' = Accepted /\ Filled = 0
    BY <1>3, CountsAtFill DEF Inv
  <2> DEFINE s == Accepted % Cap
  <2>2. s \in 0 .. Cap - 1 /\ write % Cap = s
    BY SlotIs
  <2>3. buf' = [buf EXCEPT ![s] = [cycle |-> total_cycles, id |-> Accepted + 1]]
    BY <1>3, <2>2 DEF PushFill, Accepted
  <2>4. PICK taken \in 0 .. applied : Taken(taken)
    BY IndexParts DEF Inv
  <2>5. ASSUME NEW i \in applied .. Accepted - 1
        PROVE  i % Cap # s /\ i % Cap \in 0 .. Cap - 1
    <3>1. Accepted - i < Cap /\ i < Accepted /\ i \in Nat
      BY <2>1, <2>4 DEF Taken
    <3> QED BY <3>1, ModApart, SlotIs
  <2> HIDE DEF s
  <2>6. buf'[s] = [cycle |-> total_cycles, id |-> Accepted + 1]
    BY <1>s, <2>2, <2>3
  <2>7. \A i \in applied .. Accepted - 1 : buf'[i % Cap] = buf[i % Cap]
    BY <1>s, <2>2, <2>3, <2>5
  <2>8. UNCHANGED <<stamps, total_cycles, applied>>
    BY <1>3 DEF PushFill
  <2> QED BY <1>s, <2>1, <2>6, <2>7, <2>8 DEF SlotInv, s
<1>4. CASE PushPublish
  <2>1. Accepted' = Accepted + 1 /\ Grows
    BY <1>4, CountsAtPublish DEF Inv
  <2>2. /\ \A i \in 1 .. Accepted : stamps'[i] = stamps[i]
        /\ stamps'[Accepted + 1] = total_cycles
    BY <2>1, GrowsTo DEF Inv
  <2>3. UNCHANGED <<buf, applied>> /\ emu = "publish" /\ emu' = "run"
    BY <1>4 DEF PushPublish
  <2>4. ASSUME NEW i \in applied .. Accepted
        PROVE  buf[i % Cap] = [cycle |-> stamps'[i + 1], id |-> i + 1]
    <3>1. CASE i = Accepted
      BY <1>s, <2>2, <2>3, <3>1 DEF SlotInv
    <3>2. CASE i # Accepted
      <4>1. i \in applied .. Accepted - 1 /\ i + 1 \in 1 .. Accepted
        BY <3>2
      <4> QED BY <1>s, <2>2, <4>1 DEF SlotInv
    <3> QED BY <3>1, <3>2
  <2> QED BY <2>1, <2>3, <2>4 DEF SlotInv
<1>5. CASE SignalStore
  BY <1>5, <1>s, CountsAtSignal, SlotsStay DEF SignalStore, Inv
<1>6. CASE SignalNotify
  BY <1>6, <1>s, CountsStay, SlotsStay DEF SignalNotify, Notify
<1>7. CASE StopStore
  BY <1>7, <1>s, CountsStay, SlotsStay DEF StopStore
<1>8. CASE StopNotify
  BY <1>8, <1>s, CountsStay, SlotsStay DEF StopNotify, Notify
<1>9. CASE StopJoin
  BY <1>9, <1>s, CountsStay, SlotsStay DEF StopJoin, Joined
<1>10. CASE ResetEngine
  BY <1>10, CountsAtReset DEF ResetEngine, SlotInv
<1>11. CASE Start
  BY <1>11, <1>s, CountsStay, SlotsStay DEF Start, StartTarget
<1>12. CASE AudioLoop
  BY <1>12, <1>s, CountsStay, SlotsStay DEF AudioLoop
<1>13. CASE AudioCheck
  BY <1>13, <1>s, CountsStay, SlotsStay DEF AudioCheck
<1>14. CASE AudioBlock
  BY <1>14, <1>s, CountsStay, SlotsStay DEF AudioBlock
<1>15. CASE AudioTimeout
  BY <1>15, <1>s, CountsStay, SlotsStay DEF AudioTimeout, TimesOut
<1>16. CASE AudioSpuriousWake
  BY <1>16, <1>s, CountsStay, SlotsStay DEF AudioSpuriousWake
<1>17. CASE AudioTest
  BY <1>17, <1>s, CountsStay, SlotsStay DEF AudioTest
<1>18. CASE AudioDrain
  BY <1>18, <1>s, CountsStay, SlotsStay DEF AudioDrain
<1>19. CASE AudioAdvanceToCommand
  BY <1>19, <1>s, CountsStay, SlotsStay DEF AudioAdvanceToCommand, ChipTick
<1>20. CASE AudioApply
  <2>1. applied' = applied + 1
    BY <1>20, <1>d DEF AudioApply, CommandDue
  <2>2. Accepted' = Accepted
    BY <1>20, CountsStay DEF AudioApply
  <2> QED BY <1>20, <1>s, <2>1, <2>2 DEF AudioApply, SlotInv
<1>21. CASE AudioStoreRead
  BY <1>21, <1>s, CountsStay, SlotsStay DEF AudioStoreRead
<1>22. CASE AudioAdvanceToTarget
  BY <1>22, <1>s, CountsStay, SlotsStay DEF AudioAdvanceToTarget, ChipTick
<1>23. CASE AudioProcessed
  BY <1>23, <1>s, CountsStay, SlotsStay DEF AudioProcessed
<1>24. CASE UNCHANGED vars
  BY <1>24, <1>s, CountsStay, SlotsStay DEF vars
<1> QED BY <1>1, <1>2, <1>3, <1>4, <1>5, <1>6, <1>7, <1>8, <1>9, <1>10, <1>11, <1>12,
   <1>13, <1>14, <1>15, <1>16, <1>17, <1>18, <1>19, <1>20, <1>21, <1>22, <1>23, <1>24 DEF
   Next, EmuStep, EmuCall, AudioStep

(* What has been synthesised *)

\* The parts of SynthInv.
DueInv  == \A i \in 1 .. applied : stamps[i] < current_cycle + Div
NextDue == audio = "apply" => stamps[applied + 1] <= my_target
RestInv == audio \in {"store", "finish"} =>
             /\ \A i \in applied + 1 .. Accepted : stamps[i] >= my_target
             /\ my_target = target_cycle => Signalled <= applied

LEMMA SynthParts ==
  /\ SynthInv <=> DueInv /\ NextDue /\ RestInv /\ HeardOnTime
  /\ SynthInv' <=> DueInv' /\ NextDue' /\ RestInv' /\ HeardOnTime'
BY DEF SynthInv, DueInv, NextDue, RestInv

LEMMA SynthStays ==
  ASSUME SynthInv, UNCHANGED <<stamps, chipVars, my_target, target_cycle>>,
         Accepted' = Accepted, Signalled' = Signalled,
         audio' = "apply" => audio = "apply",
         audio' \in {"store", "finish"} => audio \in {"store", "finish"}
  PROVE  SynthInv'
<1>1. HeardOnTime'
  BY DEF SynthInv, HeardOnTime, TickStart, chipVars
<1>2. DueInv' /\ NextDue' /\ RestInv'
  BY DEF SynthInv, DueInv, NextDue, RestInv, chipVars
<1> QED BY <1>1, <1>2, SynthParts

\* A tick of the chip that ends no later than any command still to be applied.
LEMMA TickOnTime ==
  ASSUME Inv, ChipTick, UNCHANGED stamps,
         \A i \in applied + 1 .. Accepted : current_cycle + Div <= stamps[i]
  PROVE  HeardOnTime'
<1> DEFINE n == Len(heard)
<1>1. n \in Nat /\ heard' = Append(heard, applied) /\ Len(heard') = n + 1
        /\ heard'[n + 1] = applied /\ \A k \in 1 .. n : heard'[k] = heard[k]
  <2>1. heard \in Seq(0 .. MaxWrites) /\ applied \in 0 .. MaxWrites
    BY DEF Inv, TypeOK
  <2>2. heard' = Append(heard, applied)
    BY DEF ChipTick
  <2> QED BY <2>1, <2>2
<1>2. Accepted \in Nat /\ Len(stamps) = Accepted /\ applied \in 0 .. Accepted
  BY CountersOf DEF Inv, IndexInv, Accepted
<1>3. TickStart(n + 1) = current_cycle
  BY <1>1 DEF Inv, TimeInv, TickStart
<1>4. ASSUME NEW i \in 1 .. Accepted
      PROVE  i <= applied <=> stamps[i] < current_cycle + Div
  <2>1. stamps[i] \in Int /\ current_cycle + Div \in Int
    BY CountersOf, StampRange, ConstantsAssumption DEF Inv, Cycle
  <2>2. CASE i <= applied
    <3>1. i \in 1 .. applied
      BY <1>2, <2>2
    <3> QED BY <2>2, <3>1 DEF Inv, SynthInv
  <2>3. CASE ~(i <= applied)
    <3>1. i \in applied + 1 .. Accepted
      BY <1>2, <2>3
    <3> QED BY <2>1, <2>3, <3>1
  <2> QED BY <2>2, <2>3
<1>5. ASSUME NEW k \in 1 .. n + 1
      PROVE  /\ heard'[k] \in 0 .. Accepted
             /\ \A i \in 1 .. Accepted : i <= heard'[k] <=> stamps[i] < TickStart(k) + Div
  <2>1. CASE k = n + 1
    BY <1>1, <1>2, <1>3, <1>4, <2>1
  <2>2. CASE k # n + 1
    <3>1. k \in 1 .. n /\ heard'[k] = heard[k]
      BY <1>1, <2>2
    <3> QED BY <1>2, <3>1 DEF Inv, SynthInv, HeardOnTime
  <2> QED BY <2>1, <2>2
<1>6. Len(heard') = n + 1 /\ Len(stamps') = Accepted /\ UNCHANGED stamps
  BY <1>1, <1>2
<1> HIDE DEF n
<1> QED BY <1>5, <1>6 DEF HeardOnTime, TickStart

\* A command accepted now is no news for the ticks already made.
LEMMA GrowthOnTime ==
  ASSUME Inv, Grows, UNCHANGED heard
  PROVE  HeardOnTime'
<1> DEFINE n == Len(heard)
<1>1. /\ Accepted \in Nat /\ Len(stamps) = Accepted /\ n \in Nat
      /\ \A i \in 1 .. Accepted : stamps'[i] = stamps[i]
      /\ stamps'[Accepted + 1] = total_cycles /\ Len(stamps') = Accepted + 1
  <2>1. Accepted \in Nat /\ TypeOK
    BY CountersOf DEF Inv
  <2>2. n \in Nat /\ Len(stamps) = Accepted /\ Accepted' = Len(stamps')
    BY <2>1 DEF Accepted, TypeOK
  <2> QED BY <2>1, <2>2, GrowsTo
<1>2. ASSUME NEW k \in 1 .. n
      PROVE  TickStart(k) + Div <= total_cycles
  <2>1. (k - 1) * Div + Div = k * Div /\ k * Div \in Int /\ n * Div \in Int
    BY <1>1, ConstantsAssumption
  <2>2. k * Div <= n * Div
    BY <1>1, Scale, ConstantsAssumption
  <2>3. n * Div <= total_cycles /\ total_cycles \in Int
    BY CountersOf DEF Inv, TimeInv
  <2> QED BY <2>1, <2>2, <2>3 DEF TickStart
<1>3. ASSUME NEW k \in 1 .. n
      PROVE  /\ heard[k] \in 0 .. Accepted + 1
             /\ \A i \in 1 .. Accepted + 1 : i <= heard[k] <=> stamps'[i] < TickStart(k) + Div
  <2>1. /\ heard[k] \in 0 .. Accepted
        /\ \A i \in 1 .. Accepted : i <= heard[k] <=> stamps[i] < TickStart(k) + Div
    BY <1>1 DEF Inv, SynthInv, HeardOnTime
  <2>2. ~(Accepted + 1 <= heard[k])
    BY <1>1, <2>1
  <2>3. TickStart(k) + Div \in Int /\ total_cycles \in Int
    <3>1. k \in Int /\ Div \in Int
      BY <1>1, ConstantsAssumption
    <3> QED BY <3>1, CountersOf DEF TickStart
  <2>4. ~(stamps'[Accepted + 1] < TickStart(k) + Div)
    BY <1>1, <1>2, <2>3
  <2> QED BY <1>1, <2>1, <2>2, <2>4
<1>4. Len(heard') = n /\ heard' = heard /\ Len(stamps') = Accepted + 1
  BY <1>1
<1> HIDE DEF n
<1> QED BY <1>3, <1>4 DEF HeardOnTime, TickStart

LEMMA NextSynth ==
  ASSUME Inv, [Next]_vars
  PROVE  SynthInv'
<1>n. /\ Accepted \in Nat /\ applied \in Nat /\ Signalled \in Int /\ Signalled <= Accepted
      /\ applied <= Accepted /\ Div \in Nat \ {0}
      /\ total_cycles \in Int /\ target_cycle \in Int /\ my_target \in Int /\ current_cycle \in Int
  BY CountersOf, ConstantsAssumption DEF Inv, IndexInv
<1>s. SynthInv /\ DueInv /\ NextDue /\ RestInv /\ HeardOnTime
  BY SynthParts DEF Inv
<1>r. \A i \in 1 .. Accepted : stamps[i] \in Int
  BY StampRange DEF Inv, Cycle
<1>m. \A i, j \in 1 .. Accepted : i <= j => stamps[i] <= stamps[j]
  BY DEF Inv, StampInv
<1>d. audio = "apply" => CommandDue
  BY ApplyIsDue
<1>t. audio \in Processing => my_target <= target_cycle /\ my_target <= total_cycles
  BY CountersOf DEF Inv, ThreadInv, TimeInv, Processing
<1>h. UNCHANGED <<stamps, heard>> => HeardOnTime'
  BY <1>s DEF HeardOnTime, TickStart
<1> USE <1>n DEF emuVars, queueVars, threadVars, localVars, ghostVars
<1>1. CASE EmuTick
  BY <1>1, <1>s, CountsStay, SynthStays DEF EmuTick
<1>2. CASE PushDropped
  BY <1>2, <1>s, CountsStay, SynthStays DEF PushDropped
<1>3. CASE PushFill
  <2>1. Accepted' = Accepted /\ Signalled' = Signalled
    BY <1>3, CountsAtFill DEF Inv
  <2> QED BY <1>3, <1>s, <2>1, SynthStays DEF PushFill
<1>4. CASE PushPublish
  <2>1. Accepted' = Accepted + 1 /\ Signalled' = Signalled /\ Grows
    BY <1>4, CountsAtPublish DEF Inv
  <2>2. /\ \A i \in 1 .. Accepted : stamps'[i] = stamps[i]
        /\ stamps'[Accepted + 1] = total_cycles
    BY <2>1, GrowsTo DEF Inv
  <2>3. UNCHANGED <<chipVars, my_target, target_cycle, audio>>
    BY <1>4 DEF PushPublish
  <2>4. HeardOnTime'
    BY <2>1, <2>3, GrowthOnTime DEF chipVars
  <2>5. DueInv'
    BY <1>s, <2>2, <2>3 DEF DueInv, chipVars
  <2>6. NextDue'
    BY <1>s, <1>d, <2>2, <2>3 DEF NextDue, CommandDue, chipVars
  <2>7. RestInv'
    BY <1>s, <1>t, <2>1, <2>2, <2>3 DEF RestInv, chipVars, Processing
  <2> QED BY <2>4, <2>5, <2>6, <2>7, SynthParts
<1>5. CASE SignalStore
  <2>1. Accepted' = Accepted /\ target_cycle' > target_cycle /\ target_cycle' \in Int
          /\ UNCHANGED <<chipVars, stamps, my_target, audio>>
    BY <1>5, CountsAtSignal DEF SignalStore, Inv
  <2>2. DueInv' /\ NextDue' /\ HeardOnTime'
    BY <1>s, <1>h, <2>1 DEF DueInv, NextDue, chipVars
  <2>3. RestInv'
    BY <1>s, <1>t, <2>1 DEF RestInv, chipVars, Processing
  <2> QED BY <2>2, <2>3, SynthParts
<1>6. CASE SignalNotify
  BY <1>6, <1>s, CountsStay, SynthStays DEF SignalNotify, Notify
<1>7. CASE StopStore
  BY <1>7, <1>s, CountsStay, SynthStays DEF StopStore
<1>8. CASE StopNotify
  BY <1>8, <1>s, CountsStay, SynthStays DEF StopNotify, Notify
<1>9. CASE StopJoin
  BY <1>9, <1>s, CountsStay, SynthStays DEF StopJoin, Joined
<1>10. CASE ResetEngine
  <2>1. applied' = 0 /\ heard' = <<>> /\ audio' = "exited"
    BY <1>10 DEF ResetEngine, Inv, ThreadInv
  <2>2. HeardOnTime'
    BY <2>1 DEF HeardOnTime
  <2> QED BY <2>1, <2>2, SynthParts DEF DueInv, NextDue, RestInv
<1>11. CASE Start
  <2>1. audio' = "loop" /\ UNCHANGED <<stamps, chipVars>>
    BY <1>11 DEF Start
  <2> QED BY <1>s, <1>h, <2>1, SynthParts DEF DueInv, NextDue, RestInv, chipVars
<1>12. CASE AudioLoop
  BY <1>12, <1>s, CountsStay, SynthStays DEF AudioLoop
<1>13. CASE AudioCheck
  BY <1>13, <1>s, CountsStay, SynthStays DEF AudioCheck
<1>14. CASE AudioBlock
  BY <1>14, <1>s, CountsStay, SynthStays DEF AudioBlock
<1>15. CASE AudioTimeout
  BY <1>15, <1>s, CountsStay, SynthStays DEF AudioTimeout, TimesOut
<1>16. CASE AudioSpuriousWake
  BY <1>16, <1>s, CountsStay, SynthStays DEF AudioSpuriousWake
<1>17. CASE AudioTest
  <2>1. audio' \notin {"apply", "store", "finish"} /\ UNCHANGED <<stamps, chipVars>>
    BY <1>17 DEF AudioTest
  <2> QED BY <1>s, <1>h, <2>1, SynthParts DEF DueInv, NextDue, RestInv, chipVars
<1>18. CASE AudioDrain
  <2>1. /\ audio = "drain" /\ audio' \in {"apply", "store"}
        /\ UNCHANGED <<stamps, chipVars, my_target, target_cycle>>
        /\ Accepted' = Accepted /\ Signalled' = Signalled
    BY <1>18, CountsStay DEF AudioDrain
  <2>2. PICK upto \in applied .. Accepted : Upto(upto)
    BY <2>1, IndexParts DEF Inv, Draining
  <2>3. r = applied % Word /\ w = upto % Word
    BY <2>1, <2>2 DEF Inv, IndexInv, Draining, Upto
  <2>4. ASSUME applied < upto
        PROVE  Front.cycle = stamps[applied + 1] /\ applied + 1 \in 1 .. Accepted
    BY <2>1, <2>4, FrontIs
  <2>5. CASE audio' = "apply"
    <3>1. r # w /\ Front.cycle <= my_target
      BY <1>18, <2>5 DEF AudioDrain
    <3>2. applied < upto
      BY <2>3, <3>1
    <3> QED BY <1>s, <1>h, <2>1, <2>4, <2>5, <3>1, <3>2, SynthParts
         DEF DueInv, NextDue, RestInv, chipVars
  <2>6. CASE audio' = "store"
    <3>1. CASE r = w
      <4>1. applied = upto
        <5>1. PICK taken \in 0 .. applied : Taken(taken)
          BY IndexParts DEF Inv
        <5>2. Accepted - taken < Word /\ Word \in Nat \ {0}
          BY <5>1, Sizes, CountersOf DEF Taken
        <5>3. SUFFICES ASSUME applied < upto PROVE FALSE
          OBVIOUS
        <5>4. upto - applied < Word /\ upto \in Nat
          BY <5>2
        <5> QED BY <2>3, <3>1, <5>2, <5>3, <5>4, ModApart
      <4> QED BY <1>s, <1>h, <2>1, <2>2, <2>6, <4>1, SynthParts
           DEF DueInv, NextDue, RestInv, Upto, chipVars
    <3>2. CASE r # w
      <4>1. applied < upto /\ ~(Front.cycle <= my_target)
        BY <1>18, <2>2, <2>3, <2>6, <3>2 DEF AudioDrain
      <4>2. stamps[applied + 1] > my_target
        BY <1>r, <2>4, <4>1
      <4>3. \A i \in applied + 1 .. Accepted : stamps[i] > my_target
        BY <1>r, <1>m, <2>4, <4>1, <4>2
      <4>4. my_target = target_cycle => Signalled <= applied
        <5>1. \A i \in 1 .. Signalled : stamps[i] <= target_cycle
          BY DEF Inv, StampInv
        <5> QED BY <1>r, <2>4, <4>1, <4>2, <5>1
      <4> QED BY <1>s, <1>h, <1>r, <2>1, <2>6, <4>3, <4>4, SynthParts
           DEF DueInv, NextDue, RestInv, chipVars
    <3> QED BY <3>1, <3>2
  <2> QED BY <2>1, <2>5, <2>6
<1>19. CASE AudioAdvanceToCommand
  <2>1. /\ Accepted' = Accepted /\ Signalled' = Signalled /\ ChipTick
        /\ audio = "apply" /\ UNCHANGED <<audio, applied, stamps, my_target, target_cycle>>
    BY <1>19, CountsStay DEF AudioAdvanceToCommand, ChipTick
  <2>2. current_cycle + Div <= stamps[applied + 1] /\ applied + 1 \in 1 .. Accepted
    BY <1>19, <1>d DEF AudioAdvanceToCommand, Behind, CommandDue
  <2>3. \A i \in applied + 1 .. Accepted : current_cycle + Div <= stamps[i]
    BY <1>r, <1>m, <2>2
  <2>4. HeardOnTime'
    BY <2>1, <2>3, TickOnTime
  <2>5. DueInv'
    BY <1>s, <1>r, <2>1 DEF DueInv, ChipTick
  <2> QED BY <1>s, <2>1, <2>4, <2>5, SynthParts DEF NextDue, RestInv
<1>20. CASE AudioApply
  <2>1. /\ Accepted' = Accepted /\ Signalled' = Signalled
        /\ UNCHANGED <<stamps, heard, current_cycle, my_target, target_cycle>>
        /\ audio = "apply" /\ audio' = "drain"
    BY <1>20, CountsStay DEF AudioApply
  <2>2. applied' = applied + 1 /\ stamps[applied + 1] < current_cycle + Div
    BY <1>20, <1>d, <1>r DEF AudioApply, ReadyToApply, Behind, CommandDue
  <2>3. DueInv'
    BY <1>s, <2>1, <2>2 DEF DueInv
  <2> QED BY <1>h, <2>1, <2>3, SynthParts DEF NextDue, RestInv
<1>21. CASE AudioStoreRead
  BY <1>21, <1>s, CountsStay, SynthStays DEF AudioStoreRead
<1>22. CASE AudioAdvanceToTarget
  <2>1. /\ Accepted' = Accepted /\ Signalled' = Signalled /\ ChipTick
        /\ audio = "finish" /\ UNCHANGED <<audio, applied, stamps, my_target, target_cycle>>
    BY <1>22, CountsStay DEF AudioAdvanceToTarget, ChipTick
  <2>2. current_cycle + Div <= my_target
    BY <1>22 DEF AudioAdvanceToTarget, Behind
  <2>3. \A i \in applied + 1 .. Accepted : current_cycle + Div <= stamps[i]
    BY <1>s, <1>r, <2>1, <2>2 DEF RestInv
  <2>4. HeardOnTime'
    BY <2>1, <2>3, TickOnTime
  <2>5. DueInv'
    BY <1>s, <1>r, <2>1 DEF DueInv, ChipTick
  <2> QED BY <1>s, <2>1, <2>4, <2>5, SynthParts DEF NextDue, RestInv
<1>23. CASE AudioProcessed
  BY <1>23, <1>s, CountsStay, SynthStays DEF AudioProcessed
<1>24. CASE UNCHANGED vars
  BY <1>24, <1>s, CountsStay, SynthStays DEF vars, chipVars
<1> QED BY <1>1, <1>2, <1>3, <1>4, <1>5, <1>6, <1>7, <1>8, <1>9, <1>10, <1>11, <1>12,
   <1>13, <1>14, <1>15, <1>16, <1>17, <1>18, <1>19, <1>20, <1>21, <1>22, <1>23, <1>24 DEF
   Next, EmuStep, EmuCall, AudioStep

LEMMA Invariance == Spec => []Inv
<1>1. Inv /\ [Next]_vars => Inv'
  BY NextType, NextCount, NextThread, NextTime, NextStamp, NextIndices, NextSlots, NextSynth
     DEF Inv
<1> QED BY <1>1, InitInv, PTL DEF Spec

-----------------------------------------------------------------------------
(* The theorems *)

\* Type correctness: the indices stay in their type, and what the chip is given
\* and has heard stays within what the machine has written.
THEOREM TypeCorrect == Spec => []TypeOK
<1>1. Inv => TypeOK
  BY DEF Inv
<1> QED BY <1>1, Invariance, PTL

\* Whatever the two threads' timing, and through wrapped indices, every tick of the
\* chip is given exactly the register writes stamped before its end.
THEOREM HeardAlwaysOnTime == Spec => []HeardOnTime
<1>1. Inv => HeardOnTime
  BY DEF Inv, SynthInv
<1> QED BY <1>1, Invariance, PTL

\* The queue is cleared and the chip reset with the audio thread joined.
THEOREM QuiescentReset == Spec => []ResetWhileQuiescent
<1>1. Inv => ResetWhileQuiescent
  BY DEF Inv, ThreadInv, ResetWhileQuiescent
<1> QED BY <1>1, Invariance, PTL

\* In a system that zeroes its cycle counter on a reset, the chip never sounds for
\* longer than the machine has run.
THEOREM SynthesisBounded == ResetsCycles => (Spec => []SynthesisWithinEmulatedTime)
<1> SUFFICES ASSUME ResetsCycles PROVE Spec => []SynthesisWithinEmulatedTime
  OBVIOUS
<1>1. Init => reset_cycle = 0
  BY DEF Init
<1>2. reset_cycle = 0 /\ [Next]_vars => (reset_cycle = 0)'
  BY DEF Next, EmuStep, EmuCall, AudioStep, EmuTick, PushDropped, PushFill, PushPublish,
     SignalStore, SignalNotify, StopStore, StopNotify, StopJoin, ResetEngine, Start,
     AudioLoop, AudioCheck, AudioBlock, AudioTimeout, AudioSpuriousWake, AudioTest,
     AudioDrain, AudioAdvanceToCommand, AudioApply, AudioStoreRead, AudioAdvanceToTarget,
     AudioProcessed, vars, ghostVars
<1>3. Inv /\ reset_cycle = 0 => SynthesisWithinEmulatedTime
  BY CountersOf DEF Inv, TimeInv, SynthesisWithinEmulatedTime
<1> QED BY <1>1, <1>2, <1>3, Invariance, PTL DEF Spec

\* A register write is lost only to a thread that is behind the last signal, or in a
\* frame with more writes than the queue holds.
THEOREM LossIsExplained == Spec => LossNeedsLagOrBurst
<1>1. Inv /\ [Next]_vars => [lost' > lost => frame_writes >= Cap - 1
                                              \/ last_processed < target_cycle]_vars
  <2> SUFFICES ASSUME Inv, [Next]_vars, lost' > lost, ~(last_processed < target_cycle)
               PROVE  frame_writes >= Cap - 1
    OBVIOUS
  <2>1. PushDropped
    <3>1. lost \in Int /\ (lost' = lost \/ lost' = 0 \/ PushDropped)
      BY ConstantsAssumption DEF Inv, TypeOK, Next, EmuStep, EmuCall, AudioStep, EmuTick, PushFill,
         PushPublish, SignalStore, SignalNotify, StopStore, StopNotify, StopJoin, ResetEngine,
         Start, AudioLoop, AudioCheck, AudioBlock, AudioTimeout, AudioSpuriousWake, AudioTest,
         AudioDrain, AudioAdvanceToCommand, AudioApply, AudioStoreRead, AudioAdvanceToTarget,
         AudioProcessed, vars, ghostVars
    <3>2. lost >= 0
      BY ConstantsAssumption DEF Inv, TypeOK
    <3> QED BY <3>1, <3>2
  <2>2. emu = "run" /\ SizeFrom(write, read) >= Cap - 1
    BY <2>1 DEF PushDropped
  <2>3. audio # "exited" /\ Filled = 0
    BY <2>2 DEF Inv, ThreadInv, Filled
  <2>4. PICK taken \in 0 .. applied : Taken(taken)
    BY IndexParts DEF Inv
  <2>5. Signalled <= taken
    BY <2>3, <2>4, CountersOf DEF Taken
  <2>6. SizeFrom(write, read) = Accepted - taken
    <3>1. taken \in 0 .. Accepted /\ Accepted - taken < Cap /\ write = Accepted % Word
      BY <2>3, <2>4, CountersOf, Sizes DEF Taken, Inv, IndexInv
    <3>2. SizeFrom(Accepted % Word, taken % Word) = Accepted - taken
      BY <3>1, CountersOf, SizeIs
    <3> QED BY <2>4, <3>1, <3>2 DEF Taken
  <2>7. Accepted - Signalled = frame_writes
    BY <2>3, CountersOf, ConstantsAssumption DEF Signalled, Inv, TypeOK
  <2> QED BY <2>2, <2>5, <2>6, <2>7, CountersOf, Sizes
<1> QED BY <1>1, Invariance, PTL DEF Spec, LossNeedsLagOrBurst
=============================================================================
