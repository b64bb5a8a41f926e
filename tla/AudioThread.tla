----------------------------- MODULE AudioThread -----------------------------
(***************************************************************************)
(* Sound synthesis on a thread of its own:                                 *)
(*   AudioCommandQueue      lock-free SPSC ring of time-stamped writes     *)
(*   AudioThread            signal_progress, wait_for, start, stop         *)
(*   WriteOnlySynthAdapter  process_until, advance_to, reset               *)
(*   the system             run_frame, register writes, reset              *)
(*                                                                         *)
(* A command is known by its number in the order the emulation thread      *)
(* accepted it; what a chip sounds like during one of its ticks is decided *)
(* by how many of them it has been given before, which heard records.      *)
(* One engine: engines share nothing and are processed one after another.  *)
(***************************************************************************)
EXTENDS Integers, Sequences

CONSTANTS
  Cap,           \* capacity of the command queue
  Word,          \* 2^32: the width of the queue's indices
  Div,           \* cpu_cycles_per_tick
  ResetsCycles,  \* the system's reset() zeroes the cycle counter it signals
  MaxCycle, MaxWrites, MaxResets     \* bounds of a behaviour

ASSUME ConstantsAssumption ==
  /\ Cap \in Nat \ {0, 1}
  /\ \E k \in 1 .. Word : Word = k * Cap
  /\ Div \in Nat \ {0}
  /\ ResetsCycles \in BOOLEAN
  /\ MaxCycle \in Nat /\ MaxWrites \in Nat /\ MaxResets \in Nat

VARIABLES
  (* the emulation thread *)
  emu,               \* where it is
  total_cycles,
  (* AudioCommandQueue *)
  buf, write, read,
  (* AudioThread *)
  running, target_cycle, last_processed,
  audio,             \* where thread_func is
  (* process_until and drain_until: their locals *)
  my_target, r, w,
  (* the adapter and its chip *)
  current_cycle,
  applied,           \* commands the chip has been given
  heard,             \* for each tick of the chip, applied as it was then
  (* history *)
  stamps,            \* cycle stamps of the commands accepted since the reset
  reset_cycle,       \* total_cycles when reset() returned
  frame_writes,      \* writes since the last signal_progress
  resets, lost       \* resets so far; writes lost to a full queue

emuVars    == <<emu, total_cycles>>
queueVars  == <<buf, write, read>>
threadVars == <<running, target_cycle, last_processed>>
localVars  == <<my_target, r, w>>
chipVars   == <<current_cycle, applied, heard>>
ghostVars  == <<stamps, reset_cycle, frame_writes, resets, lost>>
vars == <<emuVars, queueVars, threadVars, audio, localVars, chipVars, ghostVars>>

Cycle   == 0 .. MaxCycle
Index   == 0 .. Word - 1
Command == [cycle : Cycle, id : 0 .. MaxWrites]

TypeOK ==
  /\ emu \in {"run", "publish", "notify", "notifyStop", "join", "stopped", "start", "off"}
  /\ total_cycles \in Cycle
  /\ buf \in [0 .. Cap - 1 -> Command]
  /\ write \in Index /\ read \in Index
  /\ running \in BOOLEAN
  /\ target_cycle \in Cycle /\ last_processed \in Cycle
  /\ audio \in {"loop", "check", "drowsy", "blocked", "test", "drain", "apply",
                "store", "finish", "exited"}
  /\ my_target \in Cycle /\ r \in Index /\ w \in Index
  /\ current_cycle \in Cycle
  /\ applied \in 0 .. MaxWrites
  /\ heard \in Seq(0 .. MaxWrites)
  /\ stamps \in Seq(Cycle) /\ Len(stamps) <= MaxWrites
  /\ reset_cycle \in Cycle
  /\ frame_writes \in 0 .. MaxWrites
  /\ resets \in 0 .. MaxResets /\ lost \in 0 .. MaxWrites

-----------------------------------------------------------------------------
(* initialize(): the engine is registered, start() has returned. *)
Init ==
  /\ emu = "run" /\ total_cycles = 0
  /\ buf = [i \in 0 .. Cap - 1 |-> [cycle |-> 0, id |-> 0]]
  /\ write = 0 /\ read = 0
  /\ running = TRUE /\ target_cycle = 0 /\ last_processed = 0
  /\ audio = "loop"
  /\ my_target = 0 /\ r = 0 /\ w = 0
  /\ current_cycle = 0 /\ applied = 0 /\ heard = <<>>
  /\ stamps = <<>> /\ reset_cycle = 0 /\ frame_writes = 0 /\ resets = 0
  /\ lost = 0

-----------------------------------------------------------------------------
(* The emulation thread.  Tick and register writes of run_frame:           *)

EmuTick ==
  /\ emu = "run" /\ total_cycles < MaxCycle
  /\ total_cycles' = total_cycles + 1
  /\ UNCHANGED <<emu, queueVars, threadVars, audio, localVars, chipVars, ghostVars>>

NextIndexUnwrapped(i) == i + 1      \* mutant: a counter wider than its type
NextIndex(i)   == (i + 1) % Word
SizeFrom(wr, rd) == (wr - rd) % Word

\* push() returns false on a full queue; the callers ignore it.
PushDropped ==
  /\ emu = "run" /\ Len(stamps) + lost < MaxWrites
  /\ SizeFrom(write, read) >= Cap - 1
  /\ lost' = lost + 1
  /\ UNCHANGED <<emuVars, queueVars, threadVars, audio, localVars, chipVars, stamps,
                 reset_cycle, frame_writes, resets>>

PushFill ==
  /\ emu = "run" /\ Len(stamps) + lost < MaxWrites
  /\ SizeFrom(write, read) < Cap - 1
  /\ buf' = [buf EXCEPT ![write % Cap] = [cycle |-> total_cycles, id |-> Len(stamps) + 1]]
  /\ emu' = "publish" /\ frame_writes' = frame_writes + 1
  /\ UNCHANGED <<total_cycles, write, read, threadVars, audio, localVars, chipVars,
                 stamps, reset_cycle, resets, lost>>

PushPublish ==
  /\ emu = "publish" /\ emu' = "run"
  /\ write' = NextIndex(write)
  /\ stamps' = Append(stamps, total_cycles)
  /\ UNCHANGED <<total_cycles, buf, read, threadVars, audio, localVars, chipVars,
                 reset_cycle, frame_writes, resets, lost>>

\* notify_one(), which does not take wake_mutex_: it reaches a thread that is
\* blocked already and nobody else.
Notify == audio' = IF audio = "blocked" THEN "check" ELSE audio

\* signal_progress(), at the end of run_frame: a frame takes some cycles
SignalStore ==
  /\ emu = "run" /\ total_cycles > target_cycle
  /\ emu' = "notify"
  /\ target_cycle' = total_cycles
  /\ frame_writes' = 0
  /\ UNCHANGED <<total_cycles, queueVars, running, last_processed, audio, localVars,
                 chipVars, stamps, reset_cycle, resets, lost>>

SignalNotify ==
  /\ emu = "notify" /\ emu' = "run"
  /\ Notify
  /\ UNCHANGED <<total_cycles, queueVars, threadVars, localVars, chipVars, ghostVars>>

-----------------------------------------------------------------------------
(* reset() and shutdown() of the system, with run_frame at rest.           *)

StopStore ==
  /\ emu = "run" /\ running /\ resets < MaxResets
  /\ running' = FALSE /\ emu' = "notifyStop"
  /\ resets' = resets + 1
  /\ UNCHANGED <<total_cycles, queueVars, target_cycle, last_processed, audio, localVars,
                 chipVars, stamps, reset_cycle, frame_writes, lost>>

StopNotify ==
  /\ emu = "notifyStop" /\ emu' = "join"
  /\ Notify
  /\ UNCHANGED <<total_cycles, queueVars, threadVars, localVars, chipVars, ghostVars>>

JoinForgotten == TRUE       \* mutant: stop() without the join
Joined == audio = "exited"

StopJoin ==
  /\ emu = "join" /\ Joined
  /\ emu' \in {"stopped", "off"}
  /\ UNCHANGED <<total_cycles, queueVars, threadVars, audio, localVars, chipVars, ghostVars>>

\* adapter.reset(): queue_.clear(), the chip, current_cycle_.  Some systems set
\* their cycle counter back, others (Amstrad CPC, Namco) let it run on.
ResetEngine ==
  /\ emu = "stopped" /\ emu' = "start"
  /\ read' = 0 /\ write' = 0
  /\ current_cycle' = 0 /\ applied' = 0 /\ heard' = <<>>
  /\ total_cycles' = IF ResetsCycles THEN 0 ELSE total_cycles
  /\ reset_cycle' = total_cycles' /\ stamps' = <<>> /\ frame_writes' = 0
  /\ lost' = 0
  /\ UNCHANGED <<buf, threadVars, audio, localVars, resets>>

StartKeepingTarget == target_cycle       \* mutant
StartTarget == 0

Start ==
  /\ emu = "start" /\ emu' = "run"
  /\ last_processed' = 0 /\ target_cycle' = StartTarget
  /\ running' = TRUE /\ audio' = "loop"
  /\ UNCHANGED <<total_cycles, queueVars, localVars, chipVars, ghostVars>>

-----------------------------------------------------------------------------
(* thread_func *)

AudioLoop ==
  /\ audio = "loop"
  /\ audio' = IF running THEN "check" ELSE "exited"
  /\ UNCHANGED <<emuVars, queueVars, threadVars, localVars, chipVars, ghostVars>>

\* the predicate of wait_for, and the block that follows it some time later
AudioCheck ==
  /\ audio = "check"
  /\ audio' = IF ~running \/ target_cycle > last_processed THEN "test" ELSE "drowsy"
  /\ UNCHANGED <<emuVars, queueVars, threadVars, localVars, chipVars, ghostVars>>

AudioBlock ==
  /\ audio = "drowsy" /\ audio' = "blocked"
  /\ UNCHANGED <<emuVars, queueVars, threadVars, localVars, chipVars, ghostVars>>

NoTimeout  == FALSE          \* mutant: wait() in place of wait_for()
TimesOut == audio = "blocked"

AudioTimeout ==
  /\ TimesOut
  /\ audio' = "test"
  /\ UNCHANGED <<emuVars, queueVars, threadVars, localVars, chipVars, ghostVars>>

AudioSpuriousWake ==
  /\ audio = "blocked" /\ audio' = "check"
  /\ UNCHANGED <<emuVars, queueVars, threadVars, localVars, chipVars, ghostVars>>

\* running_ again, then the target; drain_until starts with both indices
AudioTest ==
  /\ audio = "test"
  /\ \/ /\ ~running /\ audio' = "exited"
        /\ UNCHANGED localVars
     \/ /\ running /\ target_cycle <= last_processed /\ audio' = "loop"
        /\ UNCHANGED localVars
     \/ /\ running /\ target_cycle > last_processed /\ audio' = "drain"
        /\ my_target' = target_cycle /\ r' = read /\ w' = write
  /\ UNCHANGED <<emuVars, queueVars, threadVars, chipVars, ghostVars>>

\* the loop of drain_until
Front == buf[r % Cap]

AudioDrain ==
  /\ audio = "drain"
  /\ audio' = IF r # w /\ Front.cycle <= my_target THEN "apply" ELSE "store"
  /\ UNCHANGED <<emuVars, queueVars, threadVars, localVars, chipVars, ghostVars>>

\* advance_to(goal): one chip tick at a time
Behind(goal) == current_cycle + Div <= goal

ChipTick ==
  /\ heard' = Append(heard, applied)
  /\ current_cycle' = current_cycle + Div
  /\ UNCHANGED applied

AppliedBeforeAdvancing == TRUE       \* mutant: the write first, then the ticks
ReadyToApply == ~Behind(Front.cycle)

AudioAdvanceToCommand ==
  /\ audio = "apply" /\ Behind(Front.cycle)
  /\ ChipTick
  /\ UNCHANGED <<emuVars, queueVars, threadVars, audio, localVars, ghostVars>>

AudioApply ==
  /\ audio = "apply" /\ ReadyToApply
  /\ applied' = Front.id
  /\ r' = NextIndex(r) /\ audio' = "drain"
  /\ UNCHANGED <<emuVars, queueVars, threadVars, my_target, w, current_cycle, heard, ghostVars>>

NothingStored == read         \* mutant: drain_until forgets to publish read_
DrainedIndex  == r

AudioStoreRead ==
  /\ audio = "store" /\ audio' = "finish"
  /\ read' = DrainedIndex
  /\ UNCHANGED <<emuVars, buf, write, threadVars, localVars, chipVars, ghostVars>>

AudioAdvanceToTarget ==
  /\ audio = "finish" /\ Behind(my_target)
  /\ ChipTick
  /\ UNCHANGED <<emuVars, queueVars, threadVars, audio, localVars, ghostVars>>

AudioProcessed ==
  /\ audio = "finish" /\ ~Behind(my_target)
  /\ last_processed' = my_target /\ audio' = "loop"
  /\ UNCHANGED <<emuVars, queueVars, running, target_cycle, localVars, chipVars, ghostVars>>

-----------------------------------------------------------------------------
AudioStep == AudioLoop \/ AudioCheck \/ AudioBlock \/ AudioTimeout \/ AudioTest \/ AudioDrain
               \/ AudioAdvanceToCommand \/ AudioApply \/ AudioStoreRead
               \/ AudioAdvanceToTarget \/ AudioProcessed

\* What the emulation thread does without a choice, once it is in a call.
EmuCall == PushPublish \/ SignalNotify \/ StopNotify \/ StopJoin \/ ResetEngine \/ Start

EmuStep == EmuTick \/ PushDropped \/ PushFill \/ SignalStore \/ StopStore \/ EmuCall

Next == EmuStep \/ AudioStep \/ AudioSpuriousWake

Spec == Init /\ [][Next]_vars

\* Both threads are scheduled; wait_for times out; the emulation thread leaves
\* the calls it has entered but need not make another.  No spurious wake-up is
\* counted on.
FairSpec == Spec /\ WF_vars(AudioStep) /\ WF_vars(EmuCall)

-----------------------------------------------------------------------------
(* Properties *)

\* Sound does not depend on how the two threads are scheduled: each tick of the
\* chip, whenever it is computed, is given exactly the writes stamped before its
\* end (the header of WriteOnlySynthAdapter: writes at the correct cycle).
TickStart(k) == (k - 1) * Div

HeardOnTime ==
  \A k \in 1 .. Len(heard) :
    /\ heard[k] \in 0 .. Len(stamps)
    /\ \A i \in 1 .. Len(stamps) : i <= heard[k] <=> stamps[i] < TickStart(k) + Div

\* A write is lost only when the audio thread has not caught up with the last
\* signal, or a single frame holds more writes than the queue.
LossNeedsLagOrBurst ==
  [][lost' > lost => frame_writes >= Cap - 1 \/ last_processed < target_cycle]_vars

\* The queue is cleared, and the chip reset, while nobody else uses them
\* ("call only when both threads are quiescent").
ResetWhileQuiescent == emu \in {"stopped", "start"} => audio = "exited"

\* The chip never sounds for longer than the machine has run since the reset.
SynthesisWithinEmulatedTime == current_cycle <= total_cycles - reset_cycle

\* What has been signalled is synthesised, although a wake-up can be lost.
SignalIsHeard ==
  \A c \in 1 .. MaxCycle :
    (running /\ target_cycle = c) ~> (current_cycle + Div > c \/ ~running)

\* stop() returns.
StopReturns == emu = "join" ~> emu # "join"
=============================================================================
