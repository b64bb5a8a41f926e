------------------------------ MODULE AudioPath ------------------------------
(***************************************************************************)
(* The way of a sample from the chip to the loudspeaker:                   *)
(*   AudioPort / AudioRing   drive, push_unchecked, pop     (audio_port)   *)
(*   the emulation thread    run_frame, get_audio_samples, write           *)
(*   RingBuffer<float>       write, read, reset             (ring_buffer)  *)
(*   SDL's audio thread      sdl_audio_callback                            *)
(*   the GUI thread          start_emu_thread                              *)
(*                                                                         *)
(* Samples are numbered in the order the machine makes them.  Its chip may *)
(* run on the emulation thread (run_frame ends with all of its samples     *)
(* driven) or on an AudioThread that lags behind as it is scheduled.       *)
(* Both rings are lock-free, so a copy is a step per sample.               *)
(*                                                                         *)
(* Nothing in the code keeps the producer from running over the reader, or *)
(* a restart from moving the indices under the callback: history variables *)
(* tell when that has happened, and what had happened before.              *)
(***************************************************************************)
EXTENDS Integers, Sequences

CONSTANTS
  PortCap,        \* AudioRing::CAP
  Word,           \* 2^32: the width of AudioRing's indices
  RingCap,        \* capacity of audio_ring_
  Requested,      \* samples taken for a frame: audio_sample_rate_ / target_fps
  MaxBatch,       \* frames in one iteration of the thread: 3, unless warping
  CallbackLen,    \* samples SDL asks for
  Machines,       \* frame: the numbers of samples the chip may make in a frame;
                  \* threaded: on a thread of its own; warps: is_warping() may
                  \* hold; suppresses: run_frame calls set_suppress(is_warping())
  MaxSamples, MaxWarpBatch, MaxLag     \* bounds of a behaviour

ASSUME ConstantsAssumption ==
  /\ PortCap \in Nat \ {0} /\ \E k \in 3 .. Word : Word = k * PortCap
  /\ RingCap \in Nat \ {0, 1}
  /\ Requested \in Nat \ {0} /\ MaxBatch \in Nat \ {0}
  /\ CallbackLen \in Nat \ {0}
  /\ Machines \subseteq [frame : SUBSET (Nat \ {0}), threaded : BOOLEAN,
                          warps : BOOLEAN, suppresses : BOOLEAN]
  /\ \A m \in Machines :
       m.suppresses => ~m.threaded    \* the C64 suppresses; its SID has no thread
  /\ MaxSamples \in Nat /\ MaxWarpBatch \in Nat /\ MaxLag \in Nat

VARIABLES
  (* the machine and its sound chip *)
  machine,       \* the one of Machines that runs
  made,          \* samples the chip has computed
  due,           \* samples of frames already run, still to be computed
  suppress,      \* AudioPort::suppress_
  (* AudioRing *)
  port_buf, port_write, port_read,
  pushing,       \* push_unchecked has filled its slot, write_ comes next
  (* the emulation thread *)
  emu,           \* where it is
  warping,       \* is_warping() as sampled at the top of the loop
  frames_ran,
  got,           \* emu_audio_tmp_: samples taken from the port
  want,          \* how many more to copy
  (* RingBuffer *)
  ring_buf, ring_write, ring_read,
  (* the callback *)
  callback, cb_pos, cb_left,
  played,        \* the last sample given to SDL
  gui,           \* new, running, stopped, or where start_emu_thread is
  (* history *)
  surplus,       \* samples made beyond those asked for, less those asked for since
  late,          \* the most samples that were due when the thread took its share
  lapped,        \* the producer has stored over a sample nobody had taken
  torn           \* a restart has moved the indices under a callback at work

chipVars == <<machine, made, due, suppress>>
portVars == <<port_buf, port_write, port_read, pushing>>
emuVars  == <<emu, warping, frames_ran, got, want>>
ringVars == <<ring_buf, ring_write, ring_read>>
cbVars   == <<callback, cb_pos, cb_left, played>>
history  == <<surplus, late, lapped, torn>>
vars == <<chipVars, portVars, emuVars, ringVars, cbVars, gui, history>>

MayWarp    == machine.warps
Suppresses == machine.suppresses

Sample   == 0 .. MaxSamples       \* 0: never driven
PortSlot == 0 .. PortCap - 1
RingSlot == 0 .. RingCap - 1

TypeOK ==
  /\ machine \in Machines
  /\ made \in Sample /\ due \in 0 .. MaxSamples /\ suppress \in BOOLEAN
  /\ port_buf \in [PortSlot -> Sample]
  /\ port_write \in 0 .. Word - 1 /\ port_read \in 0 .. Word - 1
  /\ pushing \in BOOLEAN
  /\ emu \in {"off", "idle", "batch", "samples", "fetch", "ring", "copy"}
  /\ warping \in BOOLEAN
  /\ frames_ran \in 0 .. MaxBatch + MaxWarpBatch
  /\ got \in Seq(Sample) /\ want \in 0 .. MaxBatch * Requested
  /\ ring_buf \in [RingSlot -> Sample]
  /\ ring_write \in RingSlot /\ ring_read \in RingSlot
  /\ callback \in {"idle", "copy"}
  /\ cb_pos \in RingSlot /\ cb_left \in 0 .. CallbackLen
  /\ played \in Sample
  /\ gui \in {"new", "resetRead", "resetWrite", "running", "stopped"}
  /\ surplus \in Nat /\ late \in Sample /\ lapped \in BOOLEAN /\ torn \in BOOLEAN

Init ==
  /\ machine \in Machines
  /\ made = 0 /\ due = 0 /\ suppress = FALSE
  /\ port_buf = [s \in PortSlot |-> 0] /\ port_write = 0 /\ port_read = 0
  /\ pushing = FALSE
  /\ emu = "off" /\ warping = FALSE /\ frames_ran = 0 /\ got = <<>> /\ want = 0
  /\ ring_buf = [s \in RingSlot |-> 0] /\ ring_write = 0 /\ ring_read = 0
  /\ callback = "idle" /\ cb_pos = 0 /\ cb_left = 0 /\ played = 0
  /\ gui = "new"
  /\ surplus = 0 /\ late = 0 /\ lapped = FALSE /\ torn = FALSE

-----------------------------------------------------------------------------
(* The chip: drive_sample() drops the sample in warp mode, otherwise       *)
(* push_unchecked() stores it without a look at the reader.                *)
Least(a, b)   == IF a < b THEN a ELSE b
Greatest(a, b) == IF a < b THEN b ELSE a
PortAvailable == (port_write - port_read) % Word

DriveSuppressed ==
  /\ due > 0 /\ suppress /\ ~pushing
  /\ due' = due - 1 /\ made' = made + 1
  /\ UNCHANGED <<machine, suppress, portVars, emuVars, ringVars, cbVars, gui, history>>

PushStore ==
  /\ due > 0 /\ ~suppress /\ ~pushing
  /\ port_buf' = [port_buf EXCEPT ![port_write % PortCap] = made + 1]
  /\ pushing' = TRUE
  /\ lapped' = (lapped \/ PortAvailable >= PortCap)
  /\ UNCHANGED <<chipVars, port_write, port_read, emuVars, ringVars, cbVars, gui,
                 surplus, late, torn>>

NextWriteUnwrapped == port_write + 1        \* mutant: an index wider than its type
NextWrite == (port_write + 1) % Word

PushPublish ==
  /\ pushing /\ pushing' = FALSE
  /\ port_write' = NextWrite
  /\ due' = due - 1 /\ made' = made + 1
  /\ UNCHANGED <<machine, suppress, port_buf, port_read, emuVars, ringVars, cbVars, gui,
                 history>>

-----------------------------------------------------------------------------
(* The emulation thread *)

EmuBegin ==
  /\ emu = "idle"
  /\ warping' \in {FALSE, MayWarp}
  /\ emu' = "batch" /\ frames_ran' = 0 /\ got' = <<>>
  /\ UNCHANGED <<chipVars, portVars, want, ringVars, cbVars, gui, history>>

\* A paced batch is at most three frames; a warp batch lasts for a time budget
\* and does not look again whether the system still warps.
BatchLimit == IF warping THEN MaxWarpBatch ELSE MaxBatch

\* run_frame returns when a chip without a thread has driven its samples; a warp
\* may begin or end between any two frames
FrameDone == machine.threaded \/ due = 0

RunFrame ==
  /\ emu = "batch" /\ frames_ran < BatchLimit
  /\ FrameDone
  /\ suppress' \in IF Suppresses THEN {FALSE, MayWarp} ELSE {FALSE}
  /\ \E n \in machine.frame :
       /\ due <= MaxLag /\ made + due + n <= MaxSamples
       /\ due' = due + n
       /\ surplus' = Greatest(0, surplus + (IF suppress' THEN 0 ELSE n)
                                        - (IF warping THEN 0 ELSE Requested))
  /\ frames_ran' = frames_ran + 1
  /\ UNCHANGED <<machine, made, portVars, emu, warping, got, want, ringVars, cbVars, gui,
                 late, lapped, torn>>

NeededForOneFrame == IF warping \/ frames_ran = 0 THEN 0 ELSE Requested     \* mutant
SamplesNeeded == IF warping THEN 0 ELSE frames_ran * Requested

EndBatch ==
  /\ emu = "batch" /\ FrameDone
  /\ want' = SamplesNeeded
  /\ emu' = IF SamplesNeeded > 0 THEN "samples" ELSE "idle"
  /\ UNCHANGED <<chipVars, portVars, warping, frames_ran, got, ringVars, cbVars, gui, history>>

\* pop(): the indices, then one sample after the other, then read_
\* what they are apart is an int, and less than nothing counts as nothing
PopCount == IF 2 * PortAvailable < Word THEN Least(PortAvailable, want) ELSE 0

PopLoad ==
  /\ emu = "samples" /\ emu' = "fetch"
  /\ want' = PopCount
  /\ late' = Greatest(late, due)
  /\ UNCHANGED <<chipVars, portVars, warping, frames_ran, got, ringVars, cbVars, gui,
                 surplus, lapped, torn>>

PopCopy ==
  /\ emu = "fetch" /\ want > 0
  /\ got' = Append(got, port_buf[(port_read + Len(got)) % PortCap])
  /\ want' = want - 1
  /\ UNCHANGED <<chipVars, portVars, emu, warping, frames_ran, ringVars, cbVars, gui, history>>

PopStore ==
  /\ emu = "fetch" /\ want = 0
  /\ port_read' = (port_read + Len(got)) % Word
  /\ emu' = IF got = <<>> THEN "idle" ELSE "ring"
  /\ UNCHANGED <<chipVars, port_buf, port_write, pushing, warping, frames_ran, got, want,
                 ringVars, cbVars, gui, history>>

\* RingBuffer::write: as many as there is room for, the rest is lost
Used(wr, rd) == IF wr >= rd THEN wr - rd ELSE RingCap - rd + wr

RoomWithoutGap(wr, rd) == RingCap - Used(wr, rd)     \* mutant: forgets the empty slot
Room(wr, rd) == RingCap - 1 - Used(wr, rd)

RingWriteLoad ==
  /\ emu = "ring" /\ emu' = "copy"
  /\ got' = SubSeq(got, 1, Least(Len(got), Room(ring_write, ring_read)))
  /\ want' = 0
  /\ UNCHANGED <<chipVars, portVars, warping, frames_ran, ringVars, cbVars, gui, history>>

RingWriteCopy ==
  /\ emu = "copy" /\ want < Len(got)
  /\ ring_buf' = [ring_buf EXCEPT ![(ring_write + want) % RingCap] = got[want + 1]]
  /\ want' = want + 1
  /\ UNCHANGED <<chipVars, portVars, emu, warping, frames_ran, got, ring_write, ring_read,
                 cbVars, gui, history>>

RingWriteStore ==
  /\ emu = "copy" /\ want = Len(got)
  /\ ring_write' = (ring_write + Len(got)) % RingCap
  /\ emu' = "idle" /\ want' = 0 /\ got' = <<>>
  /\ UNCHANGED <<chipVars, portVars, warping, frames_ran, ring_buf, ring_read, cbVars, gui,
                 history>>

-----------------------------------------------------------------------------
(* sdl_audio_callback: RingBuffer::read, straight into SDL's stream *)

CallbackLoad ==
  /\ callback = "idle" /\ callback' = "copy"
  /\ cb_pos' = ring_read
  /\ cb_left' = Least(CallbackLen, Used(ring_write, ring_read))
  /\ torn' = (torn \/ (gui = "resetWrite" /\ ring_write # 0))
  /\ UNCHANGED <<chipVars, portVars, emuVars, ringVars, played, gui, surplus, late, lapped>>

CallbackCopy ==
  /\ callback = "copy" /\ cb_left > 0
  /\ played' = ring_buf[cb_pos]
  /\ cb_pos' = (cb_pos + 1) % RingCap /\ cb_left' = cb_left - 1
  /\ UNCHANGED <<chipVars, portVars, emuVars, ringVars, callback, gui, history>>

CallbackStore ==
  /\ callback = "copy" /\ cb_left = 0 /\ callback' = "idle"
  /\ ring_read' = cb_pos
  /\ UNCHANGED <<chipVars, portVars, emuVars, ring_buf, ring_write, cb_pos, cb_left,
                 played, gui, history>>

-----------------------------------------------------------------------------
(* start_emu_thread: audio_ring_->reset() while there is no emulation      *)
(* thread.  The SDL device is open before, at the first start as at every  *)
(* other one, and its callback may be anywhere.                            *)

StartEmuThread ==
  /\ gui \in {"new", "stopped"}
  /\ gui' = "resetRead"
  /\ UNCHANGED <<chipVars, portVars, emuVars, ringVars, cbVars, history>>

ResetRead ==
  /\ gui = "resetRead" /\ gui' = "resetWrite"
  /\ ring_read' = 0
  /\ torn' = (torn \/ (callback = "copy" /\ <<cb_pos, cb_left>> # <<0, 0>>))
  /\ UNCHANGED <<chipVars, portVars, emuVars, ring_buf, ring_write, cbVars, surplus, late,
                 lapped>>

ResetWrite ==
  /\ gui = "resetWrite" /\ gui' = "running" /\ emu' = "idle"
  /\ ring_write' = 0
  /\ UNCHANGED <<chipVars, portVars, warping, frames_ran, got, want, ring_buf, ring_read,
                 cbVars, history>>

\* stop_emu_thread: the thread leaves at the top of its loop
StopEmuThread ==
  /\ gui = "running" /\ emu = "idle"
  /\ gui' = "stopped" /\ emu' = "off"
  /\ UNCHANGED <<chipVars, portVars, warping, frames_ran, got, want, ringVars, cbVars, history>>

-----------------------------------------------------------------------------
Synthesize == DriveSuppressed \/ PushStore \/ PushPublish

EmuNext == EmuBegin \/ RunFrame \/ EndBatch \/ PopLoad \/ PopCopy \/ PopStore
             \/ RingWriteLoad \/ RingWriteCopy \/ RingWriteStore

CallbackNext == CallbackLoad \/ CallbackCopy \/ CallbackStore

GuiNext == StartEmuThread \/ ResetRead \/ ResetWrite \/ StopEmuThread

Next == Synthesize \/ EmuNext \/ CallbackNext \/ GuiNext

Spec == Init /\ [][Next]_vars

-----------------------------------------------------------------------------
(* Properties *)

\* The loudspeaker never hears a sample twice, or after a later one, or a slot
\* nobody has written: both rings hand samples over in order, losing some at most.
\* So it is until the producer laps the reader or a restart tears the callback's
\* copy, and those two are all that can disturb it (push_unchecked, pop,
\* RingBuffer::read, write and reset).
HeardInOrder ==
  [][~lapped /\ ~torn /\ played' # played => played' > played]_vars

\* The producer, which does not look, laps the reader only if the chip made more than
\* it was asked for, or was late when it was asked, by what the port has room for
\* beside a full batch: frames that come one by one or in a batch, and pops that
\* find less than they want, do not add up to an overrun (push_unchecked and the
\* batch loop of emu_thread_func).
OverrunIsExplained ==
  [][~lapped /\ lapped' => surplus + late > PortCap - MaxBatch * Requested]_vars
=============================================================================
