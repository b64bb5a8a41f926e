----------------------------- MODULE SessionHost -----------------------------
(***************************************************************************)
(* The session: one GUI thread, one emulation thread at a time, the two    *)
(* mutexes and the atomic flags between them.  The GUI thread runs frames  *)
(* of its own loop                                                         *)
(*   events -> signal check -> dialogs -> screen -> menu -> events ...     *)
(* and from them pauses, steps, resets, loads, switches the system or      *)
(* rebuilds the display pipeline; the emulation thread drains the input    *)
(* queue, runs frames under emu_mutex_ and hands the picture over under    *)
(* fb_mutex_.                                                              *)
(*                                                                         *)
(* The system is a C128, the one whose video signal changes while it runs: *)
(* its 40/80 key and its C64 mode select one of two ports of different     *)
(* types.  A picture is known by whose memory it lies in: the buffers of   *)
(* the connected pipeline, those of a pipeline already freed, or a port's  *)
(* own.  input_mutex_ guards one statement on each side and is part of it. *)
(***************************************************************************)
EXTENDS Integers, Sequences

CONSTANTS
  QueueBound,    \* bound: events pushed while the queue is shorter than this
  Numbers        \* bound: events are numbered modulo this

ASSUME SessionAssumption ==
  /\ QueueBound \in Nat \ {0}
  /\ Numbers \in Nat /\ Numbers > 2 * QueueBound

VARIABLES
  gui,                  \* where the GUI thread is
  call,                 \* what it is stopping the emulation thread for
  was_running,          \* local of rebuild_signal_pipeline, load_selected_file
  new_type,             \* local of rebuild_signal_pipeline
  emu,                  \* where the emulation thread is, or "none"
  events,               \* its local: the batch last taken from the queue
  emu_mutex, fb_mutex,  \* who holds them
  emu_thread_running, running, paused,     \* the atomic flags
  fb_new_frame,
  input_queue,
  system,               \* system_ is not null
  key_80, c64_mode, c64_requested,         \* the C128
  bound,                \* the port that writes last_frame_data_
  last_frame,           \* where the picture it describes lies
  target,               \* where each port's chip writes
  active_type,
  pipeline,             \* the port the pipeline is connected to, its type
  snapshot,             \* the decoder: where its snapshot points
  pushed, delivered,    \* history: numbers of the next event
  user_paused           \* history: what the user last asked for

hardware == <<key_80, c64_mode, c64_requested>>
picture  == <<bound, last_frame, target, active_type, pipeline, snapshot>>
flags    == <<emu_thread_running, running, paused>>
locks    == <<emu_mutex, fb_mutex>>
input    == <<input_queue, events, pushed, delivered>>
locals   == <<call, was_running, new_type>>
vars == <<gui, emu, locals, hardware, picture, flags, locks, input,
          fb_new_frame, system, user_paused>>

Ports     == {"vic", "vdc"}
Types     == {"Composite", "RGBI"}
PortType  == [p \in Ports |-> IF p = "vic" THEN "Composite" ELSE "RGBI"]
None      == "none"
Memory    == {None, "pipeline", "freed", "port"}
NotConnected == [port |-> None, type |-> None]

------------------------------------------------------------------------------
(* The C128 *)

ActivePort == IF key_80 /\ ~c64_mode THEN "vdc" ELSE "vic"
SignalType == PortType[ActivePort]

(* The rebinding of last_frame_data_, and the reset that ends with it. *)
Rebind == /\ last_frame' = None
          /\ bound' = ActivePort'

SystemReset ==
  /\ c64_mode' = FALSE
  /\ UNCHANGED <<key_80, c64_requested>>
  /\ Rebind
  /\ UNCHANGED <<target, active_type, pipeline, snapshot>>

------------------------------------------------------------------------------
(* The pipeline *)

Freed(m) == IF m = "pipeline" THEN "freed" ELSE m

Disconnect ==
  /\ target' = [p \in Ports |-> IF p = pipeline.port THEN "port" ELSE target[p]]
  /\ pipeline' = NotConnected

(* Everything of a new system, and the pipeline for its active port. *)
NewSystemOn(port) ==
  /\ bound' = port
  /\ last_frame' = None
  /\ active_type' = PortType[port]
  /\ pipeline' = [port |-> port, type |-> PortType[port]]
  /\ target' = [p \in Ports |-> IF p = port THEN "pipeline" ELSE "port"]
  /\ snapshot' = None

Init ==
  /\ gui = "events" /\ emu = "check"
  /\ call = None /\ was_running = FALSE /\ new_type = None
  /\ events = <<>> /\ input_queue = <<>> /\ pushed = 0 /\ delivered = 0
  /\ emu_mutex = None /\ fb_mutex = None
  /\ emu_thread_running = TRUE /\ running = TRUE /\ paused = FALSE
  /\ fb_new_frame = FALSE
  /\ system = TRUE
  /\ key_80 = TRUE /\ c64_mode = FALSE /\ c64_requested = FALSE
  /\ bound = "vdc" /\ last_frame = None
  /\ active_type = "RGBI"
  /\ pipeline = [port |-> "vdc", type |-> "RGBI"]
  /\ target = [p \in Ports |-> IF p = "vdc" THEN "pipeline" ELSE "port"]
  /\ snapshot = None
  /\ user_paused = FALSE

------------------------------------------------------------------------------
(* The locals of a call that returns. *)
LocalsDone == call' = None /\ was_running' = FALSE /\ new_type' = None

(* GUI thread: events, and the signal check *)

PushEvent ==
  /\ gui = "events" /\ system /\ Len(input_queue) < QueueBound
  /\ input_queue' = Append(input_queue, pushed)
  /\ pushed' = (pushed + 1) % Numbers
  /\ UNCHANGED <<gui, emu, locals, hardware, picture, flags, locks, events,
                 delivered, fb_new_frame, system, user_paused>>

RebuildNotPausing == paused
PausedForRebuild == paused \/ running

CheckSignalType ==
  /\ gui = "events"
  /\ IF system /\ SignalType # active_type
       THEN /\ new_type' = SignalType
            /\ was_running' = running
            /\ paused' = PausedForRebuild
            /\ gui' = "rebuild_emu"
       ELSE /\ gui' = "dialogs"
            /\ UNCHANGED <<new_type, was_running, paused>>
  /\ UNCHANGED <<emu, call, hardware, picture, emu_thread_running, running,
                 locks, input, fb_new_frame, system, user_paused>>

------------------------------------------------------------------------------
(* GUI thread: the rebuild, under both mutexes *)

RebuildLockEmu ==
  /\ gui = "rebuild_emu" /\ emu_mutex = None
  /\ emu_mutex' = "gui"
  /\ gui' = "rebuild_fb"
  /\ UNCHANGED <<emu, locals, hardware, picture, flags, fb_mutex, input,
                 fb_new_frame, system, user_paused>>

WithoutFbMutex == TRUE
FbMutexFree == fb_mutex = None

RebuildLockFb ==
  /\ gui = "rebuild_fb" /\ FbMutexFree
  /\ fb_mutex' = "gui"
  /\ gui' = "disconnect"
  /\ UNCHANGED <<emu, locals, hardware, picture, flags, emu_mutex, input,
                 fb_new_frame, system, user_paused>>

RebuildDisconnect ==
  /\ gui = "disconnect"
  /\ Disconnect
  /\ last_frame' = Freed(last_frame)
  /\ snapshot' = Freed(snapshot)
  /\ active_type' = new_type
  /\ gui' = "connect"
  /\ UNCHANGED <<emu, locals, hardware, bound, flags, locks, input,
                 fb_new_frame, system, user_paused>>

(* The new decoder has no snapshot; the port is the one that is active now, *)
(* the type it is cast to the one that was active before the locks.         *)
RebuildConnect ==
  /\ gui = "connect"
  /\ snapshot' = None
  /\ pipeline' = [port |-> ActivePort, type |-> new_type]
  /\ target' = [target EXCEPT ![ActivePort] = "pipeline"]
  /\ UNCHANGED <<active_type, hardware>>
  /\ Rebind
  /\ fb_new_frame' = FALSE
  /\ paused' = (paused /\ ~was_running)
  /\ emu_mutex' = None /\ fb_mutex' = None
  /\ gui' = "dialogs"
  /\ LocalsDone
  /\ UNCHANGED <<emu, emu_thread_running, running, input, system, user_paused>>

------------------------------------------------------------------------------
(* GUI thread: dialogs, screen, menu *)

(* A dialog asks for a file, a disk or another system, or for nothing. *)
Dialogs ==
  /\ gui = "dialogs"
  /\ \/ gui' = "screen" /\ UNCHANGED call
     \/ gui' \in {"attach", "load_stop"} /\ system /\ call' = "load"
     \/ gui' = "stop" /\ call' = "switch"
  /\ UNCHANGED <<emu, was_running, new_type, hardware, picture, flags, locks,
                 input, fb_new_frame, system, user_paused>>

(* A disk or tape is attached under emu_mutex_ in a machine that runs on;  *)
(* if no device takes it, it is loaded as a file.                          *)
AttachMedia ==
  /\ gui = "attach" /\ emu_mutex = None
  /\ \/ gui' = "screen" /\ LocalsDone
     \/ gui' = "load_stop" /\ UNCHANGED locals
  /\ UNCHANGED <<emu, hardware, picture, flags, locks, input,
                 fb_new_frame, system, user_paused>>

LoadSelectedFile ==
  /\ gui = "load_stop"
  /\ was_running' = (running /\ ~paused)
  /\ gui' = "stop"
  /\ UNCHANGED <<emu, call, new_type, hardware, picture, flags, locks, input,
                 fb_new_frame, system, user_paused>>

TakeNotice ==
  /\ gui = "screen"
  /\ gui' = IF system /\ fb_new_frame THEN "upload" ELSE "menu"
  /\ fb_new_frame' = (fb_new_frame /\ ~system)
  /\ UNCHANGED <<emu, locals, hardware, picture, flags, locks, input, system,
                 user_paused>>

UploadLock ==
  /\ gui = "upload" /\ fb_mutex = None
  /\ fb_mutex' = "gui"
  /\ gui' = "uploading"
  /\ UNCHANGED <<emu, locals, hardware, picture, flags, emu_mutex, input,
                 fb_new_frame, system, user_paused>>

Upload ==
  /\ gui = "uploading"
  /\ snapshot' = None
  /\ fb_mutex' = None
  /\ gui' = "menu"
  /\ UNCHANGED <<emu, locals, hardware, bound, last_frame, target, active_type,
                 pipeline, flags, emu_mutex, input, fb_new_frame, system,
                 user_paused>>

(* The menu's items that only set a flag. *)
MenuPauseOrResume ==
  /\ gui = "menu" /\ system
  /\ IF running /\ ~paused
       THEN paused' = TRUE /\ UNCHANGED running
       ELSE running' = TRUE /\ paused' = FALSE
  /\ user_paused' = paused'
  /\ gui' = "events"
  /\ UNCHANGED <<emu, locals, hardware, picture, emu_thread_running, locks,
                 input, fb_new_frame, system>>

MenuToggle4080 ==
  /\ gui = "menu" /\ system
  /\ key_80' = ~key_80
  /\ gui' = "events"
  /\ UNCHANGED <<emu, locals, c64_mode, c64_requested, picture, flags, locks,
                 input, fb_new_frame, system, user_paused>>

MenuEnterC64Mode ==
  /\ gui = "menu" /\ system /\ ~c64_mode
  /\ c64_requested' = TRUE
  /\ gui' = "events"
  /\ UNCHANGED <<emu, locals, key_80, c64_mode, picture, flags, locks, input,
                 fb_new_frame, system, user_paused>>

MenuReset ==
  /\ gui = "menu" /\ system
  /\ gui' = "stop" /\ call' = "reset"
  /\ UNCHANGED <<emu, was_running, new_type, hardware, picture, flags, locks,
                 input, fb_new_frame, system, user_paused>>

(* Single Step, or nothing at all. *)
MenuStepOrNothing ==
  /\ gui = "menu"
  /\ \/ gui' = "step_emu" /\ system /\ paused
     \/ gui' = "events"
  /\ UNCHANGED <<emu, locals, hardware, picture, flags, locks, input,
                 fb_new_frame, system, user_paused>>

(* The tick itself is DisplayPipeline's business. *)
StepLockEmu ==
  /\ gui = "step_emu" /\ emu_mutex = None
  /\ emu_mutex' = "gui"
  /\ gui' = "step_fb"
  /\ UNCHANGED <<emu, locals, hardware, picture, flags, fb_mutex, input,
                 fb_new_frame, system, user_paused>>

StepUnderFb ==
  /\ gui = "step_fb" /\ fb_mutex = None
  /\ emu_mutex' = None
  /\ gui' = "events"
  /\ UNCHANGED <<emu, locals, hardware, picture, flags, fb_mutex, input,
                 fb_new_frame, system, user_paused>>

------------------------------------------------------------------------------
(* GUI thread: stop, do it, start *)

(* The flag, and not whether there is a thread, decides about the join. *)
JoinedUnlessPaused == emu_thread_running /\ ~paused
NeedsJoin == emu_thread_running

StopEmuThread ==
  /\ gui = "stop"
  /\ emu_thread_running' = FALSE
  /\ gui' = IF NeedsJoin THEN "join" ELSE call
  /\ UNCHANGED <<emu, locals, hardware, picture, running, paused, locks, input,
                 fb_new_frame, system, user_paused>>

JoinEmuThread ==
  /\ gui = "join" /\ emu = "returned"
  /\ emu' = "none"
  /\ gui' = call
  /\ UNCHANGED <<locals, hardware, picture, flags, locks, input, fb_new_frame,
                 system, user_paused>>

Run == running' = TRUE /\ paused' = FALSE /\ user_paused' = FALSE

ResetSystem ==
  /\ gui = "reset"
  /\ SystemReset
  /\ Run
  /\ gui' = "start"
  /\ UNCHANGED <<emu, locals, emu_thread_running, locks, input, fb_new_frame,
                 system>>

LoadFile ==
  /\ gui = "load"
  /\ SystemReset
  /\ \/ Run
     \/ IF was_running THEN Run ELSE UNCHANGED <<running, paused, user_paused>>
  /\ gui' = "start"
  /\ UNCHANGED <<emu, locals, emu_thread_running, locks, input, fb_new_frame,
                 system>>

(* teardown_current_system: the ports go with the system, the decoder with *)
(* the framebuffer.                                                        *)
Teardown ==
  /\ gui = "switch"
  /\ Disconnect
  /\ snapshot' = None /\ last_frame' = None
  /\ system' = FALSE
  /\ running' = FALSE /\ paused' = FALSE /\ user_paused' = FALSE
  /\ gui' = "create"
  /\ UNCHANGED <<emu, locals, hardware, bound, active_type, emu_thread_running,
                 locks, input, fb_new_frame>>

(* create_system_by_name and initialize may fail: no system, no thread. *)
CreateFails ==
  /\ gui = "create"
  /\ gui' = "screen"
  /\ LocalsDone
  /\ UNCHANGED <<emu, hardware, picture, flags, locks, input,
                 fb_new_frame, system, user_paused>>

Create ==
  /\ gui = "create"
  /\ system' = TRUE
  /\ key_80' = TRUE /\ c64_mode' = FALSE /\ c64_requested' = FALSE
  /\ NewSystemOn(ActivePort')
  /\ Run
  /\ gui' = "start"
  /\ UNCHANGED <<emu, locals, emu_thread_running, locks, input, fb_new_frame>>

StartEmuThread ==
  /\ gui = "start"
  /\ emu_thread_running' = TRUE
  /\ emu' = IF emu_thread_running THEN emu ELSE "check"
  /\ gui' = IF call = "reset" THEN "events" ELSE "screen"
  /\ LocalsDone
  /\ UNCHANGED <<hardware, picture, running, paused, locks, input,
                 fb_new_frame, system, user_paused>>

------------------------------------------------------------------------------
(* Emulation thread *)

MayRun == running /\ ~paused /\ system

(* When it may not run it sleeps and looks again. *)
GoesOn == ~emu_thread_running \/ MayRun

EmuCheck ==
  /\ emu = "check" /\ GoesOn
  /\ emu' = IF emu_thread_running THEN "drain" ELSE "returned"
  /\ UNCHANGED <<gui, locals, hardware, picture, flags, locks, input,
                 fb_new_frame, system, user_paused>>

(* events is cleared and swapped with the queue. *)
BatchNotCleared == events \o input_queue
Batch == input_queue

EmuDrainInput ==
  /\ emu = "drain"
  /\ events' = Batch
  /\ input_queue' = <<>>
  /\ emu' = "lock"
  /\ UNCHANGED <<gui, locals, hardware, picture, flags, locks, pushed,
                 delivered, fb_new_frame, system, user_paused>>

EmuLock ==
  /\ emu = "lock" /\ emu_mutex = None
  /\ emu_mutex' = "emu"
  /\ emu' = "frame"
  /\ UNCHANGED <<gui, locals, hardware, picture, flags, fb_mutex, input,
                 fb_new_frame, system, user_paused>>

DeliverEvents ==
  /\ UNCHANGED events
  /\ delivered' = IF events = <<>> THEN delivered
                  ELSE (events[Len(events)] + 1) % Numbers

(* Not a frame's time has passed yet: only the events are processed. *)
EmuNoFrame ==
  /\ emu = "frame"
  /\ DeliverEvents
  /\ emu_mutex' = None
  /\ emu' = "check"
  /\ UNCHANGED <<gui, locals, hardware, picture, flags, fb_mutex, input_queue,
                 pushed, fb_new_frame, system, user_paused>>

(* run_frame serves the request for C64 mode first, and the bound port     *)
(* describes its frame in last_frame_data_ unless it is warping.           *)
EmuRunFrames ==
  /\ emu = "frame"
  /\ DeliverEvents
  /\ c64_requested' = FALSE
  /\ c64_mode' = (c64_mode \/ c64_requested)
  /\ key_80' = (key_80 /\ (c64_mode \/ ~c64_requested))
  /\ last_frame' \in {last_frame, target[bound]}
  /\ emu_mutex' = None
  /\ emu' \in {"check", "snapshot"}
  /\ UNCHANGED <<gui, locals, bound, target, active_type, pipeline, snapshot,
                 flags, fb_mutex, input_queue, pushed, fb_new_frame, system,
                 user_paused>>

EmuLockFb ==
  /\ emu = "snapshot" /\ fb_mutex = None
  /\ fb_mutex' = "emu"
  /\ emu' = "copy"
  /\ UNCHANGED <<gui, locals, hardware, picture, flags, emu_mutex, input,
                 fb_new_frame, system, user_paused>>

EmuSnapshot ==
  /\ emu = "copy"
  /\ snapshot' = IF last_frame # None THEN last_frame ELSE snapshot
  /\ fb_new_frame' = (fb_new_frame \/ snapshot' # None)
  /\ fb_mutex' = None
  /\ emu' = "check"
  /\ UNCHANGED <<gui, locals, hardware, bound, last_frame, target, active_type,
                 pipeline, flags, emu_mutex, input, system, user_paused>>

------------------------------------------------------------------------------
Rebuild == \/ CheckSignalType \/ RebuildLockEmu \/ RebuildLockFb
           \/ RebuildDisconnect \/ RebuildConnect

Menu == \/ MenuPauseOrResume \/ MenuToggle4080 \/ MenuEnterC64Mode
        \/ MenuReset \/ MenuStepOrNothing \/ StepLockEmu \/ StepUnderFb

StopAndStart == \/ LoadSelectedFile \/ StopEmuThread \/ JoinEmuThread \/ ResetSystem \/ LoadFile
                \/ Teardown \/ CreateFails \/ Create \/ StartEmuThread

Gui == \/ PushEvent \/ Rebuild \/ Dialogs \/ AttachMedia \/ TakeNotice
       \/ UploadLock \/ Upload \/ Menu \/ StopAndStart

Emu == \/ EmuCheck \/ EmuDrainInput \/ EmuLock \/ EmuNoFrame \/ EmuRunFrames
       \/ EmuLockFb \/ EmuSnapshot

Next == Gui \/ Emu

Spec == Init /\ [][Next]_vars

(* Threads are scheduled; nothing is assumed about who gets a mutex.  The   *)
(* user is not obliged to do anything: only calls in progress are fair.     *)
FairSpec == Spec /\ WF_vars(Emu) /\ WF_vars(Rebuild) /\ WF_vars(StopAndStart)

------------------------------------------------------------------------------
TypeOK ==
  /\ gui \in {"events", "rebuild_emu", "rebuild_fb", "disconnect", "connect",
              "dialogs", "attach", "load_stop", "screen", "upload", "uploading",
              "menu", "step_emu", "step_fb", "stop", "join", "reset", "load",
              "switch", "create", "start"}
  /\ call \in {None, "reset", "load", "switch"}
  /\ was_running \in BOOLEAN /\ new_type \in Types \cup {None}
  /\ emu \in {"none", "check", "drain", "lock", "frame", "snapshot", "copy",
              "returned"}
  /\ emu_mutex \in {None, "gui", "emu"} /\ fb_mutex \in {None, "gui", "emu"}
  /\ emu_thread_running \in BOOLEAN /\ running \in BOOLEAN /\ paused \in BOOLEAN
  /\ fb_new_frame \in BOOLEAN /\ system \in BOOLEAN
  /\ key_80 \in BOOLEAN /\ c64_mode \in BOOLEAN /\ c64_requested \in BOOLEAN
  /\ bound \in Ports /\ last_frame \in Memory
  /\ target \in [Ports -> Memory]
  /\ active_type \in Types
  /\ pipeline \in [port : Ports, type : Types] \cup {NotConnected}
  /\ snapshot \in Memory
  /\ input_queue \in Seq(0 .. Numbers - 1) /\ events \in Seq(0 .. Numbers - 1)
  /\ Len(input_queue) \in 0 .. QueueBound /\ Len(events) \in 0 .. QueueBound
  /\ pushed \in 0 .. Numbers - 1 /\ delivered \in 0 .. Numbers - 1
  /\ user_paused \in BOOLEAN

(* While the GUI thread resets, loads into, destroys or creates a system   *)
(* there is no emulation thread: system_, its ports and the pipeline are   *)
(* touched without a lock there (reset_emulation, load_selected_file,      *)
(* switch_system between stop_emu_thread and start_emu_thread).            *)
SystemUsedExclusively ==
  gui \in {"reset", "load", "switch", "create", "start"} => emu = "none"

(* Nobody reads or writes the buffers of a freed pipeline, although the    *)
(* ports, last_frame_data_ and the decoder's snapshot all point into them  *)
(* and the rebuild happens in a running program: no chip draws there, no   *)
(* snapshot is taken of them and none is uploaded (rebuild_signal_pipeline,*)
(* the snapshot under fb_mutex_, render_screen).                           *)
NoFreedMemory ==
  /\ emu = "frame" => \A p \in Ports : target[p] # "freed"
  /\ emu = "copy" => last_frame # "freed"
  /\ gui = "uploading" => snapshot # "freed"

(* Key presses reach a machine in the order they were made, each once:     *)
(* what waits in the batch and in the queue are exactly the events after   *)
(* the last delivered one, through pauses, rebuilds, resets and switches   *)
(* (emu_thread_func's swap of input_queue_).                               *)
Pending == (IF emu \in {"lock", "frame"} THEN events ELSE <<>>) \o input_queue

EventsInOrder ==
  /\ \A i \in 1 .. Len(Pending) : Pending[i] = (delivered + i - 1) % Numbers
  /\ pushed = (delivered + Len(Pending)) % Numbers

(* The GUI thread is never left waiting.  A rebuild gets both mutexes and  *)
(* ends, because it pauses the emulation first: an emulation thread that   *)
(* goes on running frames could keep emu_mutex_ from a mutex that promises *)
(* no fairness.  A reset, a load or a switch ends: the emulation thread    *)
(* sees its flag wherever it is, between the two mutexes and while paused. *)
GuiComesBack ==
  /\ gui = "rebuild_emu" ~> gui = "dialogs"
  /\ gui = "stop" ~> gui \in {"events", "screen"}

(* Once the user has paused the machine it stays paused until the user     *)
(* resumes, resets, loads or switches: a rebuild "pauses emulation         *)
(* briefly" and must leave it as it found it (rebuild_signal_pipeline).    *)
PauseIsKept == user_paused => paused

==============================================================================
