# cermu in TLA+

cermu is a multi-system emulator in C++: home computers, consoles and arcade
boards built from shared chip models, run by an emulation thread and
shown by an ImGui front end. This directory holds a formal model of its core:
TLA+ modules translated from the C++ source, TLC configurations that check them
on small instances, and TLAPS proofs for every size. `PROJECT.json` maps each
definition to the lines it models and lists runs, hazards, findings and theorems.

Paths below are relative to the repository's `src/` directory (`core/`, `gui/`,
`utils/`, `chip/`, `systems/`).

| file | what it is |
|---|---|
| `FrameMailbox.tla` | abstract specification of the display path |
| `DisplayPipeline.tla` | the display path: video port, rotating slots, emulation thread, GUI thread |
| `DisplayPipelineProofs.tla` | its theorems |
| `AudioThread.tla` | sound synthesis on its own thread: command queue, thread, adapter, system |
| `AudioThreadProofs.tla` | its theorems |
| `AudioPath.tla`, `MCAudioPath.tla` | a sample's way from the chip to the loudspeaker: port ring, emulation thread, output ring, SDL callback |
| `AudioPathProofs.tla` | its theorems |
| `SessionHost.tla` | the session: GUI and emulation thread, both mutexes, flags, input queue, pipeline rebuild, system switch |
| `SessionHostProofs.tla` | its theorems |
| `CatalogPipeline.tla`, `MCCatalog.tla` | the ROM catalogue: scan, probing threads, table, archive cache, quitting and dying |
| `CatalogPipelineProofs.tla` | its theorems |
| `Via6522.tla` | the 6522 VIA: operators from chip state to chip state |
| `DriveMechanics.tla` | the mechanics of the 1541: stepper, bit clock, sync marks, bytes |
| `Drive1541.tla`, `MCDrive1541.tla` | both of them composed with the serial bus, the machine at its other end and the warp controller |
| `Drive1541Proofs.tla` | their theorems |
| `Cia6526.tla`, `MCCia6526.tla` | the 6526 CIA: timers, interrupt control register, time of day |
| `Cia6526Proofs.tla` | its theorems |
| `Fam65xx.tla` | how a 6502 notices interrupts: operators from CPU state to CPU state |
| `NesMachine.tla` | it composed with the NES's vertical blank, DMA and mapper interrupt |
| `NesMachineProofs.tla` | their theorems |
| `MC*.cfg` | one configuration per run, named after the module and the question |

To run: `tlc -config MCDisplayPipeline.cfg DisplayPipeline`,
`tlc -config MCDrive1541.cfg MCDrive1541` and so on; `tlapm
DisplayPipelineProofs.tla` and likewise for the other `…Proofs.tla`. Where the constants are
plain numbers and Booleans a `.cfg` instantiates the module itself; where they are
functions or sets of records an `MC` module defines them. Definitions just before
the one they vary, which nothing else uses (`JoinedUnlessPaused` before
`NeedsJoin`), are plausible bugs: a forgotten join, an index that does not wrap, a
claim not made. `PROJECT.json` says which definition each one replaces and which
property then fails, so that every property is known to be sensitive to the code.

## 1. The system

### Threads and what they share

- **GUI thread** (`gui/session_gui.cpp`): menus, file loading, system switching,
  reset, single step, texture upload.
- **Emulation thread** (`SessionGUI::emu_thread_func`): batches of `run_frame`
  under `emu_mutex_`; then fetches samples and publishes a snapshot under
  `fb_mutex_`, with `emu_mutex_` released.
- **Audio threads** (`core/audio_thread.cpp`): one per system with write-only
  sound chips; no mutex except the one its condition variable needs.
- **SDL's callback thread** (`gui/emulator_host.cpp`): reads the output ring.
- **Catalogue threads** (`gui/catalog/catalog_pipeline.hpp`): one that scans, and a
  pool that probes files with it.

Inside the machine there are no threads: chips, bus and drive are ticked in a
fixed order once a cycle. What is hard there is the order within the cycle.

Shared state: the machine (`emu_mutex_`), the decoder with its snapshot and the
display pipeline's claim (`fb_mutex_`), the input queue (`input_mutex_`), three
lock-free rings (`AudioCommandQueue`, `AudioRing`, `RingBuffer`), and single
atomics (`fb_new_frame_`, `emulation_paused_`, `emulation_running_`,
`target_cycle_`). Lock order is `emu_mutex_`, then `fb_mutex_`.

### Inventory

"Correct when" is the property a model of the component should state; the last
column is where it stands.

| component | state | operations | interacts with | hard behaviour | correct when | model |
|---|---|---|---|---|---|---|
| Display path | three slots and their roles, completed base, snapshot, notice flag | drive, FrameEnd callback, `swap_frame`, `claim`, `snapshot`, `upload_snapshot`, `release` | chip → port → pipeline → decoder; two threads, `fb_mutex_` | zero-copy reads during drawing; warp changes; frames that do not end | the picture is one whole frame; no reader's slot is written; newest frame wins | **DisplayPipeline** |
| Audio synthesis thread | command ring, target and processed cycle, chip cycle | `push`, `drain_until`, `clear`, `signal_progress`, `start`, `stop`, `process_until`, `reset` | emulation thread ↔ audio thread, atomics only | lost wake-ups, full queue, index wrap, reset while running | sound is independent of scheduling; no write lost or reordered unnoticed; `stop` returns | **AudioThread** |
| Audio sample path | two rings, suppression, batch | `push_unchecked`, `pop`, `write`, `read`, `reset` | chip or audio thread → emulation thread → SDL | unchecked producer; rates; warp; restart under an open device | producer laps the reader only after a surplus or a delay; samples in order | **AudioPath** |
| Session lifecycle and locks | running/paused flags, current system, input queue | start, stop, pause, step, reset, load, switch, rebuild | every thread | lock nesting, joins, input around a switch | no thread waits for ever; events reach the machine they were meant for | **SessionHost** |
| Signal type switching | active port and signal type (C128) | `rebuild_signal_pipeline` | GUI ↔ emulation thread | type read unlocked, pointer read locked; failed decoder | decoder, pipeline and port always belong together | **SessionHost** |
| Warp control, IEC drives | cooldown, wired-AND lines, drive clocks | `WarpController::update`, bus edges | computer ↔ drive ↔ VIA | unsigned cycle differences; edge against access in one cycle | no ATN edge is lost; warp ends | **Drive1541** |
| 6522 VIA | timers, IFR/IER, edges | register access, tick | CPU, bus | IRQ line against IFR; one-shot timer after wrap | IRQ asserted exactly when an enabled flag is set | **Via6522**, **Drive1541** |
| 6526 CIA | timer pipeline, ICR, TOD | register access, tick | CPU, bus | read-to-clear against a new event | no event is lost by an ICR read | **Cia6526** |
| Other I/O chips (8255, PIO, CTC, PIA…) | ports, daisy chain | register access, tick | CPU | interrupt acknowledge order | one acknowledge per request | later |
| Memory bus | page tables, sub tables, chip selects | map, read, write | CPU, chips | overlapping regions | table decode equals the region list | planned |
| 65xx CPUs | registers, interrupt pipeline | tick | bus, interrupt lines | edges during other sequences, branches that do not poll | no edge is lost, no interrupt waits for ever; arithmetic is tested by the repository's vectors | **Fam65xx**, **NesMachine** |
| Z80, 6809, 68000 | same | same | bus | same | same | not planned |
| Video chips | raster state | tick | video port | mid-line writes; status read against the vertical blank | a vertical blank is reported once; what they promise the port is assumed by DisplayPipeline | **NesMachine** (NES PPU's flag and NMI) |
| Sound chips | oscillators, filters | tick, write | audio port | numeric | signal processing, out of scope | not planned |
| Floppy and tape | command state machine, head | register access, tick | CPU, image | lost data, index pulses | every command ends | **DriveMechanics** (1541); the WD1772 is a stub |
| NES mappers | banks, IRQ counters | write, A12 edges | PPU, CPU | A12 filter, reload order | one IRQ per reload value of lines | acknowledge in **NesMachine**, counter planned |
| Systems | memory map, chips | `run_frame`, `reset` | all of the above | reset order between threads | the parts' cycle counters agree | in part |
| ROM catalogue | work index, cancel flag, progress | scan, cancel, destroy | workers ↔ GUI | cancel against last file | each file scanned once; destruction waits | **CatalogPipeline** |
| VFS cache | archive map | open, evict | GUI and emulation thread | two critical sections | one entry per archive, none used after eviction | in **CatalogPipeline** |
| File formats, peripherals, UI and shaders, configuration, test harnesses | – | – | – | sequential, or drawing | unit tests | not planned |

The list of hazards, each at its line with the properties that guard it, is in
`PROJECT.json`; those without a property say why.

## 2. The display path: `FrameMailbox`, `DisplayPipeline`

### State and actions against the code

| model | code |
|---|---|
| `write_idx`, `ready_idx`, `display_idx` | `DisplayPipeline`'s three slot roles (`gui/display_pipeline.hpp`) |
| `slots[s]` | the samples and the sync list of slot `s`, reduced to the number of the frame they belong to: `top` and `bottom` half, and the set of frames whose sync events are in the list |
| `completed`, `completed_sync` | `completed_base` of `VideoOut`, `completed_sync_` of `VideoPort` |
| `warping` | which of `cold_path` / `warp_cold_path` is installed |
| `last_frame`, `snapshot_fd` | `System::last_frame_data_`, the decoder's copy of it: pointers, hence slots |
| `DriveTop`, `DriveFrameEnd`, `DriveFrameEndWarping` | `VideoOut::drive` and the handler of a FrameEnd sample, with the `on_frame_end` callback it makes |
| `EmuCheckRunning` … `EmuSnapshot` | `emu_thread_func`, cut where a lock is taken or released |
| `RunFrame`, `EmuTick`, `SwapFrame` | `run_frame` of a system: announce warp, tick until `frame_ended()`, `swap_frame()` |
| `GuiTakeNotice` … `GuiRelease` | `render_screen`: exchange of the flag, lock, `upload_snapshot` (three reads of the slot), `release`, unlock |
| `GuiStep`, `GuiTogglePause` | `step_emulation` and the Pause and Resume menu items |

Drawing takes two steps and the upload three, so a tear is a state: the GUI can
read the upper half of a slot, the chip can draw into it, the GUI reads the
rest. `fb_mutex_` is held by `gui` in certain control states; the emulation
thread does *not* take it while drawing, exactly as in the code. Single step,
the only other user of `emu_mutex_` in this module, is atomic because it holds
the mutex throughout.

Warp is an input: the model lets `is_warping()` answer anything at each call.
`MayGiveUp` stands for systems whose `run_frame` can end without a FrameEnd (the
Atari 2600's cycle limit), `MayStep` for a user who single steps.

### What it promises

`FrameMailbox` is the abstract specification: frames are numbered, completed,
put in a box that holds one and overwrites, and taken out to be shown; a frame
in the box does not stay there. Under the mapping `done` = frame in the READY
slot, `box` = frame the snapshot points to, `shown` = frame of the texture,
`DisplayPipeline` implements it (`ImplementsMailbox`), liveness included.

| property | what would break it |
|---|---|
| `SlotRolesDisjoint` | a fourth role, or `find_free_slot` falling through to its "should never happen" slot 0 |
| `ClaimCoversSnapshot` | `claim()` going by `ready_idx_` while `snapshot()` goes by `last_frame_data_`, and the two disagreeing |
| `WholePicture` | a tear, a scratch region of warp mode in the picture, sync events of another frame |
| `NoStrandedFrame` | a snapshot taken between the flag's exchange and the lock, and never uploaded |
| `ImplementsMailbox` | an old frame shown after a newer one; a handed-over frame never shown |

### Runs

- `display` – the invariants but `NoStrandedFrame` and the refinement for systems that wait for
  FrameEnd and a user who does not step. `MaxFrames = 4`: three slots are all
  used and the first is reused, so every role change, and a reuse while another
  is claimed, happens; a fifth frame repeats the roles of the second.
- `display_any` – `NoStrandedFrame` for the same machine with `MayGiveUp` and
  `MayStep`: the announcement of snapshots depends on neither. Three frames are
  enough to rotate once. The other properties do depend on them (section 10).

Fairness: `WF_vars(GuiUpload)`, because the GUI loop keeps calling
`render_screen`. Nothing is assumed of the emulation thread, which may be
paused or stopped; that is enough, since the GUI alone empties the box and the
emulation thread never holds `fb_mutex_` across two steps.
Deadlock checking is off: after `MaxFrames` frames a behaviour may end.

## 3. Sound synthesis: `AudioThread`

| model | code |
|---|---|
| `buf`, `write`, `read` | `AudioCommandQueue` (`utils/audio_cmd_queue.hpp`); the indices run freely modulo `Word` (2^32 in the code) |
| `PushDropped`, `PushFill`, `PushPublish` | `push`: the full test, the slot, the release store |
| `SignalStore`, `SignalNotify` | `AudioThread::signal_progress`: the store and the `notify_one` without the mutex are two steps |
| `AudioLoop` … `AudioProcessed` | `thread_func` with `wait_for`, `process_until`, `drain_until` and `advance_to` inlined at the grain of one shared access or one chip tick |
| `StopStore`, `StopNotify`, `StopJoin`, `ResetEngine`, `Start` | the order used by the systems' `reset()`: stop, adapter reset (`clear`), start |
| `current_cycle`, `applied`, `heard` | the adapter's cycle counter; how many commands the chip has been given; and the history of that number at each chip tick |

A write is identified by the order in which it was accepted; a chip's sound in a
tick depends on which writes precede it, so `heard` is all the chip's
behaviour that matters here. `wait_for`'s predicate test, its falling asleep and
its being blocked are three places, so `notify_one` can fall between the test
and the block and be lost.

| property | what it says |
|---|---|
| `HeardOnTime` | whatever the schedule of the two threads, each chip tick is given exactly the writes stamped before its end, in order and across index wraps: the synthesis is a function of the write log |
| `LossNeedsLagOrBurst` | a write is only dropped when the thread is behind the last signal or one frame holds more writes than the ring |
| `ResetWhileQuiescent` | the ring is cleared and the chip reset only after the thread has left |
| `SynthesisWithinEmulatedTime` | the chip never sounds for longer than the machine has run since its reset |
| `SignalIsHeard` | a signalled target is synthesised although its wake-up may be lost |
| `StopReturns` | `stop()` returns |

Run: `audio_thread` has a ring of two usable slots (`Cap = 3`), `Word = 3` so that
the indices wrap at every lap (the tightest width), a chip at half the CPU clock
(`Div = 2`, so a write can fall inside a tick), up to five writes in three cycles
– hence several per cycle, a full ring, and more than one lap – and one stop that
ends in a reset or a shutdown at any moment. 458,000 states. `ResetsCycles` says
that a system's `reset()` sets its cycle counter back; section 10 has the systems that
do not.

Fairness: `WF_vars(AudioStep)` – the thread is scheduled and `wait_for` times out
after 5 ms; `WF_vars(EmuCall)` – the emulation thread leaves a call it has
entered. It need not make another call, and no spurious wake-up is relied
on. `SignalIsHeard` fails at once if `wait_for` is replaced by `wait` (its
mutant): the time-out is load-bearing.

## 4. From the chip to the loudspeaker: `AudioPath`

| model | code |
|---|---|
| `port_buf`, `port_write`, `port_read` | `AudioRing` (`core/signal/audio_port.hpp`) |
| `PushStore`, `PushPublish`, `DriveSuppressed` | `drive_sample`, `push_unchecked`: no look at the reader |
| `EmuBegin`, `RunFrame`, `EndBatch` | an iteration of `emu_thread_func`: the warp test before the lock, up to `MaxBatch` frames (or a warp batch), the number of samples to fetch |
| `PopLoad`, `PopCopy`, `PopStore` | `AudioRing::pop`, one sample a step |
| `RingWriteLoad/Copy/Store`, `CallbackLoad/Copy/Store` | `RingBuffer::write`, `RingBuffer::read` in `sdl_audio_callback` |
| `StartEmuThread`, `ResetRead`, `ResetWrite`, `StopEmuThread` | `start_emu_thread` with `audio_ring_->reset()`, `stop_emu_thread` |

Samples are numbered as they are made and carry no value: decimation and speaker
simulation do not change their order. `due` is the synthesis still owed for
frames already run: a chip without a thread of its own has paid it when `run_frame`
returns, one on an audio thread is as late as the scheduler makes it.

Nothing in the code keeps the unchecked producer from running over the reader, or a
restart from moving the output ring's indices under the callback. Both happen in the
model as they do in the code, and history variables tell when:

| history | meaning |
|---|---|
| `lapped` | `push_unchecked` has stored over a sample nobody had taken |
| `torn` | a restart has moved an index under a callback that was at work, or the callback has looked between the two stores of `reset()` and taken what was there before for new samples |
| `surplus` | the samples made beyond those asked for since: more in a frame than the session takes, or made without being suppressed in a warp batch, which asks for none |
| `late` | the most samples still owed when the emulation thread came for its share |

| property | what it says |
|---|---|
| `HeardInOrder` | until one of those two happens, SDL is given samples in increasing order: nothing twice, nothing stale, no unwritten slot, through any number of starts and stops |
| `OverrunIsExplained` | the producer laps only if surplus and lateness together exceed what the port has beside a full batch (`PortCap - MaxBatch * Requested`): batches, partial pops and the split copy do not add up to an overrun by themselves. Broken by a batch that asks for one frame's samples only |

`Machines` lists the kinds of machine, one of which runs: how many samples its chip may make in
a frame, whether it has a thread of its own, whether `is_warping()` may hold, and whether
`run_frame` then suppresses samples. A warp may begin or end between any two frames, in the
middle of a batch too.

Run: `audio_path`, 12.9 million states, over three machines of `MCAudioPath`: one whose
chip has a thread, which may be late by everything it has to make up to
`MaxLag = 2` when the next frame starts; one that warps, for batches of up to four frames, and suppresses meanwhile (the C64);
and one that warps without suppressing and makes one sample or two where one is asked
for (the VIC-20 and the NES). A callback of two samples and an output
ring of two usable slots make that ring full, empty and wrap; `PortCap = 2` and
`Word = 6` wrap within the seven samples of `MaxSamples`, and a batch of two frames fills the port. Each of the three machines
reaches both `lapped` and `torn` (section 10), and the properties hold all the way there.
`MaxLag` bounds behaviours, like `MaxSamples`; no theorem depends on it. There is no
liveness property here: starving the loudspeaker is legal.

## 5. The session: `SessionHost`

| model | code (`gui/session_gui.cpp`) |
|---|---|
| `gui` | where the GUI thread is in a frame of its loop: events, signal check and rebuild, dialogs, screen, menu, or in a call that stops the emulation thread |
| `call`, `was_running`, `new_type` | why it stops the thread, and the locals of `rebuild_signal_pipeline` and `load_selected_file` |
| `emu`, `events` | where `emu_thread_func` is, and the batch it took from `input_queue_` |
| `emu_mutex`, `fb_mutex` | who holds them; `input_mutex_` guards one statement on each side and is part of it |
| `emu_thread_running`, `running`, `paused`, `fb_new_frame` | the atomics |
| `key_80`, `c64_mode`, `c64_requested`, `ActivePort`, `SignalType` | the C128, whose 40/80 key and C64 mode select one of two video ports of different types (`systems/commodore/c128/c128_system.cpp`) |
| `bound`, `last_frame`, `target`, `pipeline`, `active_type`, `snapshot` | which port feeds `last_frame_data_`, and whose memory each pointer points into: the connected pipeline's, a freed pipeline's, or a port's own |
| `CheckSignalType`, `RebuildLockEmu`, `RebuildLockFb`, `RebuildDisconnect`, `RebuildConnect` | `rebuild_signal_pipeline` |
| `Dialogs`, `AttachMedia`, `LoadSelectedFile`, `LoadFile`, `Teardown`, `Create`, `CreateFails`, `ResetSystem` | file loading, `switch_system`, `reset_emulation` |
| `StopEmuThread`, `JoinEmuThread`, `StartEmuThread` | `gui/emulator_host.cpp` |
| `TakeNotice`, `UploadLock`, `Upload` | `render_screen` |
| `Menu…`, `StepLockEmu`, `StepUnderFb` | the menu, `step_emulation` |
| `EmuCheck` … `EmuSnapshot` | `emu_thread_func`, cut where a lock is taken or released |

`DisplayPipeline` refines the part in which the pipeline stays connected; here it
comes and goes, and what matters is not which slot a pointer names but whether it
still points anywhere. `pushed`, `delivered` and `user_paused` are history.

| property | what it says, and what would break it |
|---|---|
| `SystemUsedExclusively` | no emulation thread exists while the GUI thread resets, loads into, destroys or creates a system without a lock: a stop that skips the join |
| `NoFreedMemory` | no chip draws into, no snapshot is taken of and none is uploaded from the buffers of a freed pipeline: a pointer not cleared, or the rebuild without one of its locks |
| `EventsInOrder` | key presses reach a machine in order and once: a batch not cleared before the swap |
| `GuiComesBack` | every stop ends, wherever the emulation thread is; a rebuild gets both mutexes and ends, and that only because it pauses first: without, the emulation thread may keep `emu_mutex_` for ever, since a mutex promises no fairness |

Run: `session`, 996,000 states, deadlock checked. `QueueBound = 2` makes batches and a
queue behind them, `Numbers = 5` identifies events without ambiguity (twice the
bound, plus one). The user may do anything that the menu allows at any time, and
nothing bounds how often. `session_pause` is a finding.

Fairness: `WF` on the emulation thread, on the steps of a rebuild and on those of a
stop: threads that can run do run. The user is obliged to nothing, and no fairness
of a mutex is assumed: a lock that is taken and released again and again need
never be granted.

## 6. The catalogue: `CatalogPipeline`

| model | code |
|---|---|
| `disk` | the containers: for each the modification times, in whole seconds, of the versions of its contents so far; empty before it exists |
| `db` | the SQLite table: modification time and group number of a row, and the version of the data it was made from, once for the probe and once for the fingerprint; `Unread` where the data could not be had |
| `cache` | `ArchiveCache` of `core/vfs/vfs.cpp`: one slot, path and raw data |
| `program` | the process; the table and the files outlive it |
| `worker`, `running`, `cancel`, `phase`, `files_probed`, `files_total`, `iter`, `discovered`, `next_idx` | `run_pipeline` (`gui/catalog/catalog_pipeline.hpp`) and `worker_`, which is joinable until joined |
| `pc`, `item`, `data` | the probing threads |
| `unwritten` | history: the files whose row the table did not take in this scan; `upsert_entry` says so and nobody listens |
| `Readings`, `Ensured` | `vfs_read_file` and `ArchiveCache::ensure`: through the cache, or around it when the archive could not be loaded or the file not extracted |
| `Times`, `Listed` | what discovery may find: a time cut to seconds, or 0 if it cannot be had; an archive's contents, or nothing if it cannot be read |
| `Discover`, `EndDiscovery`, `Take`, `Check`, `Read`, `Fingerprint`, `Store`, `Count`, `EndProbing`, `Group`, `EndGrouping`, `EndPipeline` | the pipeline, one critical section or one shared access a step |
| `Modify`, `Browse`, `FlushCache` | another program; a file browser or loader; a system switch |
| `Start`, `StartAgain`, `Quit`, `QuitJoined`, `Dies`, `Launch` | `start`, `stop`, and the life of the process |

| property | what it says |
|---|---|
| `EachFileOnce` | no file is handed to two threads, and when grouping begins every file is counted and its row has the time that discovery saw, unless the table refused it |
| `PlainFilesCurrent` | a row whose time is the file's, where that time tells the present contents from all earlier ones, was made of the present contents, both times they were read, or without them: if not, `needs_probe` would skip the file for ever. It rests on the time being read before the data. The two cases it leaves out are real (section 10) |
| `GroupsAreTitles` | after a scan that was not cancelled two rows share a group exactly if they share a title, and exactly those without a title have group 0, whatever numbers dead or complete scans left and whatever other rows the table refused |
| `ScansAndQuitsEnd` | a scan ends, and so does quitting, which joins it |

Run: `catalog`, 338,000 states – two probing threads (the pipeline's own and one more), an archive
of three games that appears late, one of them without a title (as `(demo).prg`, of
which `normalize_title` leaves nothing), and a plain file of the same title as another, which
changes once at any moment, to the same second or the next, cannot always be read, and whose row the table
may refuse; the program may be quit, die and be launched
again at any step. More files than threads, an index past the end for each
thread, and a table from an earlier, interrupted scan all occur. The archive does
not change its contents: section 10. Times that cannot be had (`Untimed`) are in the theorems
only. `catalog_rescan` is a finding.

Fairness: `WF` on the pipeline, on each probing thread and on the end of `stop`.
Deadlock is checked; the program can always be launched again.

## 7. The 1541: `Drive1541` on `Via6522` and `DriveMechanics`

| model | code |
|---|---|
| `via` | the two `mos6522_t` (`chip/io/mos6522.cpp`): counters and latches of both timers, ACR modes, IFR with bit 7, IER, port B |
| `Tick`, `T1Ticked`, `T2Ticked` | `mos6522_t::tick` |
| `ReadPortA` … `WriteIer` | `registers_read`, `registers_write`, one operator per register |
| `mech` and `DriveMechanics` | the stepper, the UE7 and UF4 dividers, the read window, sync and byte framing (`devices/storage/drive_1541_system.cpp`) |
| `host`, `drive_out`, `host_in`, `prev_atn` | the participants of `IecBus`, CIA 2 port A of the machine, the drive's ATN edge detector |
| `Cycle` | a machine cycle: lines out, `C1541System::tick` (VIA ticks and interrupt line, bus input, one CPU access, mechanics, bus output), bus read back, `WarpController::update` (`core/warp_controller.hpp`) |
| `ReadOra` … `ClearFlags` | the access of that cycle |
| `Reset`, `InsertDisk`, `EjectDisk` | between frames |

One action is one cycle: everything in it happens in a fixed order, and what varies
is the access the drive's CPU makes and what the machine does to its lines. The
drive's program is not the ROM but any sequence of accesses to a set of registers;
`MCPrograms` has six of them, so that each question is asked with the registers that
bear on it and without the product of all the others. `Byte`, `SyncBits`, `ByteBits`,
`RefTicks` and the number of tracks are parameters with the code's values beside them.

| property | what it says |
|---|---|
| `InterruptUntilAcknowledged` | a flag stays, and interrupts while it is enabled, until the access that acknowledges that very flag; an ATN of the machine is such a flag from the cycle it falls |
| `AtnAnsweredAtOnce` | what the machine reads of DATA follows from ATN and the acknowledge bit of this cycle, not the last |
| `T2FiresOnce` | timer 2 interrupts once a load, after load + 1 counted cycles |
| `BytesFramed` | the byte under the head and the bits of the next are what the track has after its last sync mark, through zone changes, stops and turns |
| `WarpFollowsMotor` | the machine warps from the motor's start to `Cooldown` cycles after its stop, although a reset sets the cycle counter back |

Run: `drive1541`, 110,000 states. `Byte = 2` makes counters of two bits in two halves,
so that loads, latches and wraps of either byte differ; two-bit sync marks and
bytes and tracks of six and four bits give a byte that straddles the index hole and a
position that is scaled between tracks; half tracks 2–4 stop the head at both ends;
`RefTicks = 5` with zones 0–3 gives every divider a remainder. `HostWord = 4` wraps the
cycle counter within one cooldown of 2. `drive_latch` is a finding.

There is no fairness and no liveness here: a cycle always follows a cycle.

## 8. The CIA: `Cia6526`

| model | code (`chip/io/mos6526.cpp`) |
|---|---|
| `timer[t]` | counter, latch, control register; `pipe` and `load`: the two places of the count and force-load pipelines |
| `icr`, `ir`, `mask`, `delayed`, `line`, `icr_read` | the data register, its IR bit, `interrupt_mask` and its delayed copy, `pending_bus_lines`, `icr_read_this_cycle` |
| `tod` | the clock, its alarm and latch, the power-line divider |
| `Decreased`, `AfterLoad`, `Counts`, `Piped` | phase 2: `decrease_timer`, force load, the feed of the pipeline, its shift |
| `TodAfter`, `NextTenth` … `NextHour` | `increase_tod_and_check_alarm` |
| `ReadIcr`, `WriteIcr`, `WriteTimerLo`, `WriteTimerHi`, `WriteControl`, `ReadHours`, `ReadMinutesOrSeconds`, `ReadTenths`, `WriteTime` | the CPU's access of the cycle, between phase 2 and phase 1 |

| property | what it says |
|---|---|
| `EventsAreReported` | the data register holds exactly the events no read has reported, the read in the event's own cycle included; one that is enabled holds the line |
| `UnderflowsByTheLatch` | a timer underflows one count after the number it was loaded with, whatever starts, stops, loads and cascading do in its pipeline |
| `ClockIsRight` | the clock goes through the tenths of a day one by one with its two twelve o'clocks, and a reading from the hours to the tenths is one instant |

Run: `cia`, 118,000 states; five programs (one timer and its pins, two cascaded,
events and mask, clock, alarm). `Byte = 2`, `Tenths = Sixty = 2` and `Noon = 3` let every
carry of the clock and every wrap of a timer happen; `Divider` takes both values of
TODIN. No liveness, for the same reason as the drive.

## 9. Interrupts on the NES: `NesMachine` on `Fam65xx`

`Fam65xx` is the interrupt side of an NMOS 6502 as operators from CPU state to CPU
state, one for each phase of a cycle: `Phi2` (`process_interrupt_detection` and the
deferred hijack), `Sample` (`sample_nmi_pin`), `Phi1` (the snapshot of the I flag and
the instruction's handler). An instruction is its length and what it does to the I flag
or to the pipeline; `crossing` is a taken branch into another page, `absolute` any
instruction that accesses memory in its fourth cycle, `op_brk` the BRK instruction and
the entry of every interrupt. `NesMachine` puts the CPU beside the PPU's vertical
blank, the OAM DMA and a mapper that may interrupt.

| model | code |
|---|---|
| `ppu.vbl`, `status`, `setting`, `clearing` | the internal flag, bit 7 of PPUSTATUS, and the two pending changes between them |
| `Clock` = `Committed`, `Flagged`, `Advanced` | `PPU::clock`, in its order |
| `StatusRead`, `CtrlWritten` | `service_cpu_bus` for $2002 and $2000 |
| `Clocked` | the ticks with `cpu_div_ # 0`, which move only the PPU: a step is the ticks up to the next CPU cycle |
| `Run` | lines to pins, PHI2, access, `sample_nmi_pin`, PHI1 |
| `Cycle`, `ReadStatus`, `WriteCtrl`, `StartDma`, `WriteMapper` | `tick` with each kind of access |
| `DmaCycle` | `tick` while `dma_transfer_`: the CPU stands still, its shift register too, its edge detector does not |
| `Counted` | `MMC3IRQ::notify_a12`, with the moment the counter reaches zero left to chance |

`told`, `armed`, `hushed`, `heard`, `owed`, `nmi_wait` and `irq_wait` are history.

| property | what it says, and what would break it |
|---|---|
| `VblankReported` | the flag is there to be read exactly if the program has not read it and has not asked in the one dot between its two copies; with NMIs enabled the CPU gets an edge exactly if the cycle that first met the flag did not read it. Broken by a read that leaves the pending copy, or an output not recomputed after an access |
| `NmiServed` | an edge stays owed until its vector is loaded, by whatever sequence, at most two instructions later, and no NMI is entered without one. Broken by clearing the latch in an IRQ's sequence, which the code's comment remembers as a deadlock |
| `IrqServed` | a line held low and not masked waits for one instruction at most. Broken by a branch that suppresses polling whatever was pending before: a loop of such branches would never be interrupted |

Run: `nes`, 285,000 states. The program is any: each fetch may find any of the eight
instructions, each access any register, RTI either I flag. `FrameDots = 112` with the
flag at dot 56 makes both halves of a frame longer than the longest way from an edge
to its vector, as on the machine, where they have 82,000 and 6,800 dots; with less, a
second edge can come during the first's sequence, where the CPU forgets it. 112 is not
divisible by three and any frame may be the short one, so all phases of CPU and PPU
occur. `DmaBytes = 2`: one transfer that goes on and one that ends.
`MaxNmiWait = 2` and `MaxIrqWait = 1` are the smallest values that hold; waits are
bounded by invariants, so no fairness and no liveness is needed.

## 10. Where the code and its documentation disagree

Three are runs that TLC ends with a counterexample, with an entry under "findings":

1. `session_pause` – `rebuild_signal_pipeline` "pauses emulation briefly" but restores the
   wrong flag: `was_running` is taken from `emulation_running_`, which a pause leaves
   true. Pressing 40/80 on a paused C128 sets it running (`gui/session_gui.cpp:2282`, 2391).
2. `catalog_rescan` – `start()` assigns to `worker_` without joining the thread that
   finished; the Rescan button ends the program the second time
   (`gui/catalog/catalog_pipeline.hpp:97`).
3. `drive_latch` – a write to VIA register 4 falls into "unknown register" and does not
   reach timer 1's low latch (`chip/io/mos6522.cpp:265`).

Others can be reproduced by setting a constant of a passing run, and are the reason
why the constant is there:

| set | in | TLC then violates | code |
|---|---|---|---|
| `MayStep = TRUE` | `display` | `ClaimCoversSnapshot` | single step over FrameEnd rotates the slots with no `swap_frame`; after Resume the decoder may point into a slot nobody claimed (`gui/session_gui.cpp:2426`) |
| `MayGiveUp = TRUE` | `display` | `ClaimCoversSnapshot` | `run_frame` giving up before FrameEnd makes `swap_frame` fall back to `active_buf_`, slot 0 for ever (`systems/atari2600/atari2600_system.cpp:280`) |
| `ResetsCycles = FALSE` | `audio_thread` | `SynthesisWithinEmulatedTime` | a `reset()` that keeps `total_cycles_` (Amstrad CPC, Namco) makes the audio thread synthesise the whole uptime again |
| `MCMaxVersion = [zip \|-> 2, …]`, `MCSeconds = [zip \|-> {1, 2}, …]` and `PlainFilesCurrent` of all files | `catalog` | that | an archive that changes while it is cached is probed from the cache and stored under its new time (`core/vfs/vfs.cpp:143`) |

And some happen in the passing runs, whose properties name the case and claim
nothing after it. TLC shows each when the condition named here is taken out of the property, or
its negation is made an invariant:

| condition | in | what happens | code |
|---|---|---|---|
| `lapped` | `audio_path` | the port ring's producer overwrites samples nobody has taken, and the loudspeaker then hears samples twice and out of order. Three ways lead there. A surplus: the NES makes 805 samples a frame where the session takes 735. A warp without suppression: only the C64 calls `set_suppress`; the VIC-20 and the C16 warp for their drives (`systems/commodore/commodore_system.hpp:419`) and the NES while booting (`systems/nes/nes_system.hpp:258`); and a warp batch runs on for its 200 ms after the system has stopped warping and suppressing. A chip's thread that is late | `core/signal/audio_port.hpp:32`, `gui/session_gui.cpp:3301` |
| `torn` | `audio_path` | the output ring is reset under SDL's open device; a callback half way through `read()` then stores its old index | `gui/emulator_host.cpp:711` |
| `Tells` | `catalog` | times are cut to whole seconds, so a file that changes again within the second that is recorded, or gets an old time back, is never probed again | `gui/catalog/catalog_pipeline.hpp:235` |
| `Unread` | `catalog` | a file that cannot be read is stored under its present time, without a system and a fingerprint, and not read again until that time changes | `gui/catalog/catalog_pipeline.hpp:371`, 493 |
| `unwritten` | `catalog` | a row the table does not take is counted like any other | `gui/catalog/catalog_pipeline.hpp:388` |
| `Key[f] = 0` | `catalog` | a file whose title normalises to nothing keeps group 0, and the browser, which asks for `group_id > 0`, never shows it | `gui/catalog/catalog_pipeline.hpp:410`, `gui/catalog/catalog_store.hpp:354` |

The rest was met while reading:

- The session reads the new signal type before its locks and the port pointer after
  them, and casts the port to the type unchecked (`gui/session_gui.cpp:2272`). The
  C128 can change mode in between; the next frame's check repairs the pair.
- An ATN edge whose CA1 flag a port A access clears in the same cycle never reaches the
  CPU's interrupt line; `AtnHistory` counts that access as the answer.
- `soe` is computed as "CB2 mode >= 0xC0", which includes "output low", while the comment
  says high (`devices/storage/drive_1541_system.cpp:455`, 206).
- Timer 1 in one-shot mode interrupts again whenever its counter passes zero, every
  65536 cycles, although the comment promises one interrupt a load
  (`chip/io/mos6522.cpp:327`). `T2FiresOnce` is therefore about timer 2 only.
- The CIA's "Timer B bug" is dead code: phase 1 clears `icr_read_this_cycle` before the next
  `decrease_timer` could see it (`chip/io/mos6526.cpp:145`, 414, 1206). The model keeps the
  variable; `ReadKept` is the mutant in which it works. The one-shot pipeline is fed
  and never looked at, and a power-line period is `cycles_tod` + 1 cycles.
- `AudioCommandQueue` documents a high-water mark "updated by push"
  (`utils/audio_cmd_queue.hpp:203`) that nothing updates.
- The PPU's comment says that a $2002 read in the dot before the flag is set keeps it from
  being set (`chip/video/nes_ppu/nes_ppu.hpp:248`). It does not: the read is forgotten at the end
  of the next dot, and the test that should see it (`nes_ppu_clock.inl:205`) comes after
  a change that every read cancels anyway. The model leaves the dead test out.
- An NMI first seen in the last cycle of a branch is to wait for one instruction
  (`chip/cpu/fam65xx/fam65xx.hpp:1251`), but a masked IRQ that was pending at the branch's poll
  lets it through (1242): the two are not told apart.
- An OAM DMA takes 514 cycles always: `dma_odd_cycle_` turns only during a DMA
  and every DMA leaves it even (`systems/nes/nes_system.cpp:1116`). `docs/nes_blank_rom_analysis.md:526` says 513-514.
- `sample_nmi_pin`'s comment says every tick loop must call it
  (`chip/cpu/fam65xx/fam65xx.hpp:1044`); the Atari 8-bit's, which drives the pin for ANTIC
  (`systems/atari8/atari8_system.cpp:203`), does not.
- The BBC Micro's `reset_chips()` resets the sound chip thirteen lines before the audio
  thread is stopped (`systems/bbc/bbc_micro_system.cpp:284`), and the CPC's
  `write_register_shadow` writes registers that thread reads
  (`systems/amstrad_cpc/amstrad_cpc_system.cpp:417`).
- Nothing sets manual warp, and nothing calls `detach_drive` or `mark_root_removed`.

## 11. What is proved

### Display path

`DisplayPipelineProofs` proves, for every value of `MaxFrames`:

| theorem | assumes | statement |
|---|---|---|
| `TypeCorrect` | – | `Spec => []TypeOK` |
| `RolesDisjoint` | – | `Spec => []SlotRolesDisjoint` |
| `ClaimCovers` | `~MayGiveUp`, `~MayStep` | `Spec => []ClaimCoversSnapshot` |
| `PictureIsWhole` | `~MayGiveUp`, `~MayStep` | `Spec => []WholePicture` |
| `FrameIsAnnounced` | – | `Spec => []NoStrandedFrame` |
| `MailboxRefined` | `~MayGiveUp`, `~MayStep` | `Spec => Mailbox!SafeSpec` |

The two assumptions are exactly the ones whose absence breaks them (section 10).
The only other assumption is `ConstantsAssumption`.

The argument. `TypeOK` is not inductive: a pointer the GUI will follow must be a
slot and not `NoSlot`, and a half-drawn frame must be within the bound, so
`TypeInv` adds both. `SlotRolesDisjoint` then needs only that `find_free_slot`
returns a third slot (`FreeSlotExists`: two of three slots never exhaust it).
`ClaimCoversSnapshot` needs what links the two notions of "last frame": between
frames `last_frame_data_` names the READY slot, and between FrameEnd and
`swap_frame` the completed pointers do (`ClaimInv`). `WholePicture` needs what is
in the slots: READY and claimed slots hold whole frames, the write slot holds a
prefix of the current one, and what the GUI has read so far agrees with the slot
it is reading (`PictureInv`). Drawing preserves this because it touches the write
slot only, and by the roles that is neither of the others
(`DrawingPreservesPicture`). The conjunction `FullInv` is inductive. For the
refinement, `OrderInv` (the READY frame is older than the one being drawn) makes
each completion a step to a higher number, and every step is a `Complete`, a
`HandOver`, a `Show` or a stutter (`StepRefines`).

### Audio path

`AudioPathProofs` proves, for rings, frames and batches of every size, any machines, any lag and
any warps and restarts:

| theorem | statement |
|---|---|
| `TypeCorrect` | `Spec => []TypeOK` |
| `OverrunExplained` | `Spec => OverrunIsExplained`, an action property |
| `PlayedInOrder` | `Spec => HeardInOrder`, an action property |

They have no hypotheses besides `ConstantsAssumption`: the port's capacity divides the width of its indices
(2^32 and a power of two), is less than half of it, and a machine that suppresses has its
chip on the emulation thread, as the C64 has.

`OverrunExplained` counts `Pending`, the samples in the port ring plus those still owed to it and not
suppressed. A frame adds its samples to `Pending`, and to `surplus` those beyond what
it is asked for; synthesis moves a sample from one part to the other; `pop` takes what the batch
has asked for, or all there is, and then what is left is owed and counts as `late`. So
`Pending <= surplus + late + Asked` until the first overrun (`OverrunInv`, conjunct `Owed`), where `Asked` is
what the current batch will ask for, `MaxBatch * Requested` at most. While `pop` copies, the amount it
decided to take lags behind the ring, hence the conjunct about `Taken`. The modular indices are dealt
with once, by two lemmas about their distance (`DistanceAfterPush`, `DistanceAfterPop`).

`PlayedInOrder` follows a sample through three copies. Its invariant (`OrderInv`) says
that samples ascend along the way, as long as the producer has not lapped and no restart has torn the callback's copy: in the output ring from the reader on, including
what `write()` has copied and not published; in what `pop()` took and is not yet copied; in
the port ring behind that, including the slot `push_unchecked` has filled. Two marks
separate the stations: all in the output ring is at most `a`, all still to be copied lies
above `a` and up to `b`, and the port ring lies above `b`. The callback
has given SDL the first `c` samples of the ring without saying so, and everything from there on is
later than the last one played. Each
action moves one of `a`, `b`, `c`, or renumbers a ring because its reader moved. A reset
forgets what is in the ring: between its two stores the ring counts as empty, and if the
callback does not look in between, and had not begun, what it hears next is later than all before. The
invariant needs that a push lands on no sample that waits (the first conjunct of `Owed`), that
`write()` stays within the room it found (`RoomInv`), and that a mask sees through the
index's width (`PortWriterSlot`: `Word` is a multiple of `PortCap`). `OverrunInv` and `OrderInv` were checked with TLC under the
passing configuration before they were proved.

### Audio thread

`AudioThreadProofs` proves, for rings of every capacity with indices of every
width that is a multiple of it, and for every ratio of CPU cycles to chip ticks:

| theorem | assumes | statement |
|---|---|---|
| `TypeCorrect` | – | `Spec => []TypeOK` |
| `HeardAlwaysOnTime` | – | `Spec => []HeardOnTime` |
| `QuiescentReset` | – | `Spec => []ResetWhileQuiescent` |
| `SynthesisBounded` | `ResetsCycles` | `Spec => []SynthesisWithinEmulatedTime` |
| `LossIsExplained` | – | `Spec => LossNeedsLagOrBurst`, an action property |

Almost everything follows from one invariant, because `HeardOnTime` is a statement about
the whole past: a tick was given exactly the writes stamped before its end. It
stays true only if no write comes that is older than a tick made already. So the invariant follows
each write from `push` to the chip: stamps ascend (`StampInv`); the free-running
indices are the numbers of commands accepted, released and applied, modulo the width
(`IndexInv`), which is where a lap or a wrong slot would show; a slot keeps its command
until it is applied (`SlotInv`); and when the thread advances the chip to its target,
every command left in the ring is stamped at the target or later (`SynthInv`). The last
holds although `drain_until` looks at the ring only once per batch: what was
pushed since then was stamped after the `signal_progress` that set the target
(`Signalled`). `TimeInv` orders the three clocks, `CountInv` the history's counters.
`ThreadInv` ties `running` to the place of either thread, which is
`QuiescentReset`. TLC checked the invariant under the passing configuration and with
`ResetsCycles = FALSE`.

### Session

`SessionHostProofs` proves, for an input queue of every bound:

| theorem | statement |
|---|---|
| `TypeCorrect` | `Spec => []TypeOK` |
| `SystemIsExclusive` | `Spec => []SystemUsedExclusively` |
| `FreedIsUntouched` | `Spec => []NoFreedMemory` |
| `InputInOrder` | `Spec => []EventsInOrder` |

`LockInv` says that a mutex is held by whoever is where the code holds it,
`ThreadInv` that `emu_thread_running_` tells of a thread except while it is joined;
both are what the code relies on and states nowhere. `SystemIsExclusive` is a consequence of
`ThreadInv`: it is the join, not a lock, that protects reset, load and switch. Pointers
into a freed pipeline exist between the disconnection and the connection of the next, and there the GUI
thread holds both mutexes (`FreedInv`); by `LockInv` nobody else is then at a place that
follows one. `EventsInOrder` is inductive together with the bounds on queue and batch:
the numbers of what is in the batch and the queue follow one another from `delivered` to `pushed`,
modulo `Numbers`, and `Numbers > 2 * QueueBound` makes them distinct.

### Catalogue

`CatalogPipelineProofs` proves, for all files in all containers, any number of probing
threads and any changes on the disk:

| theorem | statement |
|---|---|
| `TypeCorrect` | `Spec => []TypeOK` |
| `FilesProbedOnce` | `Spec => []EachFileOnce` |
| `PlainRowsCurrent` | `Spec => []PlainFilesCurrent` |
| `GroupsTellTitles` | `Spec => []GroupsAreTitles` |

`PoolInv` counts: what `fetch_add` handed out is counted or in somebody's hands,
each index in one thread's only, and a thread rests only when nothing is left. Because each thread
increments past the end once, the index is bounded by the files and the resting threads, which is
the least obvious conjunct and the one `TypeOK` needs. `HandledInv` then puts each
handled file in the table with the discovery's time, unless the table refused it. `RowsCurrent` and `InHandCurrent`
carry "no older than its time" (`Told`) from the discovery through the two reads and into the
row: what was read is `Unread`, or the version that bore the time or a later one. The time is read first, so a change in between can only make the data newer;
if the row's time is still the file's and no earlier version bore it, the data is the present version's. `GroupInv` needs that numbers are ranks among the
keys of the table (`Ranks`), so that rows numbered by another scan cannot matter:
each row with a title is renumbered before the scan ends, and a row without one never gets a number. `CatalogAssumption` says that a
file is in one container and a container's versions bear positive times, several the same time perhaps; any containers may be
unreadable or untimed at times and any rows refused.

### Drive

`Drive1541Proofs` proves, for bytes of every width, all tracks and every program:

| theorem | statement |
|---|---|
| `TypeCorrect` | `Spec => []TypeOK` |
| `InterruptsStay` | `Spec => InterruptUntilAcknowledged`, an action property |
| `AtnIsAnswered` | `Spec => []AtnAnsweredAtOnce` |
| `T2OneShot` | `Spec => []T2FiresOnce` |
| `BytesAreFramed` | `Spec => []BytesFramed` |
| `WarpsWhileDriveRuns` | `Spec => []WarpFollowsMotor` |

The proofs rest on lemmas about `Via6522`'s operators: what each register access
leaves of the flags and of timer 2 (`Spares`), and that registers keep their width. `AtnInv` says that
the edge detector knows ATN as it was and that an unanswered call is a flag; `T2Inv`
relates the counter to the age of the load, one-shot and pulse mode alike; `WarpInv` says that the
unsigned difference the controller computes is the number of idle cycles, which holds
across a reset because the reset also sets the controller's own stamp back, and
across a wrap because it stops within `Cooldown < HostWord` cycles. For `BytesAreFramed` the
invariant (`Framing`) says where the head is in the track: the window is what it has
passed, and for the nearest sync mark behind it, `k` bits ago, the bits counted are `k`
modulo the length of a byte and the byte is the last whole one cut from there. `MechanicsAssumption` gives a byte no more bits than a sync mark
(8 and 10), so that a byte never straddles one.

### CIA

`Cia6526Proofs` proves, for bytes and digits of every size and every program:

| theorem | statement |
|---|---|
| `TypeCorrect` | `Spec => []TypeOK` |
| `EventsReported` | `Spec => EventsAreReported`, an invariant and an action property |
| `UnderflowsExact` | `Spec => UnderflowsByTheLatch`, an action property |
| `ClockRight` | `Spec => ClockIsRight`, an invariant and an action property |

`TypeInv` adds to the types that phase 1 has forgotten the register's read and that the
hour is one of the clock's twelve and never zero, which is what its successor is worked out for.
`EventInv`: the register is what is owed to the program. The chip reports the alarm only at the
edge of the comparison, the property wants every arrival; the two agree because a
comparison that was equal left the tenths of time and alarm equal, which the next
tenth makes different (`AlarmRemembered`). `CountInv`: the counts fed to a timer since it was
loaded are what it has counted down plus the ones its pipeline still holds (`Fed`),
modulo its width; each access and each load keeps this by what it does to counter and pipeline
together, and an underflow finds either zero in the counter and one count in the pipeline, or one and two.
`ReadInv`: while the latch is held it is the time at the read of the hours. For the
clock's order each digit is proved to add one to the number the digits make, or to
become zero and hand the one on (`NextHourIs` to `NextTenthIs`), up to the two twelve o'clocks.

### NES

`NesMachineProofs` proves, for frames and transfers of every length, and a program made of
the instructions in any order:

| theorem | assumes | statement |
|---|---|---|
| `TypeCorrect` | – | `Spec => []TypeOK` |
| `VblankIsReported` | – | `Spec => []VblankReported` |
| `IrqIsServed` | – | `Spec => []IrqServed` |
| `NmiIsServed` | `LongFrame`, `MaxNmiWait >= 2` | `Spec => []NmiServed` |

`VblankIsReported` needs the PPU dot by dot: `Good` gives flag, copy, pending
changes and output as functions of the dot and of whether the program has had this frame's
flag; a step of the machine is up to three dots and an access, and each keeps it. For an IRQ,
`IrqClose` says how far the three samples and the snapped I flag have got in the instruction
during which the line fell; at the next fetch the IRQ is then seen, and a branch that
does not poll lets it through if it was pending at its first cycle.

An NMI is lost if a second edge comes before the first has its vector: the latch
holds one. So `NmiIsServed` needs to know that edges are far apart. `LongFrame` is
that assumption: the part of a frame outside the vertical blank is longer than the way from an edge to its
vector with a transfer in it (`VblDot - 2 >= 3 * (DmaTurns + 9)`), and a
frame is longer than that with two transfers in it. On an NTSC machine that is 82,521 dots against 1,569 and
89,338 against 3,111; the run's constants satisfy it as well. The invariant (`NmiInv`) carries a
distance: `Rest` is the number of cycles until the vector at most, `Ahead` the number
of dots until the flag can be set again at least, and `Ahead >= 3 * Rest` while an
edge is owed. The program can make a second edge within the vertical blank, by
enabling NMIs again, but only after it was told, hence after the first was served or hushed.

### Arithmetic

Indices, counters and clocks that wrap are all taken modulo a constant. The SMT solver
does not find facts about `%` by itself when the modulus is a constant of the model, since they
multiply variables. The proof modules that need some state them near their beginning and prove them from
quotient and remainder: these are unique, distances survive reduction, nearby
indices have different slots, reducing early changes nothing.

All these invariants were checked by TLC on the passing configurations before
they were proved (between 110,000 states for the drive and 12,900,000 for the audio path; 118,000 for the CIA).

### Only model-checked

Liveness (`ImplementsMailbox`'s fair part, `SignalIsHeard`, `StopReturns`,
`GuiComesBack`, `ScansAndQuitsEnd`), which is beyond the prover, and the runs of section 10 that end with a counterexample.

## 12. What is not modelled

- *Display*: the vector and indexed decoders, which copy instead of pointing, and what
  samples look like.
- *Sound*: `AudioCommandQueue`'s peek/pop and its command kinds other than a register
  write, which no write-only system uses; the NES engine's adapter.
- *Session*: a decoder that cannot be created (`gui/session_gui.cpp:2322`),
  `display_source_override_`, dropped files that become a ROM set, calls under
  `emu_mutex_` that only read (settings, screenshots), and the quit path, which is a
  teardown without a start.
- *Catalogue*: files that disappear; roots that overlap, so that a path is discovered
  twice and probed by two threads; a table that cannot be read; archives
  in archives; contents that change in the middle of a read, which is one instant here; and the browser's group
  numbers, which it keeps across a scan (`gui/catalog/title_browser.hpp:383`).
- *Timer 1 of the VIA* has no property of its own beyond `InterruptUntilAcknowledged` (section 10 has its one-shot mode), and the
  Amstrad CPC's and Namco's `reset()` are outside the run `audio_thread`, whose `ResetsCycles` is `TRUE`:
  `SynthesisWithinEmulatedTime` speaks of the other systems.
- *VIA*: the shift register, port A's data, PORTA_NH and the CA1/CB1 pins. *CIA*: ports
  with PBON, and the serial register.
- *6502 and NES*: what instructions compute, the SO, RDY and RES pins, the 65C02 and
  65C816; rendering, the APU with its own interrupts and its DMC fetches, the counter
  behind a mapper's interrupt, banking.
- *WD1772*: a stub whose commands complete at once (`chip/storage/wd_fdc/wd1772.hpp`).
- *Drive*: a second and third drive on the bus, the trap mode, how the SX-64 and the
  VIC-20 are wired, the encoding of sectors into GCR; writing is not in the code.
- Data races on plain fields where a model would need the chip's registers (for
  example `reset_chips()` before `stop()` in the BBC Micro; section 10).
- Memory order: atomics are sequentially consistent in the models. The rings pair
  release stores with acquire loads and each index has one writer, so no weaker
  outcome is observable there.
- The rest of CPUs, video and sound chips, formats and drawing: sequential code whose
  correctness is a table of cases, covered by the repository's test vectors. They
  are most of the repository's lines, so the models cover a small share of
  those, and the protocols between them are what they cover.

## 13. Plan

1. *Done*: the modules of sections 2 to 9, and the theorems of section 11, one for each property
   but liveness.
2. `Mmc3Irq` – the A12 filter and reload order of the NES mapper; the interrupt
   daisy chain of the Z80 parts; `MemoryBus` – page and sub tables against the list of
   regions as reference. Each would take a run of its own and few properties.
