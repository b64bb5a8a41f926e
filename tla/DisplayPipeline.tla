-------------------------- MODULE DisplayPipeline --------------------------
(***************************************************************************)
(* The path of a picture from the video chip to the screen:                *)
(*   VideoOut::drive        the chip's write pointer      (video_out.hpp)  *)
(*   VideoPort              cold_path, swap_frame, warp   (video_port.hpp) *)
(*   DisplayPipeline        three rotating sample slots   (display_...hpp) *)
(*   the emulation thread   run_frame, claim, snapshot    (session_gui.cpp)*)
(*   the GUI thread         upload_snapshot, release      (session_gui.cpp)*)
(*                                                                         *)
(* The snapshot is zero-copy: it holds pointers into a slot, and the GUI   *)
(* reads the slot while the emulation thread draws the next frames without *)
(* holding fb_mutex_.  A frame is drawn in two parts and uploaded in three *)
(* reads, so that an overlap of the two is a state of the model.           *)
(***************************************************************************)
EXTENDS Integers

CONSTANTS
  MaxFrames,   \* bound on the frames the chip draws in a behaviour
  MayGiveUp,   \* run_frame may return before FrameEnd (Atari 2600 safety limit)
  MayStep      \* the user may press Single Step while paused

ASSUME ConstantsAssumption ==
  /\ MaxFrames \in Nat
  /\ MayGiveUp \in BOOLEAN
  /\ MayStep \in BOOLEAN

NoSlot == -1
Slots  == 0 .. 2        \* NUM_BUFFERS
Scratch == 0            \* what warp mode leaves in a slot: no picture
ActiveBuf == 0          \* active_buf_: set to buf_[0] by connect(), never rotated

VARIABLES
  (* DisplayPipeline *)
  write_idx, ready_idx, display_idx,
  slots,            \* slot -> what its samples and its sync events belong to
  (* VideoOut / VideoPort *)
  completed,        \* completed_base, as a slot (frame_len # 0 iff it is set)
  completed_sync,   \* completed_sync_, as a slot
  warping,          \* warping_: which handler on_sync_change points to
  last_frame,       \* System::last_frame_data_: slots of its samples and sync
  (* the video chip *)
  frame,            \* number of the frame being drawn
  part,             \* the part of it drawn next
  (* emulation thread *)
  emu,              \* where emu_thread_func is
  frames_ran,       \* frames_ran > 0 in this iteration
  warp_batch,       \* is_warping() as sampled before emu_mutex_ is taken
  (* signal decoder and GUI thread *)
  snapshot_fd, has_snapshot, fb_new_frame,
  gui,              \* where render_screen is
  texture,          \* what has been uploaded
  paused            \* emulation_paused_

pipelineVars == <<write_idx, ready_idx, display_idx>>
portVars     == <<completed, completed_sync, warping, last_frame>>
chipVars     == <<frame, part>>
emuVars      == <<emu, frames_ran, warp_batch>>
decoderVars  == <<snapshot_fd, has_snapshot, fb_new_frame>>
guiVars      == <<gui, texture, paused>>
vars == <<pipelineVars, slots, portVars, chipVars, emuVars, decoderVars, guiVars>>

FrameNo   == 0 .. MaxFrames
FrameData == [buf : Slots \cup {NoSlot}, sync : Slots \cup {NoSlot}]
NoFrame   == [buf |-> NoSlot, sync |-> NoSlot]
SlotData  == [top : FrameNo, bottom : FrameNo, sync : SUBSET FrameNo]
Picture   == [top : FrameNo, bottom : FrameNo, sync : SUBSET FrameNo]

EmuHoldsEmuMutex == emu \in {"batch", "frame"}
UploadUnlocked   == FALSE      \* mutant: the upload outside fb_mutex_
GuiHoldsFbMutex  == gui \in {"samples", "more", "events", "unlock"}

TypeOK ==
  /\ write_idx \in Slots
  /\ ready_idx \in Slots \cup {NoSlot}
  /\ display_idx \in Slots \cup {NoSlot}
  /\ slots \in [Slots -> SlotData]
  /\ completed \in Slots \cup {NoSlot}
  /\ completed_sync \in Slots \cup {NoSlot}
  /\ warping \in BOOLEAN
  /\ last_frame \in FrameData
  /\ frame \in 1 .. MaxFrames + 1
  /\ part \in {"top", "bottom"}
  /\ emu \in {"idle", "waitEmu", "batch", "frame", "waitFb"}
  /\ frames_ran \in BOOLEAN /\ warp_batch \in BOOLEAN
  /\ snapshot_fd \in FrameData
  /\ has_snapshot \in BOOLEAN
  /\ fb_new_frame \in BOOLEAN
  /\ gui \in {"idle", "waitFb", "samples", "more", "events", "unlock"}
  /\ texture \in Picture
  /\ paused \in BOOLEAN

-----------------------------------------------------------------------------
(* A freshly connected pipeline and a thread that has not run a frame yet. *)
Init ==
  /\ write_idx = 0 /\ ready_idx = NoSlot /\ display_idx = NoSlot
  /\ slots = [s \in Slots |-> [top |-> Scratch, bottom |-> Scratch, sync |-> {}]]
  /\ completed = NoSlot /\ completed_sync = NoSlot
  /\ warping = FALSE /\ last_frame = NoFrame
  /\ frame = 1 /\ part = "top"
  /\ emu = "idle" /\ frames_ran = FALSE /\ warp_batch = FALSE
  /\ snapshot_fd = NoFrame /\ has_snapshot = FALSE /\ fb_new_frame = FALSE
  /\ gui = "idle" /\ paused = FALSE
  /\ texture = [top |-> Scratch, bottom |-> Scratch, sync |-> {}]

-----------------------------------------------------------------------------
(* find_free_slot: the first slot that is neither the frame just completed *)
(* nor the one the GUI has claimed.                                        *)
FreeSlotsIgnoringClaim(new_ready) == Slots \ {new_ready}     \* mutant

FreeSlots(new_ready) == Slots \ {new_ready, display_idx}

NextSlotUnwrapped(new_ready) == new_ready + 1     \* mutant: forgets to wrap

FindFreeSlot(new_ready) ==
  IF FreeSlots(new_ready) = {} THEN 0
  ELSE CHOOSE s \in FreeSlots(new_ready) : \A t \in FreeSlots(new_ready) : s <= t

(* The chip drives the samples of the first part of a frame.  In warp mode *)
(* the pointer is wrapped at every sync edge, so no picture accumulates,   *)
(* and no sync event is logged.                                            *)
DriveTop ==
  /\ part = "top" /\ frame <= MaxFrames
  /\ slots' = [slots EXCEPT ![write_idx].top = IF warping THEN Scratch ELSE frame,
                            ![write_idx].sync = IF warping THEN @ ELSE @ \cup {frame}]
  /\ part' = "bottom"
  /\ UNCHANGED <<pipelineVars, completed, completed_sync, frame>>

(* The chip drives the rest of the frame up to the sample with FrameEnd.   *)
(* cold_path: on_frame_end promotes WRITE to READY, picks the next WRITE   *)
(* slot and empties its sync list; completed_sync is set after it.         *)
DriveFrameEnd ==
  /\ part = "bottom"
  /\ LET next_write == FindFreeSlot(write_idx) IN
       /\ write_idx' = next_write
       /\ slots' = [slots EXCEPT ![write_idx].bottom = frame,
                                 ![write_idx].sync = @ \cup {frame},
                                 ![next_write].sync = {}]
  /\ ready_idx' = write_idx
  /\ completed' = write_idx /\ completed_sync' = write_idx
  /\ part' = "top" /\ frame' = frame + 1
  /\ UNCHANGED display_idx

(* warp_cold_path: FrameEnd is reported, nothing rotates or is logged.     *)
DriveFrameEndWarping ==
  /\ part = "bottom"
  /\ slots' = [slots EXCEPT ![write_idx].bottom = Scratch]
  /\ completed' = write_idx
  /\ part' = "top" /\ frame' = frame + 1
  /\ UNCHANGED <<pipelineVars, completed_sync>>

Tick == \/ DriveTop
        \/ ~warping /\ DriveFrameEnd
        \/ warping /\ DriveFrameEndWarping

-----------------------------------------------------------------------------
(* The emulation thread. *)

\* Top of the loop: the running test and the warp test, made before any lock is
\* taken and possibly stale by the time it is.
EmuCheckRunning ==
  /\ emu = "idle" /\ ~paused
  /\ emu' = "waitEmu" /\ frames_ran' = FALSE /\ warp_batch' \in BOOLEAN
  /\ UNCHANGED <<pipelineVars, slots, portVars, chipVars, decoderVars, guiVars>>

\* Single Step, the other holder of emu_mutex_, is one step of the model.
EmuLock ==
  /\ emu = "waitEmu" /\ emu' = "batch"
  /\ UNCHANGED <<pipelineVars, slots, portVars, chipVars, frames_ran, warp_batch, decoderVars, guiVars>>

\* run_frame starts by telling the port whether it is warping.
RunFrame ==
  /\ emu = "batch" /\ frame <= MaxFrames
  /\ warping' \in BOOLEAN
  /\ emu' = "frame"
  /\ UNCHANGED <<pipelineVars, slots, completed, completed_sync, last_frame, chipVars,
                 frames_ran, warp_batch, decoderVars, guiVars>>

\* while (!output.frame_ended()) tick();
EmuTick ==
  /\ emu = "frame" /\ completed = NoSlot
  /\ Tick
  /\ UNCHANGED <<warping, last_frame, emuVars, decoderVars, guiVars>>

\* swap_frame returns the completed slot, or what the fallbacks point to.
SwappedFrame ==
  [buf  |-> IF completed # NoSlot THEN completed ELSE ActiveBuf,
   sync |-> IF completed_sync # NoSlot THEN completed_sync ELSE write_idx]

\* The warp fast path keeps the last real frame.
SwapWithoutWarpPath == SwappedFrame     \* mutant
SwapResult == IF warping THEN last_frame ELSE SwappedFrame

\* The loop is left at FrameEnd, or by a system that gives up waiting for it.
SwapFrame ==
  /\ emu = "frame"
  /\ completed # NoSlot \/ MayGiveUp
  /\ last_frame' = SwapResult
  /\ completed' = NoSlot /\ completed_sync' = NoSlot
  /\ emu' = "batch" /\ frames_ran' = TRUE
  /\ UNCHANGED <<pipelineVars, slots, warping, warp_batch, chipVars, decoderVars, guiVars>>

\* Leaving emu_mutex_.  There is no snapshot when no frame was run, and in warp
\* only one in a while.
EmuUnlock ==
  /\ emu = "batch"
  /\ \/ frames_ran /\ emu' = "waitFb"
     \/ (~frames_ran \/ warp_batch) /\ emu' = "idle"
  /\ UNCHANGED <<pipelineVars, slots, portVars, chipVars, frames_ran, warp_batch, decoderVars, guiVars>>

(* Under fb_mutex_: claim() marks the READY slot as in use, snapshot()     *)
(* keeps the pointers of the last frame data, and the GUI is told.         *)
ClaimForgotten == UNCHANGED display_idx     \* mutant
Claim == display_idx' = IF ready_idx # NoSlot THEN ready_idx ELSE display_idx

NotifyForgotten == UNCHANGED fb_new_frame     \* mutant
Notify == fb_new_frame' = (fb_new_frame \/ has_snapshot')

EmuSnapshot ==
  /\ emu = "waitFb" /\ ~GuiHoldsFbMutex
  /\ IF last_frame # NoFrame
       THEN Claim /\ snapshot_fd' = last_frame /\ has_snapshot' = TRUE
       ELSE UNCHANGED <<display_idx, snapshot_fd, has_snapshot>>
  /\ Notify
  /\ emu' = "idle"
  /\ UNCHANGED <<write_idx, ready_idx, slots, portVars, chipVars, frames_ran, warp_batch, guiVars>>

-----------------------------------------------------------------------------
(* The GUI thread: render_screen, the menu's Pause, Resume and Single Step *)

\* fb_new_frame_.exchange(false), before the lock
GuiTakeNotice ==
  /\ gui = "idle" /\ fb_new_frame
  /\ fb_new_frame' = FALSE /\ gui' = "waitFb"
  /\ UNCHANGED <<pipelineVars, slots, portVars, chipVars, emuVars, snapshot_fd,
                 has_snapshot, texture, paused>>

\* lock fb_mutex_; upload_snapshot() returns at once when there is no snapshot
GuiLock ==
  /\ gui = "waitFb"
  /\ gui' = IF has_snapshot THEN "samples" ELSE "unlock"
  /\ has_snapshot' = FALSE
  /\ UNCHANGED <<pipelineVars, slots, portVars, chipVars, emuVars, snapshot_fd,
                 fb_new_frame, texture, paused>>

GuiReadTop ==
  /\ gui = "samples" /\ gui' = "more"
  /\ texture' = [texture EXCEPT !.top = slots[snapshot_fd.buf].top]
  /\ UNCHANGED <<pipelineVars, slots, portVars, chipVars, emuVars, decoderVars, paused>>

GuiReadBottom ==
  /\ gui = "more" /\ gui' = "events"
  /\ texture' = [texture EXCEPT !.bottom = slots[snapshot_fd.buf].bottom]
  /\ UNCHANGED <<pipelineVars, slots, portVars, chipVars, emuVars, decoderVars, paused>>

GuiReadSync ==
  /\ gui = "events" /\ gui' = "unlock"
  /\ texture' = [texture EXCEPT !.sync = slots[snapshot_fd.sync].sync]
  /\ UNCHANGED <<pipelineVars, slots, portVars, chipVars, emuVars, decoderVars, paused>>

\* release() and the end of the locked section
GuiRelease ==
  /\ gui = "unlock" /\ gui' = "idle"
  /\ display_idx' = NoSlot
  /\ UNCHANGED <<write_idx, ready_idx, slots, portVars, chipVars, emuVars, decoderVars,
                 texture, paused>>

GuiTogglePause ==
  /\ gui = "idle" /\ paused' = ~paused
  /\ UNCHANGED <<pipelineVars, slots, portVars, chipVars, emuVars, decoderVars, gui, texture>>

\* step_emulation: one tick under emu_mutex_, without swap_frame or snapshot
GuiStep ==
  /\ MayStep /\ gui = "idle" /\ paused /\ ~EmuHoldsEmuMutex
  /\ Tick
  /\ UNCHANGED <<warping, last_frame, emuVars, decoderVars, guiVars>>

EmuNext == EmuCheckRunning \/ EmuLock \/ RunFrame \/ EmuTick \/ SwapFrame
             \/ EmuUnlock \/ EmuSnapshot

GuiUpload == GuiTakeNotice \/ GuiLock \/ GuiReadTop \/ GuiReadBottom \/ GuiReadSync
               \/ GuiRelease

Next == EmuNext \/ GuiUpload \/ GuiTogglePause \/ GuiStep

Spec == Init /\ [][Next]_vars

\* The GUI loop keeps turning; nothing is assumed of the emulation thread.
FairSpec == Spec /\ WF_vars(GuiUpload)

-----------------------------------------------------------------------------
(* Properties *)

\* The slot the chip writes is neither the READY one nor the claimed one: two
\* slots are never too many, so find_free_slot always finds the third.
SlotRolesDisjoint == write_idx # ready_idx /\ write_idx # display_idx

UploadPending == has_snapshot \/ gui \in {"samples", "more", "events"}

\* What the decoder will read, samples and sync events, lies in the slot that
\* claim() has marked, from the snapshot to the end of the upload.
ClaimCoversSnapshot ==
  UploadPending => snapshot_fd = [buf |-> display_idx, sync |-> display_idx]

\* Outside an upload, the texture holds one whole frame, drawn without warp,
\* together with the sync events of the same frame.
Blank == [top |-> Scratch, bottom |-> Scratch, sync |-> {}]
Whole(p) == p.top # Scratch /\ p.bottom = p.top /\ p.sync = {p.top}

WholePicture == gui \in {"idle", "waitFb"} => texture = Blank \/ Whole(texture)

\* A snapshot is never left behind unannounced: fb_new_frame_ is exchanged and
\* the lock taken later, and a snapshot may arrive in between.
NoStrandedFrame == has_snapshot => fb_new_frame \/ gui = "waitFb"

(* The frames the viewer sees, as a mailbox of whole frames. *)
CompletedFrame == IF ready_idx = NoSlot THEN 0 ELSE slots[ready_idx].bottom
HandedOverFrame == IF UploadPending THEN slots[snapshot_fd.buf].bottom ELSE 0
ShownFrame == IF texture.sync = {} THEN 0 ELSE CHOOSE f \in texture.sync : TRUE

Mailbox == INSTANCE FrameMailbox WITH
  done <- CompletedFrame, box <- HandedOverFrame, shown <- ShownFrame

\* The whole path implements the mailbox: the newest completed frame is handed
\* over, the picture never goes back, and a handed-over frame is shown.
ImplementsMailbox == Mailbox!Spec
=============================================================================
