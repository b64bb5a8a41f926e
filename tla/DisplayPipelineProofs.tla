----------------------- MODULE DisplayPipelineProofs -----------------------
(***************************************************************************)
(* Theorems about DisplayPipeline, for any number of frames.               *)
(***************************************************************************)
EXTENDS DisplayPipeline, TLAPS

\* find_free_slot never falls through its loop: whatever the GUI has claimed,
\* the slot it returns is a third one (display_pipeline.hpp, "Should never happen").
LEMMA FreeSlotExists ==
  ASSUME TypeOK, NEW r \in Slots
  PROVE  /\ FindFreeSlot(r) \in Slots
         /\ FindFreeSlot(r) # r
         /\ FindFreeSlot(r) # display_idx
<1>1. \E s \in FreeSlots(r) : \A t \in FreeSlots(r) : s <= t
  <2>1. CASE 0 \in FreeSlots(r)
    BY <2>1 DEF FreeSlots, Slots
  <2>2. CASE 0 \notin FreeSlots(r) /\ 1 \in FreeSlots(r)
    BY <2>2 DEF FreeSlots, Slots
  <2>3. CASE 0 \notin FreeSlots(r) /\ 1 \notin FreeSlots(r)
    BY <2>3 DEF FreeSlots, Slots
  <2> QED BY <2>1, <2>2, <2>3
<1>2. FindFreeSlot(r) \in FreeSlots(r)
  BY <1>1 DEF FindFreeSlot
<1> QED BY <1>2 DEF FreeSlots

-----------------------------------------------------------------------------
(* Type correctness *)

InSlots(fd) == fd.buf \in Slots /\ fd.sync \in Slots

\* What makes TypeOK inductive: a frame is begun only within the bound, and the
\* pointers the GUI will follow point somewhere.
TypeInv ==
  /\ TypeOK
  /\ part = "bottom" => frame <= MaxFrames
  /\ last_frame # NoFrame => InSlots(last_frame)
  /\ UploadPending => InSlots(snapshot_fd)

\* A tick of the chip, on either thread, keeps every variable it writes in type.
LEMMA TickType ==
  ASSUME TypeInv, Tick
  PROVE  /\ write_idx' \in Slots /\ ready_idx' \in Slots \cup {NoSlot}
         /\ display_idx' \in Slots \cup {NoSlot}
         /\ slots' \in [Slots -> SlotData]
         /\ completed' \in Slots \cup {NoSlot} /\ completed_sync' \in Slots \cup {NoSlot}
         /\ frame' \in 1 .. MaxFrames + 1 /\ part' \in {"top", "bottom"}
         /\ part' = "bottom" => frame' <= MaxFrames
<1> USE ConstantsAssumption
<1>0. TypeOK
  BY DEF TypeInv
<1>1. CASE DriveTop
  <2>1. frame \in FrameNo /\ Scratch \in FrameNo
    BY <1>0, <1>1 DEF TypeOK, DriveTop, FrameNo, Scratch
  <2>2. slots' \in [Slots -> SlotData]
    BY <1>0, <1>1, <2>1 DEF TypeOK, DriveTop, SlotData
  <2> QED BY <1>0, <1>1, <2>2 DEF TypeOK, DriveTop, pipelineVars
<1>2. CASE DriveFrameEnd
  <2> DEFINE nw == FindFreeSlot(write_idx)
  <2>1. frame \in FrameNo /\ part = "bottom" /\ frame + 1 \in 1 .. MaxFrames + 1
    BY <1>2 DEF TypeInv, TypeOK, DriveFrameEnd, FrameNo
  <2>2. write_idx \in Slots /\ nw \in Slots
    BY <1>0, FreeSlotExists DEF TypeOK
  <2>3. slots' = [slots EXCEPT ![write_idx].bottom = frame,
                               ![write_idx].sync = @ \cup {frame},
                               ![nw].sync = {}]
    BY <1>2 DEF DriveFrameEnd
  <2>4. slots' \in [Slots -> SlotData]
    <3> HIDE DEF nw
    <3>1. slots \in [Slots -> SlotData]
      BY <1>0 DEF TypeOK
    <3> QED BY <2>1, <2>2, <2>3, <3>1 DEF SlotData
  <2>5. write_idx' = nw /\ ready_idx' = write_idx /\ completed' = write_idx
          /\ completed_sync' = write_idx /\ part' = "top" /\ frame' = frame + 1
          /\ display_idx' = display_idx
    BY <1>2 DEF DriveFrameEnd
  <2> HIDE DEF nw
  <2> QED BY <1>0, <2>1, <2>2, <2>4, <2>5 DEF TypeOK
<1>3. CASE DriveFrameEndWarping
  <2>1. Scratch \in FrameNo /\ frame + 1 \in 1 .. MaxFrames + 1
    BY <1>3 DEF TypeInv, TypeOK, DriveFrameEndWarping, FrameNo, Scratch
  <2>2. slots' \in [Slots -> SlotData]
    BY <1>0, <1>3, <2>1 DEF TypeOK, DriveFrameEndWarping, SlotData
  <2> QED BY <1>0, <1>3, <2>1, <2>2 DEF TypeOK, DriveFrameEndWarping, pipelineVars
<1> QED BY <1>1, <1>2, <1>3 DEF Tick

\* The values the port hands to last_frame_data_ are slots, or nothing.
LEMMA SwapType ==
  ASSUME TypeInv
  PROVE  /\ SwapResult \in FrameData
         /\ SwapResult # NoFrame => InSlots(SwapResult)
<1>1. CASE warping
  BY <1>1 DEF TypeInv, TypeOK, SwapResult
<1>2. CASE ~warping
  BY <1>2 DEF TypeInv, TypeOK, SwapResult, SwappedFrame, FrameData, InSlots, ActiveBuf, Slots
<1> QED BY <1>1, <1>2

LEMMA InitType == Init => TypeInv
<1> USE ConstantsAssumption
<1>1. ASSUME Init PROVE slots \in [Slots -> SlotData] /\ texture \in Picture
  BY <1>1 DEF Init, SlotData, Picture, FrameNo, Scratch
<1>2. ASSUME Init PROVE last_frame \in FrameData /\ snapshot_fd \in FrameData
  BY <1>2 DEF Init, FrameData, NoFrame
<1>3. ASSUME Init PROVE frame \in 1 .. MaxFrames + 1
  BY <1>3 DEF Init
<1>4. ASSUME Init PROVE last_frame = NoFrame /\ ~UploadPending /\ part = "top"
  BY <1>4 DEF Init, UploadPending
<1>5. ASSUME Init PROVE TypeOK
  <2>1. /\ warping \in BOOLEAN /\ frames_ran \in BOOLEAN /\ warp_batch \in BOOLEAN
        /\ has_snapshot \in BOOLEAN /\ fb_new_frame \in BOOLEAN /\ paused \in BOOLEAN
    BY <1>5 DEF Init
  <2>2. /\ write_idx \in Slots /\ ready_idx = NoSlot /\ display_idx = NoSlot
        /\ completed = NoSlot /\ completed_sync = NoSlot
        /\ part = "top" /\ emu = "idle" /\ gui = "idle"
    BY <1>5 DEF Init, Slots
  <2> QED BY <1>1, <1>2, <1>3, <1>5, <2>1, <2>2 DEF TypeOK
<1> QED BY <1>4, <1>5 DEF TypeInv

LEMMA NextType == TypeInv /\ [Next]_vars => TypeInv'
<1> SUFFICES ASSUME TypeInv, [Next]_vars PROVE TypeInv'
  OBVIOUS
<1> USE DEF TypeInv, UploadPending, InSlots
<1>1. CASE EmuCheckRunning
  <2>1. frames_ran' \in BOOLEAN /\ warp_batch' \in BOOLEAN
    BY <1>1 DEF EmuCheckRunning
  <2> QED
    BY <1>1, <2>1 DEF EmuCheckRunning, TypeOK, pipelineVars, portVars, chipVars, decoderVars, guiVars
<1>2. CASE EmuLock
  BY <1>2 DEF EmuLock, TypeOK, pipelineVars, portVars, chipVars, decoderVars, guiVars
<1>3. CASE RunFrame
  BY <1>3 DEF RunFrame, TypeOK, pipelineVars, chipVars, decoderVars, guiVars
<1>4. CASE EmuTick
  <2>1. UNCHANGED <<warping, last_frame, emuVars, decoderVars, guiVars>> /\ Tick
    BY <1>4 DEF EmuTick
  <2> QED BY <2>1, TickType DEF TypeOK, emuVars, decoderVars, guiVars
<1>5. CASE SwapFrame
  <2>1. last_frame' \in FrameData /\ (last_frame' # NoFrame => InSlots(last_frame'))
    BY <1>5, SwapType DEF SwapFrame
  <2>2. frames_ran' \in BOOLEAN
    BY <1>5 DEF SwapFrame
  <2> QED
    BY <1>5, <2>1, <2>2 DEF SwapFrame, TypeOK, pipelineVars, chipVars, decoderVars, guiVars
<1>6. CASE EmuUnlock
  BY <1>6 DEF EmuUnlock, TypeOK, pipelineVars, portVars, chipVars, decoderVars, guiVars
<1>7. CASE EmuSnapshot
  <2>1. has_snapshot' \in BOOLEAN
    BY <1>7 DEF EmuSnapshot, TypeOK
  <2>2. fb_new_frame' \in BOOLEAN
    BY <1>7, <2>1 DEF EmuSnapshot, Notify, TypeOK
  <2>3. snapshot_fd' \in FrameData /\ display_idx' \in Slots \cup {NoSlot}
    BY <1>7 DEF EmuSnapshot, Claim, TypeOK
  <2>4. UploadPending' => InSlots(snapshot_fd')
    BY <1>7 DEF EmuSnapshot, GuiHoldsFbMutex, guiVars
  <2> QED BY <1>7, <2>1, <2>2, <2>3, <2>4 DEF EmuSnapshot, TypeOK, portVars, chipVars, guiVars
<1>8. CASE GuiTakeNotice
  <2>1. fb_new_frame' \in BOOLEAN
    BY <1>8 DEF GuiTakeNotice
  <2> QED BY <1>8, <2>1 DEF GuiTakeNotice, TypeOK, pipelineVars, portVars, chipVars, emuVars
<1>9. CASE GuiLock
  <2>1. has_snapshot' \in BOOLEAN
    BY <1>9 DEF GuiLock
  <2>2. UploadPending' => UploadPending
    BY <1>9 DEF GuiLock
  <2> QED
    BY <1>9, <2>1, <2>2 DEF GuiLock, TypeOK, pipelineVars, portVars, chipVars, emuVars
<1>10. CASE GuiReadTop
  <2>1. texture' \in Picture
    BY <1>10 DEF GuiReadTop, TypeOK, Picture, SlotData, InSlots
  <2> QED BY <1>10, <2>1 DEF GuiReadTop, TypeOK, pipelineVars, portVars, chipVars, emuVars,
                             decoderVars
<1>11. CASE GuiReadBottom
  <2>1. texture' \in Picture
    BY <1>11 DEF GuiReadBottom, TypeOK, Picture, SlotData, InSlots
  <2> QED BY <1>11, <2>1 DEF GuiReadBottom, TypeOK, pipelineVars, portVars, chipVars, emuVars,
                             decoderVars
<1>12. CASE GuiReadSync
  <2>1. texture' \in Picture
    BY <1>12 DEF GuiReadSync, TypeOK, Picture, SlotData, InSlots
  <2> QED BY <1>12, <2>1 DEF GuiReadSync, TypeOK, pipelineVars, portVars, chipVars, emuVars,
                             decoderVars
<1>13. CASE GuiRelease
  BY <1>13 DEF GuiRelease, TypeOK, portVars, chipVars, emuVars, decoderVars
<1>14. CASE GuiTogglePause
  BY <1>14 DEF GuiTogglePause, TypeOK, pipelineVars, portVars, chipVars, emuVars, decoderVars
<1>15. CASE GuiStep
  <2>1. UNCHANGED <<warping, last_frame, emuVars, decoderVars, guiVars>> /\ Tick
    BY <1>15 DEF GuiStep
  <2> QED BY <2>1, TickType DEF TypeOK, emuVars, decoderVars, guiVars
<1>16. CASE UNCHANGED vars
  BY <1>16 DEF vars, TypeOK, pipelineVars, portVars, chipVars, emuVars, decoderVars, guiVars
<1> QED
  BY <1>1, <1>2, <1>3, <1>4, <1>5, <1>6, <1>7, <1>8, <1>9, <1>10, <1>11, <1>12, <1>13,
     <1>14, <1>15, <1>16 DEF Next, EmuNext, GuiUpload

\* The state of the display path never leaves its types, whatever the systems and
\* the user do.
THEOREM TypeCorrect == Spec => []TypeOK
<1>1. TypeInv => TypeOK
  BY DEF TypeInv
<1> QED BY InitType, NextType, <1>1, PTL DEF Spec

-----------------------------------------------------------------------------
(* The three roles of a slot *)

LEMMA RolesInit == Init => SlotRolesDisjoint
BY DEF Init, SlotRolesDisjoint, NoSlot

LEMMA RolesNext == TypeInv /\ SlotRolesDisjoint /\ [Next]_vars => SlotRolesDisjoint'
<1> SUFFICES ASSUME TypeInv, SlotRolesDisjoint, [Next]_vars PROVE SlotRolesDisjoint'
  OBVIOUS
<1> USE DEF SlotRolesDisjoint
<1>0. TypeOK
  BY DEF TypeInv
<1>1. CASE Tick
  <2>1. CASE DriveFrameEnd
    <3>1. /\ FindFreeSlot(write_idx) # write_idx
          /\ FindFreeSlot(write_idx) # display_idx
      BY <1>0, FreeSlotExists DEF TypeOK
    <3> QED BY <2>1, <3>1 DEF DriveFrameEnd
  <2>2. CASE DriveTop \/ DriveFrameEndWarping
    BY <2>2 DEF DriveTop, DriveFrameEndWarping, pipelineVars
  <2> QED BY <1>1, <2>1, <2>2 DEF Tick
<1>2. CASE EmuSnapshot
  BY <1>2 DEF EmuSnapshot, Claim
<1>3. CASE GuiRelease
  BY <1>0, <1>3 DEF GuiRelease, TypeOK, Slots, NoSlot
<1>4. CASE UNCHANGED pipelineVars
  BY <1>4 DEF pipelineVars
<1> QED
  BY <1>1, <1>2, <1>3, <1>4 DEF Next, EmuNext, GuiUpload, EmuCheckRunning, EmuLock, RunFrame,
     EmuTick, SwapFrame, EmuUnlock, GuiTakeNotice, GuiLock, GuiReadTop, GuiReadBottom,
     GuiReadSync, GuiTogglePause, GuiStep, vars

\* WRITE never meets READY or the claimed slot, even when a system gives up
\* waiting for FrameEnd and when the user steps.
THEOREM RolesDisjoint == Spec => []SlotRolesDisjoint
BY InitType, NextType, RolesInit, RolesNext, PTL DEF Spec

-----------------------------------------------------------------------------
(* Claim and snapshot *)

SlotFrame(s) == [buf |-> s, sync |-> s]

\* Outside run_frame, the last frame data lie in the READY slot ...
LastIsReady == last_frame = NoFrame \/ (ready_idx \in Slots /\ last_frame = SlotFrame(ready_idx))

\* ... and inside it they lag behind READY only between FrameEnd and swap_frame,
\* when completed_base holds the difference.
ClaimInv ==
  /\ ClaimCoversSnapshot
  /\ GuiHoldsFbMutex => ~has_snapshot
  /\ completed = NoSlot => completed_sync = NoSlot /\ LastIsReady
  /\ completed # NoSlot => /\ emu = "frame"
                           /\ warping => LastIsReady
                           /\ ~warping => ready_idx \in Slots /\ completed = ready_idx
                                             /\ completed_sync = ready_idx

LEMMA ClaimInit == Init => ClaimInv
BY DEF Init, ClaimInv, ClaimCoversSnapshot, UploadPending, GuiHoldsFbMutex, LastIsReady

LEMMA ClaimNext ==
  ASSUME ~MayGiveUp, ~MayStep
  PROVE  TypeInv /\ ClaimInv /\ [Next]_vars => ClaimInv'
<1> SUFFICES ASSUME TypeInv, ClaimInv, [Next]_vars PROVE ClaimInv'
  OBVIOUS
<1>0. TypeOK
  BY DEF TypeInv
<1> USE DEF ClaimInv, ClaimCoversSnapshot, UploadPending, GuiHoldsFbMutex, LastIsReady
<1>1. CASE EmuCheckRunning
  BY <1>1 DEF EmuCheckRunning, pipelineVars, portVars, decoderVars, guiVars
<1>2. CASE EmuLock
  BY <1>2 DEF EmuLock, pipelineVars, portVars, decoderVars, guiVars
<1>3. CASE RunFrame
  BY <1>3 DEF RunFrame, pipelineVars, decoderVars, guiVars
<1>4. CASE EmuTick
  <2>1. /\ emu = "frame" /\ completed = NoSlot /\ Tick
        /\ UNCHANGED <<warping, last_frame, emuVars, decoderVars, guiVars>>
    BY <1>4 DEF EmuTick
  <2>2. CASE DriveTop
    BY <2>1, <2>2 DEF DriveTop, pipelineVars, emuVars, decoderVars, guiVars
  <2>3. CASE ~warping /\ DriveFrameEnd
    BY <1>0, <2>1, <2>3 DEF DriveFrameEnd, TypeOK, emuVars, decoderVars, guiVars, NoSlot, Slots
  <2>4. CASE warping /\ DriveFrameEndWarping
    BY <2>1, <2>4 DEF DriveFrameEndWarping, pipelineVars, emuVars, decoderVars, guiVars
  <2> QED BY <2>1, <2>2, <2>3, <2>4 DEF Tick
<1>5. CASE SwapFrame
  <2>1. completed # NoSlot
    BY <1>5 DEF SwapFrame
  <2>2. LastIsReady'
    BY <1>5, <2>1 DEF SwapFrame, SwapResult, SwappedFrame, SlotFrame, pipelineVars, NoSlot, Slots
  <2> QED BY <1>5, <2>2 DEF SwapFrame, pipelineVars, decoderVars, guiVars
<1>6. CASE EmuUnlock
  BY <1>6 DEF EmuUnlock, pipelineVars, portVars, decoderVars, guiVars
<1>7. CASE EmuSnapshot
  <2>1. completed = NoSlot /\ ~GuiHoldsFbMutex
    BY <1>7 DEF EmuSnapshot
  <2>2. ClaimCoversSnapshot'
    BY <1>7, <2>1 DEF EmuSnapshot, Claim, SlotFrame, guiVars, NoSlot, Slots
  <2> QED BY <1>7, <2>1, <2>2 DEF EmuSnapshot, portVars, guiVars
<1>8. CASE GuiTakeNotice
  BY <1>8 DEF GuiTakeNotice, pipelineVars, portVars, emuVars
<1>9. CASE GuiLock
  BY <1>9 DEF GuiLock, pipelineVars, portVars, emuVars
<1>10. CASE GuiReadTop \/ GuiReadBottom \/ GuiReadSync
  BY <1>10 DEF GuiReadTop, GuiReadBottom, GuiReadSync, pipelineVars, portVars, emuVars, decoderVars
<1>11. CASE GuiRelease
  BY <1>11 DEF GuiRelease, portVars, emuVars, decoderVars
<1>12. CASE GuiTogglePause
  BY <1>12 DEF GuiTogglePause, pipelineVars, portVars, emuVars, decoderVars
<1>13. CASE UNCHANGED vars
  BY <1>13 DEF vars, pipelineVars, portVars, emuVars, decoderVars, guiVars
<1> QED
  BY <1>1, <1>2, <1>3, <1>4, <1>5, <1>6, <1>7, <1>8, <1>9, <1>10, <1>11, <1>12, <1>13
  DEF Next, EmuNext, GuiUpload, GuiStep

\* For a system that waits for FrameEnd and a user who does not step, the claimed
\* slot is exactly the one whose pointers the decoder holds (session_gui.cpp,
\* "claim() prevents the DisplayPipeline from overwriting the completed buffer").
THEOREM ClaimCovers ==
  ASSUME ~MayGiveUp, ~MayStep
  PROVE  Spec => []ClaimCoversSnapshot
<1>1. ClaimInv => ClaimCoversSnapshot
  BY DEF ClaimInv
<1> QED BY InitType, NextType, ClaimInit, ClaimNext, <1>1, PTL DEF Spec

-----------------------------------------------------------------------------
(* The picture on the screen *)

\* The WRITE slot holds what has been drawn of the current frame and nothing of an
\* earlier one; the READY and the claimed slot hold whole frames; the texture is
\* filled from one of these.
PictureInv ==
  /\ completed # NoSlot \/ emu # "frame" => part = "top"
  /\ slots[write_idx].sync = IF part = "bottom" /\ ~warping THEN {frame} ELSE {}
  /\ part = "bottom" /\ ~warping => slots[write_idx].top = frame
  /\ ready_idx # NoSlot => Whole(slots[ready_idx])
  /\ display_idx # NoSlot => Whole(slots[display_idx])
  /\ gui \in {"more", "events"} => texture.top = slots[snapshot_fd.buf].top
  /\ gui = "events" => texture.bottom = slots[snapshot_fd.buf].bottom
  /\ gui \in {"idle", "waitFb", "unlock"} => texture = Blank \/ Whole(texture)

FullInv == TypeInv /\ SlotRolesDisjoint /\ ClaimInv /\ PictureInv

\* Drawing a part of a frame disturbs neither the READY nor the claimed slot.
LEMMA DrawingPreservesPicture ==
  ASSUME FullInv, Tick, emu = "frame", completed = NoSlot,
         UNCHANGED <<warping, last_frame, emuVars, decoderVars, guiVars>>
  PROVE  PictureInv'
<1> USE DEF FullInv
<1>0. TypeOK
  BY DEF TypeInv
<1>1. /\ write_idx \in Slots /\ slots \in [Slots -> SlotData]
      /\ display_idx \in Slots \cup {NoSlot} /\ ready_idx \in Slots \cup {NoSlot}
      /\ write_idx # NoSlot /\ write_idx # display_idx /\ write_idx # ready_idx
      /\ frame \in Nat /\ frame # Scratch
  BY <1>0, ConstantsAssumption DEF TypeOK, SlotRolesDisjoint, Scratch, Slots, NoSlot
<1>2. /\ display_idx' = display_idx /\ emu' = emu /\ gui' = gui /\ texture' = texture
      /\ snapshot_fd' = snapshot_fd /\ warping' = warping /\ has_snapshot' = has_snapshot
  BY DEF Tick, DriveTop, DriveFrameEnd, DriveFrameEndWarping, pipelineVars, emuVars, guiVars,
         decoderVars
<1>3. ASSUME NEW s \in Slots, s # write_idx,
             s # FindFreeSlot(write_idx) \/ ~DriveFrameEnd
      PROVE  slots'[s] = slots[s]
  BY <1>1, <1>3 DEF Tick, DriveTop, DriveFrameEnd, DriveFrameEndWarping
<1>4. /\ FindFreeSlot(write_idx) \in Slots
      /\ FindFreeSlot(write_idx) # write_idx /\ FindFreeSlot(write_idx) # display_idx
  BY <1>0, <1>1, FreeSlotExists
<1>5. display_idx # NoSlot => slots'[display_idx] = slots[display_idx]
  BY <1>1, <1>3, <1>4
<1>6. gui \in {"more", "events"} => display_idx # NoSlot /\ snapshot_fd.buf = display_idx
  BY <1>0 DEF ClaimInv, ClaimCoversSnapshot, UploadPending, TypeInv, InSlots, Slots, NoSlot
<1>7. /\ display_idx' # NoSlot => Whole(slots'[display_idx'])
      /\ gui' \in {"more", "events"} => texture'.top = slots'[snapshot_fd'.buf].top
      /\ gui' = "events" => texture'.bottom = slots'[snapshot_fd'.buf].bottom
      /\ gui' \in {"idle", "waitFb", "unlock"} => texture' = Blank \/ Whole(texture')
  BY <1>2, <1>5, <1>6 DEF PictureInv, Whole
<1>8. CASE DriveTop
  <2>1. /\ write_idx' = write_idx /\ ready_idx' = ready_idx /\ part = "top" /\ part' = "bottom"
        /\ completed' = completed /\ frame' = frame
    BY <1>8 DEF DriveTop, pipelineVars
  <2>2. /\ slots'[write_idx].top = IF warping THEN Scratch ELSE frame
        /\ slots'[write_idx].sync = IF warping THEN {} ELSE {frame}
    BY <1>1, <1>8 DEF DriveTop, SlotData, PictureInv
  <2>3. ready_idx # NoSlot => slots'[ready_idx] = slots[ready_idx]
    BY <1>1, <1>8 DEF DriveTop
  <2> QED BY <1>2, <1>7, <2>1, <2>2, <2>3 DEF PictureInv
<1>9. CASE ~warping /\ DriveFrameEnd
  <2> DEFINE nw == FindFreeSlot(write_idx)
  <2>1. /\ write_idx' = nw /\ ready_idx' = write_idx /\ part = "bottom" /\ part' = "top"
    BY <1>9 DEF DriveFrameEnd
  <2>2. slots' = [slots EXCEPT ![write_idx].bottom = frame,
                               ![write_idx].sync = @ \cup {frame},
                               ![nw].sync = {}]
    BY <1>9 DEF DriveFrameEnd
  <2>3. nw \in Slots /\ nw # write_idx
    BY <1>4
  <2>4. slots[write_idx].top = frame /\ slots[write_idx].sync = {frame}
    BY <1>9, <2>1 DEF PictureInv
  <2>5. Whole(slots'[write_idx]) /\ slots'[nw].sync = {}
    <3> HIDE DEF nw
    <3>1. slots[write_idx] \in SlotData /\ slots[nw] \in SlotData
      BY <1>1, <2>3
    <3> QED BY <1>1, <2>2, <2>3, <2>4, <3>1 DEF Whole, SlotData
  <2> HIDE DEF nw
  <2> QED BY <1>1, <1>2, <1>7, <2>1, <2>5 DEF PictureInv
<1>10. CASE warping /\ DriveFrameEndWarping
  <2>1. /\ write_idx' = write_idx /\ ready_idx' = ready_idx /\ part = "bottom" /\ part' = "top"
    BY <1>10 DEF DriveFrameEndWarping, pipelineVars
  <2>2. slots'[write_idx].sync = {}
    BY <1>1, <1>10 DEF DriveFrameEndWarping, SlotData, PictureInv
  <2>3. ready_idx # NoSlot => slots'[ready_idx] = slots[ready_idx]
    BY <1>1, <1>10 DEF DriveFrameEndWarping
  <2> QED BY <1>2, <1>7, <2>1, <2>2, <2>3 DEF PictureInv
<1> QED BY <1>8, <1>9, <1>10 DEF Tick

LEMMA PictureInit == Init => PictureInv
<1> SUFFICES ASSUME Init PROVE PictureInv
  OBVIOUS
<1>1. write_idx \in Slots /\ slots[write_idx].sync = {}
  BY DEF Init, Slots
<1> QED BY <1>1 DEF Init, PictureInv, Blank

LEMMA PictureNext ==
  ASSUME ~MayGiveUp, ~MayStep
  PROVE  FullInv /\ [Next]_vars => PictureInv'
<1> SUFFICES ASSUME FullInv, [Next]_vars PROVE PictureInv'
  OBVIOUS
<1>0. TypeInv /\ TypeOK /\ ClaimInv /\ PictureInv
  BY DEF FullInv, TypeInv
<1>1. CASE EmuCheckRunning
  BY <1>0, <1>1 DEF EmuCheckRunning, PictureInv, pipelineVars, portVars, chipVars, decoderVars, guiVars
<1>2. CASE EmuLock
  BY <1>0, <1>2 DEF EmuLock, PictureInv, pipelineVars, portVars, chipVars, decoderVars, guiVars
<1>3. CASE RunFrame
  BY <1>0, <1>3 DEF RunFrame, PictureInv, pipelineVars, chipVars, decoderVars, guiVars
<1>4. CASE EmuTick
  BY <1>4, DrawingPreservesPicture DEF EmuTick
<1>5. CASE SwapFrame
  BY <1>0, <1>5 DEF SwapFrame, PictureInv, pipelineVars, chipVars, decoderVars, guiVars
<1>6. CASE EmuUnlock
  BY <1>0, <1>6 DEF EmuUnlock, PictureInv, pipelineVars, portVars, chipVars, decoderVars, guiVars
<1>7. CASE EmuSnapshot
  <2>1. gui' = gui /\ gui \notin {"more", "events"} /\ emu = "waitFb"
    BY <1>7 DEF EmuSnapshot, GuiHoldsFbMutex, guiVars
  <2>2. display_idx' = display_idx \/ display_idx' = ready_idx
    BY <1>7 DEF EmuSnapshot, Claim
  <2> QED BY <1>0, <1>7, <2>1, <2>2 DEF EmuSnapshot, PictureInv, portVars, chipVars, guiVars
<1>8. CASE GuiTakeNotice
  BY <1>0, <1>8 DEF GuiTakeNotice, PictureInv, pipelineVars, portVars, chipVars, emuVars
<1>9. CASE GuiLock
  BY <1>0, <1>9 DEF GuiLock, PictureInv, pipelineVars, portVars, chipVars, emuVars
<1>10. CASE GuiReadTop
  <2>1. texture'.top = slots[snapshot_fd.buf].top
    BY <1>0, <1>10 DEF GuiReadTop, TypeOK, Picture
  <2> QED BY <1>0, <1>10, <2>1 DEF GuiReadTop, PictureInv, pipelineVars, portVars, chipVars, emuVars,
                                decoderVars
<1>11. CASE GuiReadBottom
  <2>1. /\ texture'.top = slots[snapshot_fd.buf].top
        /\ texture'.bottom = slots[snapshot_fd.buf].bottom
    BY <1>0, <1>11 DEF GuiReadBottom, TypeOK, Picture, PictureInv
  <2> QED BY <1>0, <1>11, <2>1 DEF GuiReadBottom, PictureInv, pipelineVars, portVars, chipVars,
                                emuVars, decoderVars
<1>12. CASE GuiReadSync
  <2>1. snapshot_fd.buf = display_idx /\ snapshot_fd.sync = display_idx /\ display_idx # NoSlot
    BY <1>0, <1>12 DEF GuiReadSync, ClaimInv, ClaimCoversSnapshot, UploadPending, TypeInv, InSlots,
                       Slots, NoSlot
  <2>2. Whole(slots[display_idx])
    BY <1>0, <2>1 DEF PictureInv
  <2>3. texture' = [texture EXCEPT !.sync = slots[display_idx].sync]
    BY <1>12, <2>1 DEF GuiReadSync
  <2>4. texture.top = slots[display_idx].top /\ texture.bottom = slots[display_idx].bottom
    BY <1>0, <1>12, <2>1 DEF GuiReadSync, PictureInv
  <2>5. Whole(texture')
    BY <1>0, <2>2, <2>3, <2>4 DEF Whole, TypeOK, Picture
  <2> QED BY <1>0, <1>12, <2>5 DEF GuiReadSync, PictureInv, pipelineVars, portVars, chipVars, emuVars,
                                decoderVars
<1>13. CASE GuiRelease
  BY <1>0, <1>13 DEF GuiRelease, PictureInv, portVars, chipVars, emuVars, decoderVars
<1>14. CASE GuiTogglePause
  BY <1>0, <1>14 DEF GuiTogglePause, PictureInv, pipelineVars, portVars, chipVars, emuVars, decoderVars
<1>15. CASE UNCHANGED vars
  BY <1>0, <1>15 DEF vars, PictureInv, pipelineVars, portVars, chipVars, emuVars, decoderVars, guiVars
<1> QED
  BY <1>1, <1>2, <1>3, <1>4, <1>5, <1>6, <1>7, <1>8, <1>9, <1>10, <1>11, <1>12, <1>13, <1>14,
     <1>15 DEF Next, EmuNext, GuiUpload, GuiStep

\* The whole invariant of the display path.
LEMMA FullInvariant ==
  ASSUME ~MayGiveUp, ~MayStep
  PROVE  Spec => []FullInv
<1>1. Init => FullInv
  BY InitType, RolesInit, ClaimInit, PictureInit DEF FullInv
<1>2. FullInv /\ [Next]_vars => FullInv'
  BY NextType, RolesNext, ClaimNext, PictureNext DEF FullInv
<1> QED BY <1>1, <1>2, PTL DEF Spec

\* What the viewer sees is always one whole frame with its own sync events,
\* although the upload reads the slot without stopping the chip.
THEOREM PictureIsWhole ==
  ASSUME ~MayGiveUp, ~MayStep
  PROVE  Spec => []WholePicture
<1>1. FullInv => WholePicture
  BY DEF FullInv, PictureInv, WholePicture
<1> QED BY FullInvariant, <1>1, PTL

-----------------------------------------------------------------------------
(* The notice *)

LEMMA NoticeNext == NoStrandedFrame /\ [Next]_vars => NoStrandedFrame'
<1> SUFFICES ASSUME NoStrandedFrame, [Next]_vars PROVE NoStrandedFrame'
  OBVIOUS
<1> USE DEF NoStrandedFrame
<1>1. CASE EmuSnapshot
  BY <1>1 DEF EmuSnapshot, Notify, guiVars
<1>2. CASE GuiTakeNotice
  BY <1>2 DEF GuiTakeNotice
<1>3. CASE GuiLock
  BY <1>3 DEF GuiLock
<1>4. CASE UNCHANGED decoderVars /\ (gui = "waitFb" => gui' = "waitFb")
  BY <1>4 DEF decoderVars
<1> QED
  BY <1>1, <1>2, <1>3, <1>4 DEF Next, EmuNext, GuiUpload, EmuCheckRunning, EmuLock, RunFrame,
     EmuTick, SwapFrame, EmuUnlock, GuiReadTop, GuiReadBottom, GuiReadSync, GuiRelease,
     GuiTogglePause, GuiStep, vars, guiVars

\* A snapshot taken between the GUI's exchange of fb_new_frame_ and its lock is
\* announced again or taken by that lock, whatever systems give up or users step.
THEOREM FrameIsAnnounced == Spec => []NoStrandedFrame
<1>1. Init => NoStrandedFrame
  BY DEF Init, NoStrandedFrame
<1> QED BY <1>1, NoticeNext, PTL DEF Spec

-----------------------------------------------------------------------------
(* Refinement *)

\* Frames are completed in the order they are drawn.
OrderInv == CompletedFrame < frame

RefinementInv == FullInv /\ OrderInv

\* Where the three frames of the mailbox are, in terms of whole slots.
LEMMA MappedFrames ==
  ASSUME FullInv
  PROVE  /\ CompletedFrame \in FrameNo
         /\ ready_idx # NoSlot => CompletedFrame = slots[ready_idx].bottom /\ CompletedFrame # 0
         /\ UploadPending => /\ display_idx \in Slots /\ Whole(slots[display_idx])
                             /\ snapshot_fd = SlotFrame(display_idx)
                             /\ HandedOverFrame = slots[display_idx].bottom
                             /\ HandedOverFrame # 0
<1>1. TypeInv /\ TypeOK /\ PictureInv /\ ClaimCoversSnapshot
  BY DEF FullInv, TypeInv, ClaimInv
<1>2. ready_idx # NoSlot => ready_idx \in Slots /\ slots[ready_idx] \in SlotData
                              /\ Whole(slots[ready_idx])
  BY <1>1 DEF TypeOK, PictureInv
<1>3. CompletedFrame \in FrameNo
         /\ (ready_idx # NoSlot => CompletedFrame = slots[ready_idx].bottom /\ CompletedFrame # 0)
  BY <1>2, ConstantsAssumption DEF CompletedFrame, FrameNo, SlotData, Whole, Scratch
<1>4. UploadPending => display_idx \in Slots /\ snapshot_fd = SlotFrame(display_idx)
  BY <1>1 DEF TypeInv, TypeOK, InSlots, ClaimCoversSnapshot, SlotFrame
<1>5. UploadPending => Whole(slots[display_idx])
  BY <1>1, <1>4 DEF PictureInv, Slots, NoSlot
<1>6. UploadPending => HandedOverFrame = slots[display_idx].bottom /\ HandedOverFrame # 0
  BY <1>4, <1>5 DEF HandedOverFrame, SlotFrame, Whole, Scratch
<1> QED BY <1>3, <1>4, <1>5, <1>6

\* A tick of the chip completes a frame or is invisible.
LEMMA TickRefines ==
  ASSUME RefinementInv, EmuTick
  PROVE  /\ \/ CompletedFrame' = frame /\ frame \in FrameNo /\ frame' = frame + 1
            \/ CompletedFrame' = CompletedFrame /\ frame' \in {frame, frame + 1}
         /\ HandedOverFrame' = HandedOverFrame /\ ShownFrame' = ShownFrame
<1>0. TypeInv /\ TypeOK /\ FullInv /\ OrderInv
  BY DEF RefinementInv, FullInv, TypeInv
<1>1. /\ write_idx \in Slots /\ slots \in [Slots -> SlotData]
      /\ ready_idx \in Slots \cup {NoSlot}
      /\ write_idx # NoSlot /\ write_idx # display_idx /\ write_idx # ready_idx
  BY <1>0 DEF TypeOK, FullInv, SlotRolesDisjoint, Slots, NoSlot
<1>2. /\ UNCHANGED <<gui, texture, snapshot_fd, has_snapshot>>
      /\ Tick
  BY DEF EmuTick, guiVars, decoderVars
<1>3. ShownFrame' = ShownFrame
  BY <1>2 DEF ShownFrame
<1>4. UploadPending' = UploadPending
  BY <1>2 DEF UploadPending
<1>5. /\ FindFreeSlot(write_idx) \in Slots
      /\ FindFreeSlot(write_idx) # write_idx /\ FindFreeSlot(write_idx) # display_idx
  BY <1>0, <1>1, FreeSlotExists
<1>6. display_idx \in Slots => slots'[display_idx] = slots[display_idx]
  BY <1>1, <1>2, <1>5 DEF Tick, DriveTop, DriveFrameEnd, DriveFrameEndWarping
<1>7. HandedOverFrame' = HandedOverFrame
  BY <1>0, <1>2, <1>4, <1>6, MappedFrames DEF HandedOverFrame, SlotFrame
<1>8. CASE DriveTop
  <2>1. /\ ready_idx' = ready_idx /\ frame' = frame
        /\ ready_idx \in Slots => slots'[ready_idx] = slots[ready_idx]
    BY <1>1, <1>8 DEF DriveTop, pipelineVars
  <2> QED BY <1>1, <1>3, <1>7, <2>1 DEF CompletedFrame
<1>9. CASE DriveFrameEnd
  <2> DEFINE nw == FindFreeSlot(write_idx)
  <2>1. /\ ready_idx' = write_idx /\ frame' = frame + 1 /\ part = "bottom"
        /\ slots' = [slots EXCEPT ![write_idx].bottom = frame,
                                  ![write_idx].sync = @ \cup {frame},
                                  ![nw].sync = {}]
    BY <1>9 DEF DriveFrameEnd
  <2>2. frame \in FrameNo
    BY <1>0, <2>1, ConstantsAssumption DEF TypeInv, TypeOK, FrameNo
  <2>3. slots[write_idx] \in SlotData
    BY <1>1
  <2>4. nw # write_idx
    BY <1>5
  <2>5. slots'[write_idx].bottom = frame
    <3> HIDE DEF nw
    <3> QED BY <1>1, <2>1, <2>3, <2>4 DEF SlotData
  <2>6. CompletedFrame' = frame
    BY <1>1, <2>1, <2>5 DEF CompletedFrame, NoSlot
  <2> QED BY <1>3, <1>7, <2>1, <2>2, <2>6
<1>10. CASE DriveFrameEndWarping
  <2>1. /\ ready_idx' = ready_idx /\ frame' = frame + 1
        /\ ready_idx \in Slots => slots'[ready_idx] = slots[ready_idx]
    BY <1>1, <1>10 DEF DriveFrameEndWarping, pipelineVars
  <2> QED BY <1>1, <1>3, <1>7, <2>1 DEF CompletedFrame
<1> QED BY <1>2, <1>8, <1>9, <1>10 DEF Tick

LEMMA OrderNext ==
  ASSUME ~MayGiveUp, ~MayStep
  PROVE  RefinementInv /\ [Next]_vars => OrderInv'
<1> SUFFICES ASSUME RefinementInv, [Next]_vars PROVE OrderInv'
  OBVIOUS
<1>0. CompletedFrame \in Int /\ frame \in Int
  BY MappedFrames, ConstantsAssumption DEF RefinementInv, FullInv, TypeInv, TypeOK, FrameNo
<1>1. CASE EmuTick
  BY <1>0, <1>1, TickRefines DEF RefinementInv, OrderInv
<1>2. CASE ~EmuTick
  <2>1. UNCHANGED <<ready_idx, slots, frame>>
    BY <1>2 DEF Next, EmuNext, GuiUpload, EmuCheckRunning, EmuLock, RunFrame, SwapFrame,
       EmuUnlock, EmuSnapshot, GuiTakeNotice, GuiLock, GuiReadTop, GuiReadBottom, GuiReadSync,
       GuiRelease, GuiTogglePause, GuiStep, vars, pipelineVars, chipVars
  <2> QED BY <2>1 DEF RefinementInv, OrderInv, CompletedFrame
<1> QED BY <1>1, <1>2

\* Every step of the display path is a step of the mailbox or invisible in it.
LEMMA StepRefines ==
  ASSUME ~MayGiveUp, ~MayStep
  PROVE  RefinementInv /\ [Next]_vars => [Mailbox!Next]_(Mailbox!mailboxVars)
<1> SUFFICES ASSUME RefinementInv, [Next]_vars
             PROVE  [Mailbox!Next]_(Mailbox!mailboxVars)
  OBVIOUS
<1> USE DEF Mailbox!mailboxVars
<1>0. FullInv /\ OrderInv /\ TypeInv /\ TypeOK /\ ClaimInv /\ PictureInv
  BY DEF RefinementInv, FullInv, TypeInv
<1>1. CASE EmuTick
  <2>1. CASE CompletedFrame' = frame /\ frame \in FrameNo
    <3>1. CompletedFrame' > CompletedFrame
      BY <1>0, <2>1, MappedFrames, ConstantsAssumption DEF OrderInv, FrameNo
    <3> QED BY <1>0, <1>1, <2>1, <3>1, TickRefines
            DEF RefinementInv, Mailbox!Next, Mailbox!Complete, Mailbox!Frames, FrameNo
  <2>2. CASE CompletedFrame' = CompletedFrame
    BY <1>1, <2>2, TickRefines
  <2> QED BY <1>1, <2>1, <2>2, TickRefines
<1>2. CASE EmuSnapshot
  <2>1. /\ UNCHANGED <<ready_idx, slots, texture, gui>> /\ completed = NoSlot
        /\ ~GuiHoldsFbMutex
    BY <1>0, <1>2 DEF EmuSnapshot, guiVars, ClaimInv
  <2>2. CompletedFrame' = CompletedFrame /\ ShownFrame' = ShownFrame
    BY <2>1 DEF CompletedFrame, ShownFrame
  <2>3. CASE last_frame = NoFrame
    <3>1. UNCHANGED <<snapshot_fd, has_snapshot>>
      BY <1>2, <2>3 DEF EmuSnapshot
    <3>2. HandedOverFrame' = HandedOverFrame
      BY <2>1, <3>1 DEF HandedOverFrame, UploadPending
    <3> QED BY <2>2, <3>2
  <2>4. CASE last_frame # NoFrame
    <3>1. ready_idx # NoSlot /\ last_frame = SlotFrame(ready_idx)
      BY <1>0, <2>1, <2>4 DEF ClaimInv, LastIsReady, Slots, NoSlot
    <3>2. snapshot_fd' = SlotFrame(ready_idx) /\ has_snapshot' = TRUE
      BY <1>2, <2>4, <3>1 DEF EmuSnapshot
    <3>3. HandedOverFrame' = CompletedFrame /\ CompletedFrame # 0
      BY <1>0, <2>1, <3>1, <3>2, MappedFrames DEF HandedOverFrame, UploadPending, SlotFrame
    <3> QED BY <2>2, <3>3 DEF Mailbox!Next, Mailbox!HandOver
  <2> QED BY <2>3, <2>4
<1>3. CASE GuiReadSync
  <2>1. /\ UNCHANGED <<ready_idx, slots>> /\ UploadPending /\ ~UploadPending'
        /\ texture' = [texture EXCEPT !.sync = slots[display_idx].sync]
    BY <1>0, <1>3, MappedFrames DEF GuiReadSync, UploadPending, pipelineVars, decoderVars, SlotFrame,
                                    ClaimInv, GuiHoldsFbMutex
  <2>2. CompletedFrame' = CompletedFrame
    BY <2>1 DEF CompletedFrame
  <2>3. texture'.sync = {HandedOverFrame}
    BY <1>0, <2>1, MappedFrames DEF TypeOK, Picture, Whole
  <2>4. ShownFrame' = HandedOverFrame /\ HandedOverFrame # 0 /\ HandedOverFrame' = 0
    BY <1>0, <2>1, <2>3, MappedFrames DEF ShownFrame, HandedOverFrame
  <2> QED BY <2>2, <2>4 DEF Mailbox!Next, Mailbox!Show
<1>4. CASE GuiReadTop \/ GuiReadBottom
  <2>1. UNCHANGED <<ready_idx, slots, snapshot_fd, has_snapshot>>
        /\ gui \in {"samples", "more"} /\ gui' \in {"more", "events"}
    BY <1>4 DEF GuiReadTop, GuiReadBottom, pipelineVars, decoderVars
  <2>2. texture'.sync = texture.sync
    BY <1>0, <1>4 DEF GuiReadTop, GuiReadBottom, TypeOK, Picture
  <2> QED BY <2>1, <2>2 DEF CompletedFrame, HandedOverFrame, ShownFrame, UploadPending
<1>5. CASE GuiLock
  <2>1. UNCHANGED <<ready_idx, slots, snapshot_fd, texture>> /\ UploadPending' = UploadPending
    BY <1>5 DEF GuiLock, UploadPending, pipelineVars
  <2> QED BY <2>1 DEF CompletedFrame, HandedOverFrame, ShownFrame
<1>6. CASE ~(EmuTick \/ EmuSnapshot \/ GuiReadTop \/ GuiReadBottom \/ GuiReadSync \/ GuiLock)
  <2>1. UNCHANGED <<ready_idx, slots, snapshot_fd, has_snapshot, texture>>
        /\ (gui' = gui \/ {gui, gui'} \subseteq {"idle", "waitFb", "unlock"})
    BY <1>6 DEF Next, EmuNext, GuiUpload, EmuCheckRunning, EmuLock, RunFrame, SwapFrame, EmuUnlock,
       GuiTakeNotice, GuiRelease, GuiTogglePause, GuiStep, vars, pipelineVars, decoderVars, guiVars
  <2> QED BY <2>1 DEF CompletedFrame, HandedOverFrame, ShownFrame, UploadPending
<1> QED BY <1>1, <1>2, <1>3, <1>4, <1>5, <1>6

\* The display path, with its slots, claims and locks, implements the mailbox: the
\* viewer is only ever shown the newest completed frame that was handed over, and
\* never an older one after a newer.
THEOREM MailboxRefined ==
  ASSUME ~MayGiveUp, ~MayStep
  PROVE  Spec => Mailbox!SafeSpec
<1>1. Init => Mailbox!Init /\ OrderInv
  BY DEF Init, Mailbox!Init, OrderInv, CompletedFrame, HandedOverFrame, ShownFrame, UploadPending
<1>2. Init => RefinementInv
  BY <1>1, InitType, RolesInit, ClaimInit, PictureInit DEF RefinementInv, FullInv
<1>3. RefinementInv /\ [Next]_vars => RefinementInv'
  BY NextType, RolesNext, ClaimNext, PictureNext, OrderNext DEF RefinementInv, FullInv
<1> QED BY <1>1, <1>2, <1>3, StepRefines, PTL DEF Spec, Mailbox!SafeSpec
=============================================================================
