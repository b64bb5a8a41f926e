---------------------------- MODULE FrameMailbox ----------------------------
(***************************************************************************)
(* What the display path promises the viewer, without slots, ports, locks  *)
(* or claims: the emulation completes frames, hands the newest completed   *)
(* one over through a one-place mailbox that overwrites, and the GUI shows *)
(* what it takes out.  Frames are numbered in the order the video chip     *)
(* draws them; 0 stands for "none yet".                                    *)
(***************************************************************************)
EXTENDS Naturals

CONSTANT MaxFrames      \* bound on the number of frames drawn

VARIABLES
  done,    \* newest frame completed in a buffer of its own
  box,     \* frame handed over and not yet shown (0 = empty)
  shown    \* frame the viewer sees

mailboxVars == <<done, box, shown>>

Frames == 0 .. MaxFrames

Init == done = 0 /\ box = 0 /\ shown = 0

\* A frame is completed; numbers may be skipped (warped frames are never shown).
Complete == /\ \E f \in Frames : f > done /\ done' = f
            /\ UNCHANGED <<box, shown>>

\* Only the newest completed frame is ever handed over.
HandOver == done # 0 /\ box' = done /\ UNCHANGED <<done, shown>>

Show == box # 0 /\ shown' = box /\ box' = 0 /\ UNCHANGED done

Next == Complete \/ HandOver \/ Show

SafeSpec == Init /\ [][Next]_mailboxVars

\* The viewer is served: a frame handed over does not stay in the box.
Spec == SafeSpec /\ WF_mailboxVars(Show)
=============================================================================
