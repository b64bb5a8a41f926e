-------------------------- MODULE SessionHostProofs --------------------------
(***************************************************************************)
(* Theorems about SessionHost, for an input queue of any bound.            *)
(***************************************************************************)
EXTENDS SessionHost, TLAPS

-----------------------------------------------------------------------------
(* The inductive invariant *)

\* Places of the GUI thread that hold a mutex, and those without a thread beside it.
GuiHoldsEmu == {"rebuild_fb", "disconnect", "connect", "step_fb"}
GuiHoldsFb  == {"disconnect", "connect", "uploading"}
Exclusive   == {"reset", "load", "switch", "create", "start"}

\* A mutex is held by whoever is where the code holds it, and by nobody else.
LockInv ==
  /\ (emu_mutex = "gui") <=> (gui \in GuiHoldsEmu)
  /\ (emu_mutex = "emu") <=> (emu = "frame")
  /\ (fb_mutex = "gui") <=> (gui \in GuiHoldsFb)
  /\ (fb_mutex = "emu") <=> (emu = "copy")

\* The locals that a call in progress will use.
LocalInv ==
  /\ gui \in {"attach", "load_stop", "stop", "join"} => call \in {"reset", "load", "switch"}
  /\ gui \in {"rebuild_emu", "rebuild_fb", "disconnect", "connect"} => new_type \in Types

\* The flag says whether there is a thread, except while it is being joined.
ThreadInv ==
  /\ emu_thread_running => emu \notin {"none", "returned"}
  /\ gui = "join" => ~emu_thread_running
  /\ gui \in Exclusive => ~emu_thread_running
  /\ ~emu_thread_running /\ gui # "join" => emu = "none"

\* Pointers into a freed pipeline exist only between its disconnection and the
\* connection of the next one, where the GUI thread holds both mutexes.
FreedInv ==
  /\ \A p \in Ports : target[p] # "freed"
  /\ last_frame = "freed" => gui = "connect"
  /\ snapshot = "freed" => gui = "connect"

IInv == TypeOK /\ LockInv /\ LocalInv /\ ThreadInv /\ FreedInv

LEMMA ActiveType ==
  /\ ActivePort \in Ports /\ SignalType \in Types
  /\ ActivePort' \in Ports
BY DEF ActivePort, SignalType, PortType, Ports, Types

LEMMA InitInv == Init => IInv
<1> SUFFICES ASSUME Init PROVE IInv
  OBVIOUS
<1>1. /\ target \in [Ports -> Memory]
      /\ pipeline \in [port : Ports, type : Types]
  BY DEF Init, Types, Ports, Memory
<1>2. input_queue \in Seq(0 .. Numbers - 1) /\ events \in Seq(0 .. Numbers - 1)
        /\ Len(input_queue) = 0 /\ Len(events) = 0
        /\ pushed \in 0 .. Numbers - 1 /\ delivered \in 0 .. Numbers - 1
        /\ 0 \in 0 .. QueueBound
  BY SessionAssumption DEF Init
<1>3. TypeOK
  BY <1>1, <1>2 DEF Init, TypeOK, Types, Ports, Memory, None
<1>4. LockInv /\ LocalInv /\ ThreadInv /\ FreedInv
  BY DEF Init, LockInv, LocalInv, ThreadInv, FreedInv, GuiHoldsEmu, GuiHoldsFb, Exclusive,
     Ports, None
<1> QED BY <1>3, <1>4 DEF IInv

LEMMA NextLocks ==
  ASSUME IInv, [Next]_vars
  PROVE  LockInv'
<1> USE DEF IInv, TypeOK, LockInv, ThreadInv, GuiHoldsEmu, GuiHoldsFb, Exclusive, None,
     locals, hardware, picture, flags, locks, input
<1>1. CASE PushEvent
  BY <1>1 DEF PushEvent
<1>2. CASE CheckSignalType
  BY <1>2 DEF CheckSignalType
<1>3. CASE RebuildLockEmu
  BY <1>3 DEF RebuildLockEmu
<1>4. CASE RebuildLockFb
  BY <1>4 DEF RebuildLockFb, FbMutexFree
<1>5. CASE RebuildDisconnect
  BY <1>5 DEF RebuildDisconnect
<1>6. CASE RebuildConnect
  BY <1>6 DEF RebuildConnect, LocalsDone
<1>7. CASE Dialogs
  BY <1>7 DEF Dialogs
<1>8. CASE AttachMedia
  BY <1>8 DEF AttachMedia, LocalsDone
<1>9. CASE TakeNotice
  BY <1>9 DEF TakeNotice
<1>10. CASE UploadLock
  BY <1>10 DEF UploadLock
<1>11. CASE Upload
  BY <1>11 DEF Upload
<1>12. CASE MenuPauseOrResume
  BY <1>12 DEF MenuPauseOrResume
<1>13. CASE MenuToggle4080
  BY <1>13 DEF MenuToggle4080
<1>14. CASE MenuEnterC64Mode
  BY <1>14 DEF MenuEnterC64Mode
<1>15. CASE MenuReset
  BY <1>15 DEF MenuReset
<1>16. CASE MenuStepOrNothing
  BY <1>16 DEF MenuStepOrNothing
<1>17. CASE StepLockEmu
  BY <1>17 DEF StepLockEmu
<1>18. CASE StepUnderFb
  BY <1>18 DEF StepUnderFb
<1>19. CASE LoadSelectedFile
  BY <1>19 DEF LoadSelectedFile
<1>20. CASE StopEmuThread
  BY <1>20 DEF StopEmuThread, NeedsJoin, LocalInv
<1>21. CASE JoinEmuThread
  BY <1>21 DEF JoinEmuThread
<1>22. CASE ResetSystem
  BY <1>22 DEF ResetSystem
<1>23. CASE LoadFile
  BY <1>23 DEF LoadFile
<1>24. CASE Teardown
  BY <1>24 DEF Teardown
<1>25. CASE CreateFails
  BY <1>25 DEF CreateFails, LocalsDone
<1>26. CASE Create
  BY <1>26 DEF Create
<1>27. CASE StartEmuThread
  BY <1>27 DEF StartEmuThread, LocalsDone
<1>28. CASE EmuCheck
  BY <1>28 DEF EmuCheck
<1>29. CASE EmuDrainInput
  BY <1>29 DEF EmuDrainInput
<1>30. CASE EmuLock
  BY <1>30 DEF EmuLock
<1>31. CASE EmuNoFrame
  BY <1>31 DEF EmuNoFrame
<1>32. CASE EmuRunFrames
  BY <1>32 DEF EmuRunFrames
<1>33. CASE EmuLockFb
  BY <1>33 DEF EmuLockFb
<1>34. CASE EmuSnapshot
  BY <1>34 DEF EmuSnapshot
<1>35. CASE UNCHANGED vars
  BY <1>35 DEF vars
<1> QED BY <1>1, <1>2, <1>3, <1>4, <1>5, <1>6, <1>7, <1>8, <1>9, <1>10, <1>11, <1>12,
   <1>13, <1>14, <1>15, <1>16, <1>17, <1>18, <1>19, <1>20, <1>21, <1>22, <1>23, <1>24,
   <1>25, <1>26, <1>27, <1>28, <1>29, <1>30, <1>31, <1>32, <1>33, <1>34, <1>35 DEF Next,
   Gui, Emu, Rebuild, Menu, StopAndStart

LEMMA NextThread ==
  ASSUME IInv, [Next]_vars
  PROVE  LocalInv' /\ ThreadInv'
<1> USE DEF IInv, TypeOK, LocalInv, ThreadInv, Exclusive, None, Types,
     locals, hardware, picture, flags, locks, input
<1>1. CASE PushEvent
  BY <1>1 DEF PushEvent
<1>2. CASE CheckSignalType
  BY <1>2, ActiveType DEF CheckSignalType
<1>3. CASE RebuildLockEmu
  BY <1>3 DEF RebuildLockEmu
<1>4. CASE RebuildLockFb
  BY <1>4 DEF RebuildLockFb
<1>5. CASE RebuildDisconnect
  BY <1>5 DEF RebuildDisconnect
<1>6. CASE RebuildConnect
  BY <1>6 DEF RebuildConnect, LocalsDone
<1>7. CASE Dialogs
  BY <1>7 DEF Dialogs
<1>8. CASE AttachMedia
  BY <1>8 DEF AttachMedia, LocalsDone
<1>9. CASE TakeNotice
  BY <1>9 DEF TakeNotice
<1>10. CASE UploadLock
  BY <1>10 DEF UploadLock
<1>11. CASE Upload
  BY <1>11 DEF Upload
<1>12. CASE MenuPauseOrResume
  BY <1>12 DEF MenuPauseOrResume
<1>13. CASE MenuToggle4080
  BY <1>13 DEF MenuToggle4080
<1>14. CASE MenuEnterC64Mode
  BY <1>14 DEF MenuEnterC64Mode
<1>15. CASE MenuReset
  BY <1>15 DEF MenuReset
<1>16. CASE MenuStepOrNothing
  BY <1>16 DEF MenuStepOrNothing
<1>17. CASE StepLockEmu
  BY <1>17 DEF StepLockEmu
<1>18. CASE StepUnderFb
  BY <1>18 DEF StepUnderFb
<1>19. CASE LoadSelectedFile
  BY <1>19 DEF LoadSelectedFile
<1>20. CASE StopEmuThread
  BY <1>20 DEF StopEmuThread, NeedsJoin
<1>21. CASE JoinEmuThread
  BY <1>21 DEF JoinEmuThread
<1>22. CASE ResetSystem
  BY <1>22 DEF ResetSystem, Run
<1>23. CASE LoadFile
  BY <1>23 DEF LoadFile, Run
<1>24. CASE Teardown
  BY <1>24 DEF Teardown
<1>25. CASE CreateFails
  BY <1>25 DEF CreateFails, LocalsDone
<1>26. CASE Create
  BY <1>26 DEF Create, Run
<1>27. CASE StartEmuThread
  BY <1>27 DEF StartEmuThread, LocalsDone
<1>28. CASE EmuCheck
  BY <1>28 DEF EmuCheck
<1>29. CASE EmuDrainInput
  BY <1>29 DEF EmuDrainInput
<1>30. CASE EmuLock
  BY <1>30 DEF EmuLock
<1>31. CASE EmuNoFrame
  BY <1>31 DEF EmuNoFrame
<1>32. CASE EmuRunFrames
  BY <1>32 DEF EmuRunFrames
<1>33. CASE EmuLockFb
  BY <1>33 DEF EmuLockFb
<1>34. CASE EmuSnapshot
  BY <1>34 DEF EmuSnapshot
<1>35. CASE UNCHANGED vars
  BY <1>35 DEF vars
<1> QED BY <1>1, <1>2, <1>3, <1>4, <1>5, <1>6, <1>7, <1>8, <1>9, <1>10, <1>11, <1>12,
   <1>13, <1>14, <1>15, <1>16, <1>17, <1>18, <1>19, <1>20, <1>21, <1>22, <1>23, <1>24,
   <1>25, <1>26, <1>27, <1>28, <1>29, <1>30, <1>31, <1>32, <1>33, <1>34, <1>35 DEF Next,
   Gui, Emu, Rebuild, Menu, StopAndStart

LEMMA NextFreed ==
  ASSUME IInv, [Next]_vars
  PROVE  FreedInv'
<1> USE DEF IInv, TypeOK, LockInv, LocalInv, FreedInv, GuiHoldsEmu, GuiHoldsFb, None,
     locals, hardware, picture, flags, locks, input
<1>1. CASE PushEvent
  BY <1>1 DEF PushEvent
<1>2. CASE CheckSignalType
  BY <1>2 DEF CheckSignalType
<1>3. CASE RebuildLockEmu
  BY <1>3 DEF RebuildLockEmu
<1>4. CASE RebuildLockFb
  BY <1>4 DEF RebuildLockFb
<1>5. CASE RebuildDisconnect
  BY <1>5 DEF RebuildDisconnect, Disconnect, Freed
<1>6. CASE RebuildConnect
  BY <1>6 DEF RebuildConnect, Rebind
<1>7. CASE Dialogs
  BY <1>7 DEF Dialogs
<1>8. CASE AttachMedia
  BY <1>8 DEF AttachMedia
<1>9. CASE TakeNotice
  BY <1>9 DEF TakeNotice
<1>10. CASE UploadLock
  BY <1>10 DEF UploadLock
<1>11. CASE Upload
  BY <1>11 DEF Upload
<1>12. CASE MenuPauseOrResume
  BY <1>12 DEF MenuPauseOrResume
<1>13. CASE MenuToggle4080
  BY <1>13 DEF MenuToggle4080
<1>14. CASE MenuEnterC64Mode
  BY <1>14 DEF MenuEnterC64Mode
<1>15. CASE MenuReset
  BY <1>15 DEF MenuReset
<1>16. CASE MenuStepOrNothing
  BY <1>16 DEF MenuStepOrNothing
<1>17. CASE StepLockEmu
  BY <1>17 DEF StepLockEmu
<1>18. CASE StepUnderFb
  BY <1>18 DEF StepUnderFb
<1>19. CASE LoadSelectedFile
  BY <1>19 DEF LoadSelectedFile
<1>20. CASE StopEmuThread
  BY <1>20 DEF StopEmuThread
<1>21. CASE JoinEmuThread
  BY <1>21 DEF JoinEmuThread
<1>22. CASE ResetSystem
  BY <1>22 DEF ResetSystem, SystemReset, Rebind
<1>23. CASE LoadFile
  BY <1>23 DEF LoadFile, SystemReset, Rebind
<1>24. CASE Teardown
  BY <1>24 DEF Teardown, Disconnect
<1>25. CASE CreateFails
  BY <1>25 DEF CreateFails
<1>26. CASE Create
  BY <1>26 DEF Create, NewSystemOn
<1>27. CASE StartEmuThread
  BY <1>27 DEF StartEmuThread
<1>28. CASE EmuCheck
  BY <1>28 DEF EmuCheck
<1>29. CASE EmuDrainInput
  BY <1>29 DEF EmuDrainInput
<1>30. CASE EmuLock
  BY <1>30 DEF EmuLock
<1>31. CASE EmuNoFrame
  BY <1>31 DEF EmuNoFrame
<1>32. CASE EmuRunFrames
  BY <1>32 DEF EmuRunFrames
<1>33. CASE EmuLockFb
  BY <1>33 DEF EmuLockFb
<1>34. CASE EmuSnapshot
  BY <1>34 DEF EmuSnapshot
<1>35. CASE UNCHANGED vars
  BY <1>35 DEF vars
<1> QED BY <1>1, <1>2, <1>3, <1>4, <1>5, <1>6, <1>7, <1>8, <1>9, <1>10, <1>11, <1>12,
   <1>13, <1>14, <1>15, <1>16, <1>17, <1>18, <1>19, <1>20, <1>21, <1>22, <1>23, <1>24,
   <1>25, <1>26, <1>27, <1>28, <1>29, <1>30, <1>31, <1>32, <1>33, <1>34, <1>35 DEF Next,
   Gui, Emu, Rebuild, Menu, StopAndStart

\* TypeOK in three parts: where the threads are, the picture and the input.
ControlType ==
  /\ gui \in {"events", "rebuild_emu", "rebuild_fb", "disconnect", "connect",
              "dialogs", "attach", "load_stop", "screen", "upload", "uploading",
              "menu", "step_emu", "step_fb", "stop", "join", "reset", "load",
              "switch", "create", "start"}
  /\ call \in {None, "reset", "load", "switch"}
  /\ new_type \in Types \cup {None}
  /\ emu \in {"none", "check", "drain", "lock", "frame", "snapshot", "copy",
              "returned"}
  /\ emu_mutex \in {None, "gui", "emu"} /\ fb_mutex \in {None, "gui", "emu"}

FlagType ==
  /\ was_running \in BOOLEAN
  /\ emu_thread_running \in BOOLEAN /\ running \in BOOLEAN /\ paused \in BOOLEAN
  /\ fb_new_frame \in BOOLEAN /\ system \in BOOLEAN
  /\ key_80 \in BOOLEAN /\ c64_mode \in BOOLEAN /\ c64_requested \in BOOLEAN
  /\ user_paused \in BOOLEAN

PictureType ==
  /\ bound \in Ports /\ last_frame \in Memory
  /\ target \in [Ports -> Memory]
  /\ active_type \in Types
  /\ pipeline \in [port : Ports, type : Types] \cup {NotConnected}
  /\ snapshot \in Memory

InputType ==
  /\ input_queue \in Seq(0 .. Numbers - 1) /\ events \in Seq(0 .. Numbers - 1)
  /\ Len(input_queue) \in 0 .. QueueBound /\ Len(events) \in 0 .. QueueBound
  /\ pushed \in 0 .. Numbers - 1 /\ delivered \in 0 .. Numbers - 1

LEMMA TypeParts ==
  /\ TypeOK <=> ControlType /\ FlagType /\ PictureType /\ InputType
  /\ TypeOK' <=> ControlType' /\ FlagType' /\ PictureType' /\ InputType'
BY DEF TypeOK, ControlType, FlagType, PictureType, InputType

LEMMA NextControlType ==
  ASSUME ControlType, LocalInv, [Next]_vars
  PROVE  ControlType'
<1> USE DEF ControlType, LocalInv, None, locals, locks
<1>1. CASE PushEvent
  BY <1>1 DEF PushEvent
<1>2. CASE CheckSignalType
  BY <1>2, ActiveType DEF CheckSignalType
<1>3. CASE RebuildLockEmu
  BY <1>3 DEF RebuildLockEmu
<1>4. CASE RebuildLockFb
  BY <1>4 DEF RebuildLockFb
<1>5. CASE RebuildDisconnect
  BY <1>5 DEF RebuildDisconnect
<1>6. CASE RebuildConnect
  BY <1>6 DEF RebuildConnect, LocalsDone
<1>7. CASE Dialogs
  BY <1>7 DEF Dialogs
<1>8. CASE AttachMedia
  BY <1>8 DEF AttachMedia, LocalsDone
<1>9. CASE TakeNotice
  BY <1>9 DEF TakeNotice
<1>10. CASE UploadLock
  BY <1>10 DEF UploadLock
<1>11. CASE Upload
  BY <1>11 DEF Upload
<1>12. CASE MenuPauseOrResume
  BY <1>12 DEF MenuPauseOrResume
<1>13. CASE MenuToggle4080
  BY <1>13 DEF MenuToggle4080
<1>14. CASE MenuEnterC64Mode
  BY <1>14 DEF MenuEnterC64Mode
<1>15. CASE MenuReset
  BY <1>15 DEF MenuReset
<1>16. CASE MenuStepOrNothing
  BY <1>16 DEF MenuStepOrNothing
<1>17. CASE StepLockEmu
  BY <1>17 DEF StepLockEmu
<1>18. CASE StepUnderFb
  BY <1>18 DEF StepUnderFb
<1>19. CASE LoadSelectedFile
  BY <1>19 DEF LoadSelectedFile
<1>20. CASE StopEmuThread
  BY <1>20 DEF StopEmuThread, NeedsJoin
<1>21. CASE JoinEmuThread
  BY <1>21 DEF JoinEmuThread
<1>22. CASE ResetSystem
  BY <1>22 DEF ResetSystem
<1>23. CASE LoadFile
  BY <1>23 DEF LoadFile
<1>24. CASE Teardown
  BY <1>24 DEF Teardown
<1>25. CASE CreateFails
  BY <1>25 DEF CreateFails, LocalsDone
<1>26. CASE Create
  BY <1>26 DEF Create
<1>27. CASE StartEmuThread
  BY <1>27 DEF StartEmuThread, LocalsDone
<1>28. CASE EmuCheck
  BY <1>28 DEF EmuCheck
<1>29. CASE EmuDrainInput
  BY <1>29 DEF EmuDrainInput
<1>30. CASE EmuLock
  BY <1>30 DEF EmuLock
<1>31. CASE EmuNoFrame
  BY <1>31 DEF EmuNoFrame
<1>32. CASE EmuRunFrames
  BY <1>32 DEF EmuRunFrames
<1>33. CASE EmuLockFb
  BY <1>33 DEF EmuLockFb
<1>34. CASE EmuSnapshot
  BY <1>34 DEF EmuSnapshot
<1>35. CASE UNCHANGED vars
  BY <1>35 DEF vars
<1> QED BY <1>1, <1>2, <1>3, <1>4, <1>5, <1>6, <1>7, <1>8, <1>9, <1>10, <1>11, <1>12,
   <1>13, <1>14, <1>15, <1>16, <1>17, <1>18, <1>19, <1>20, <1>21, <1>22, <1>23, <1>24,
   <1>25, <1>26, <1>27, <1>28, <1>29, <1>30, <1>31, <1>32, <1>33, <1>34, <1>35 DEF Next,
   Gui, Emu, Rebuild, Menu, StopAndStart

LEMMA NextFlagType ==
  ASSUME FlagType, [Next]_vars
  PROVE  FlagType'
<1> USE DEF FlagType, locals, hardware, flags
<1>1. CASE PushEvent
  BY <1>1 DEF PushEvent
<1>2. CASE CheckSignalType
  BY <1>2 DEF CheckSignalType, PausedForRebuild
<1>3. CASE RebuildLockEmu
  BY <1>3 DEF RebuildLockEmu
<1>4. CASE RebuildLockFb
  BY <1>4 DEF RebuildLockFb
<1>5. CASE RebuildDisconnect
  BY <1>5 DEF RebuildDisconnect
<1>6. CASE RebuildConnect
  BY <1>6 DEF RebuildConnect, LocalsDone
<1>7. CASE Dialogs
  BY <1>7 DEF Dialogs
<1>8. CASE AttachMedia
  BY <1>8 DEF AttachMedia, LocalsDone
<1>9. CASE TakeNotice
  BY <1>9 DEF TakeNotice
<1>10. CASE UploadLock
  BY <1>10 DEF UploadLock
<1>11. CASE Upload
  BY <1>11 DEF Upload
<1>12. CASE MenuPauseOrResume
  BY <1>12 DEF MenuPauseOrResume
<1>13. CASE MenuToggle4080
  BY <1>13 DEF MenuToggle4080
<1>14. CASE MenuEnterC64Mode
  BY <1>14 DEF MenuEnterC64Mode
<1>15. CASE MenuReset
  BY <1>15 DEF MenuReset
<1>16. CASE MenuStepOrNothing
  BY <1>16 DEF MenuStepOrNothing
<1>17. CASE StepLockEmu
  BY <1>17 DEF StepLockEmu
<1>18. CASE StepUnderFb
  BY <1>18 DEF StepUnderFb
<1>19. CASE LoadSelectedFile
  BY <1>19 DEF LoadSelectedFile
<1>20. CASE StopEmuThread
  BY <1>20 DEF StopEmuThread
<1>21. CASE JoinEmuThread
  BY <1>21 DEF JoinEmuThread
<1>22. CASE ResetSystem
  BY <1>22 DEF ResetSystem, SystemReset, Run
<1>23. CASE LoadFile
  BY <1>23 DEF LoadFile, SystemReset, Run
<1>24. CASE Teardown
  BY <1>24 DEF Teardown
<1>25. CASE CreateFails
  BY <1>25 DEF CreateFails, LocalsDone
<1>26. CASE Create
  BY <1>26 DEF Create, Run
<1>27. CASE StartEmuThread
  BY <1>27 DEF StartEmuThread, LocalsDone
<1>28. CASE EmuCheck
  BY <1>28 DEF EmuCheck
<1>29. CASE EmuDrainInput
  BY <1>29 DEF EmuDrainInput
<1>30. CASE EmuLock
  BY <1>30 DEF EmuLock
<1>31. CASE EmuNoFrame
  BY <1>31 DEF EmuNoFrame
<1>32. CASE EmuRunFrames
  BY <1>32 DEF EmuRunFrames
<1>33. CASE EmuLockFb
  BY <1>33 DEF EmuLockFb
<1>34. CASE EmuSnapshot
  BY <1>34 DEF EmuSnapshot
<1>35. CASE UNCHANGED vars
  BY <1>35 DEF vars
<1> QED BY <1>1, <1>2, <1>3, <1>4, <1>5, <1>6, <1>7, <1>8, <1>9, <1>10, <1>11, <1>12,
   <1>13, <1>14, <1>15, <1>16, <1>17, <1>18, <1>19, <1>20, <1>21, <1>22, <1>23, <1>24,
   <1>25, <1>26, <1>27, <1>28, <1>29, <1>30, <1>31, <1>32, <1>33, <1>34, <1>35 DEF Next,
   Gui, Emu, Rebuild, Menu, StopAndStart

LEMMA NextPictureType ==
  ASSUME PictureType, LocalInv, [Next]_vars
  PROVE  PictureType'
<1> USE DEF PictureType, LocalInv, Memory, None, picture
<1>1. CASE PushEvent
  BY <1>1 DEF PushEvent
<1>2. CASE CheckSignalType
  BY <1>2 DEF CheckSignalType
<1>3. CASE RebuildLockEmu
  BY <1>3 DEF RebuildLockEmu
<1>4. CASE RebuildLockFb
  BY <1>4 DEF RebuildLockFb
<1>5. CASE RebuildDisconnect
  BY <1>5 DEF RebuildDisconnect, Disconnect, Freed
<1>6. CASE RebuildConnect
  BY <1>6, ActiveType DEF RebuildConnect, Rebind
<1>7. CASE Dialogs
  BY <1>7 DEF Dialogs
<1>8. CASE AttachMedia
  BY <1>8 DEF AttachMedia
<1>9. CASE TakeNotice
  BY <1>9 DEF TakeNotice
<1>10. CASE UploadLock
  BY <1>10 DEF UploadLock
<1>11. CASE Upload
  BY <1>11 DEF Upload
<1>12. CASE MenuPauseOrResume
  BY <1>12 DEF MenuPauseOrResume
<1>13. CASE MenuToggle4080
  BY <1>13 DEF MenuToggle4080
<1>14. CASE MenuEnterC64Mode
  BY <1>14 DEF MenuEnterC64Mode
<1>15. CASE MenuReset
  BY <1>15 DEF MenuReset
<1>16. CASE MenuStepOrNothing
  BY <1>16 DEF MenuStepOrNothing
<1>17. CASE StepLockEmu
  BY <1>17 DEF StepLockEmu
<1>18. CASE StepUnderFb
  BY <1>18 DEF StepUnderFb
<1>19. CASE LoadSelectedFile
  BY <1>19 DEF LoadSelectedFile
<1>20. CASE StopEmuThread
  BY <1>20 DEF StopEmuThread
<1>21. CASE JoinEmuThread
  BY <1>21 DEF JoinEmuThread
<1>22. CASE ResetSystem
  BY <1>22, ActiveType DEF ResetSystem, SystemReset, Rebind
<1>23. CASE LoadFile
  BY <1>23, ActiveType DEF LoadFile, SystemReset, Rebind
<1>24. CASE Teardown
  BY <1>24 DEF Teardown, Disconnect
<1>25. CASE CreateFails
  BY <1>25 DEF CreateFails
<1>26. CASE Create
  <2>1. PICK port \in Ports : NewSystemOn(port)
    BY <1>26, ActiveType DEF Create
  <2>2. target' \in [Ports -> Memory]
    BY <2>1 DEF NewSystemOn
  <2>3. PortType[port] \in Types
    BY DEF PortType, Types, Ports
  <2> QED BY <2>1, <2>2, <2>3 DEF NewSystemOn
<1>27. CASE StartEmuThread
  BY <1>27 DEF StartEmuThread
<1>28. CASE EmuCheck
  BY <1>28 DEF EmuCheck
<1>29. CASE EmuDrainInput
  BY <1>29 DEF EmuDrainInput
<1>30. CASE EmuLock
  BY <1>30 DEF EmuLock
<1>31. CASE EmuNoFrame
  BY <1>31 DEF EmuNoFrame
<1>32. CASE EmuRunFrames
  BY <1>32 DEF EmuRunFrames
<1>33. CASE EmuLockFb
  BY <1>33 DEF EmuLockFb
<1>34. CASE EmuSnapshot
  BY <1>34 DEF EmuSnapshot
<1>35. CASE UNCHANGED vars
  BY <1>35 DEF vars
<1> QED BY <1>1, <1>2, <1>3, <1>4, <1>5, <1>6, <1>7, <1>8, <1>9, <1>10, <1>11, <1>12,
   <1>13, <1>14, <1>15, <1>16, <1>17, <1>18, <1>19, <1>20, <1>21, <1>22, <1>23, <1>24,
   <1>25, <1>26, <1>27, <1>28, <1>29, <1>30, <1>31, <1>32, <1>33, <1>34, <1>35 DEF Next,
   Gui, Emu, Rebuild, Menu, StopAndStart

LEMMA NextInputType ==
  ASSUME InputType, [Next]_vars
  PROVE  InputType'
<1> USE SessionAssumption DEF InputType, input
<1>1. CASE PushEvent
  BY <1>1 DEF PushEvent
<1>2. CASE CheckSignalType
  BY <1>2 DEF CheckSignalType
<1>3. CASE RebuildLockEmu
  BY <1>3 DEF RebuildLockEmu
<1>4. CASE RebuildLockFb
  BY <1>4 DEF RebuildLockFb
<1>5. CASE RebuildDisconnect
  BY <1>5 DEF RebuildDisconnect
<1>6. CASE RebuildConnect
  BY <1>6 DEF RebuildConnect
<1>7. CASE Dialogs
  BY <1>7 DEF Dialogs
<1>8. CASE AttachMedia
  BY <1>8 DEF AttachMedia
<1>9. CASE TakeNotice
  BY <1>9 DEF TakeNotice
<1>10. CASE UploadLock
  BY <1>10 DEF UploadLock
<1>11. CASE Upload
  BY <1>11 DEF Upload
<1>12. CASE MenuPauseOrResume
  BY <1>12 DEF MenuPauseOrResume
<1>13. CASE MenuToggle4080
  BY <1>13 DEF MenuToggle4080
<1>14. CASE MenuEnterC64Mode
  BY <1>14 DEF MenuEnterC64Mode
<1>15. CASE MenuReset
  BY <1>15 DEF MenuReset
<1>16. CASE MenuStepOrNothing
  BY <1>16 DEF MenuStepOrNothing
<1>17. CASE StepLockEmu
  BY <1>17 DEF StepLockEmu
<1>18. CASE StepUnderFb
  BY <1>18 DEF StepUnderFb
<1>19. CASE LoadSelectedFile
  BY <1>19 DEF LoadSelectedFile
<1>20. CASE StopEmuThread
  BY <1>20 DEF StopEmuThread
<1>21. CASE JoinEmuThread
  BY <1>21 DEF JoinEmuThread
<1>22. CASE ResetSystem
  BY <1>22 DEF ResetSystem
<1>23. CASE LoadFile
  BY <1>23 DEF LoadFile
<1>24. CASE Teardown
  BY <1>24 DEF Teardown
<1>25. CASE CreateFails
  BY <1>25 DEF CreateFails
<1>26. CASE Create
  BY <1>26 DEF Create
<1>27. CASE StartEmuThread
  BY <1>27 DEF StartEmuThread
<1>28. CASE EmuCheck
  BY <1>28 DEF EmuCheck
<1>29. CASE EmuDrainInput
  BY <1>29 DEF EmuDrainInput, Batch
<1>30. CASE EmuLock
  BY <1>30 DEF EmuLock
<1>31. CASE EmuNoFrame
  BY <1>31 DEF EmuNoFrame, DeliverEvents
<1>32. CASE EmuRunFrames
  BY <1>32 DEF EmuRunFrames, DeliverEvents
<1>33. CASE EmuLockFb
  BY <1>33 DEF EmuLockFb
<1>34. CASE EmuSnapshot
  BY <1>34 DEF EmuSnapshot
<1>35. CASE UNCHANGED vars
  BY <1>35 DEF vars
<1> QED BY <1>1, <1>2, <1>3, <1>4, <1>5, <1>6, <1>7, <1>8, <1>9, <1>10, <1>11, <1>12,
   <1>13, <1>14, <1>15, <1>16, <1>17, <1>18, <1>19, <1>20, <1>21, <1>22, <1>23, <1>24,
   <1>25, <1>26, <1>27, <1>28, <1>29, <1>30, <1>31, <1>32, <1>33, <1>34, <1>35 DEF Next,
   Gui, Emu, Rebuild, Menu, StopAndStart

-----------------------------------------------------------------------------
(* The numbering of the events *)

LEMMA NoWrap ==
  ASSUME NEW c \in 0 .. Numbers - 1
  PROVE  c % Numbers = c
BY SessionAssumption

LEMMA WrapsOnce ==
  ASSUME NEW c \in Numbers .. 2 * Numbers - 1
  PROVE  c % Numbers = c - Numbers
BY SessionAssumption

\* Counting on from a number that was counted to, less than a turn away.
LEMMA CountOn ==
  ASSUME NEW c \in 0 .. Numbers - 1, NEW j \in Nat, NEW k \in Nat, j + k < Numbers
  PROVE  (((c + j) % Numbers) + k) % Numbers = (c + j + k) % Numbers
<1> DEFINE x == c + j
<1>1. x \in Nat /\ x + k < 2 * Numbers /\ Numbers \in Nat
  BY SessionAssumption
<1> HIDE DEF x
<1>2. CASE x < Numbers
  <2>1. x % Numbers = x
    BY <1>1, <1>2, NoWrap
  <2> QED BY <2>1 DEF x
<1>3. CASE x >= Numbers
  <2>1. x % Numbers = x - Numbers /\ (x + k) % Numbers = (x + k) - Numbers
    BY <1>1, <1>3, WrapsOnce
  <2>2. (x - Numbers) + k = (x + k) - Numbers /\ (x - Numbers) + k \in 0 .. Numbers - 1
    BY <1>1, <1>3
  <2>3. ((x - Numbers) + k) % Numbers = (x - Numbers) + k
    BY <2>2, NoWrap
  <2> QED BY <2>1, <2>2, <2>3, Zenon DEF x
<1> QED BY <1>1, <1>2, <1>3

LEMMA PendingType ==
  ASSUME InputType
  PROVE  /\ Pending \in Seq(0 .. Numbers - 1)
         /\ Len(Pending) \in 0 .. 2 * QueueBound /\ Len(Pending) < Numbers
<1>1. CASE emu \in {"lock", "frame"}
  <2>1. Pending = events \o input_queue
    BY <1>1 DEF Pending
  <2>2. Pending \in Seq(0 .. Numbers - 1) /\ Len(Pending) = Len(events) + Len(input_queue)
    BY <2>1 DEF InputType
  <2> QED BY <2>2, SessionAssumption DEF InputType
<1>2. CASE emu \notin {"lock", "frame"}
  <2>1. Pending = input_queue
    BY <1>2 DEF Pending, InputType
  <2> QED BY <2>1, SessionAssumption DEF InputType
<1> QED BY <1>1, <1>2

\* A step that leaves the input alone and does not start or end a batch.
LEMMA PendingStays ==
  ASSUME EventsInOrder, UNCHANGED input,
         (emu' \in {"lock", "frame"}) <=> (emu \in {"lock", "frame"})
  PROVE  EventsInOrder'
<1>1. Pending' = Pending
  BY DEF Pending, input
<1> QED BY <1>1 DEF EventsInOrder, input

\* A batch delivered: what was pending behind it is pending still.
LEMMA BatchDelivered ==
  ASSUME InputType, EventsInOrder, emu = "frame", emu' \notin {"lock", "frame"},
         DeliverEvents, UNCHANGED <<input_queue, pushed>>
  PROVE  EventsInOrder'
<1> DEFINE n == Len(events)
<1>1. /\ Pending = events \o input_queue /\ Len(Pending) = n + Len(input_queue)
      /\ Pending' = input_queue /\ n \in Nat /\ Len(input_queue) \in Nat
      /\ delivered \in 0 .. Numbers - 1
  BY SessionAssumption DEF InputType, Pending
<1>2. n + Len(input_queue) < Numbers
  BY <1>1, PendingType
<1>3. delivered' = (delivered + n) % Numbers
  <2>1. CASE events = <<>>
    BY <2>1, NoWrap DEF DeliverEvents, InputType
  <2>2. CASE events # <<>>
    <3>1. n >= 1 /\ events[n] = Pending[n] /\ n \in 1 .. Len(Pending)
      BY <1>1, <2>2 DEF InputType
    <3> DEFINE j == n - 1
    <3>2. events[n] = (delivered + j) % Numbers
      BY <3>1, <1>1 DEF EventsInOrder, InputType
    <3>3. j \in Nat /\ j + 1 < Numbers /\ delivered + j + 1 = delivered + n
      BY <1>1, <1>2, <3>1, SessionAssumption DEF InputType
    <3> HIDE DEF j
    <3>4. (((delivered + j) % Numbers) + 1) % Numbers = (delivered + j + 1) % Numbers
      BY <1>1, <3>3, CountOn
    <3> QED BY <2>2, <3>2, <3>3, <3>4 DEF DeliverEvents
  <2> QED BY <2>1, <2>2
<1>4. ASSUME NEW i \in 1 .. Len(input_queue)
      PROVE  input_queue[i] = (delivered' + i - 1) % Numbers
  <2>1. input_queue[i] = Pending[n + i] /\ n + i \in 1 .. Len(Pending)
    BY <1>1 DEF InputType
  <2>2. Pending[n + i] = (delivered + (n + i) - 1) % Numbers
    BY <2>1 DEF EventsInOrder
  <2> DEFINE k == i - 1
  <2>3. k \in Nat /\ n + k < Numbers /\ delivered + n + k = delivered + (n + i) - 1
    BY <1>1, <1>2, SessionAssumption DEF InputType
  <2>4. delivered' + i - 1 = ((delivered + n) % Numbers) + k
    <3>1. (delivered + n) % Numbers \in Int
      BY <1>1, SessionAssumption DEF InputType
    <3> QED BY <1>3, <3>1
  <2> HIDE DEF k
  <2>5. (((delivered + n) % Numbers) + k) % Numbers = (delivered + n + k) % Numbers
    BY <1>1, <2>3, CountOn
  <2> QED BY <2>1, <2>2, <2>3, <2>4, <2>5
<1>5. pushed = (delivered' + Len(input_queue)) % Numbers
  <2>1. pushed = (delivered + n + Len(input_queue)) % Numbers
    BY <1>1 DEF EventsInOrder, InputType
  <2>2. (((delivered + n) % Numbers) + Len(input_queue)) % Numbers
          = (delivered + n + Len(input_queue)) % Numbers
    BY <1>1, <1>2, CountOn
  <2> QED BY <1>3, <2>1, <2>2
<1> QED BY <1>1, <1>4, <1>5 DEF EventsInOrder

LEMMA PushInOrder ==
  ASSUME InputType, EventsInOrder, PushEvent
  PROVE  EventsInOrder'
<1> DEFINE n == Len(Pending)
<1>1. Pending \in Seq(0 .. Numbers - 1) /\ n \in Nat /\ n < Numbers
  BY PendingType
<1>2. Pending' = Append(Pending, pushed) /\ n < 2 * QueueBound
  <2>1. CASE emu \in {"lock", "frame"}
    <3>1. Pending = events \o input_queue /\ Pending' = events \o Append(input_queue, pushed)
      BY <2>1 DEF PushEvent, Pending
    <3>2. Pending' = Append(Pending, pushed)
      BY <3>1 DEF InputType
    <3>3. n = Len(events) + Len(input_queue)
      BY <3>1 DEF InputType
    <3> QED BY <3>2, <3>3, SessionAssumption DEF InputType, PushEvent
  <2>2. CASE emu \notin {"lock", "frame"}
    <3>1. Pending = input_queue /\ Pending' = Append(input_queue, pushed)
      BY <2>2 DEF InputType, PushEvent, Pending
    <3> QED BY <3>1, SessionAssumption DEF InputType, PushEvent
  <2> QED BY <2>1, <2>2
<1>3. n + 1 < Numbers /\ Len(Pending') = n + 1
  BY <1>1, <1>2, SessionAssumption DEF InputType
<1>4. pushed = (delivered + n) % Numbers /\ delivered' = delivered
  BY DEF EventsInOrder, PushEvent
<1>5. ASSUME NEW i \in 1 .. n + 1
      PROVE  Pending'[i] = (delivered + i - 1) % Numbers
  <2>1. CASE i <= n
    BY <1>1, <1>2, <2>1 DEF EventsInOrder, InputType
  <2>2. CASE i = n + 1
    BY <1>1, <1>2, <1>4, <2>2 DEF EventsInOrder, InputType
  <2> QED BY <1>1, <2>1, <2>2
<1>6. pushed' = (delivered + (n + 1)) % Numbers
  <2>1. (((delivered + n) % Numbers) + 1) % Numbers = (delivered + n + 1) % Numbers
    <3>1. delivered \in 0 .. Numbers - 1
      BY SessionAssumption DEF InputType
    <3> QED BY <1>1, <1>3, <3>1, CountOn
  <2> QED BY <1>1, <1>4, <2>1 DEF PushEvent, InputType
<1> QED BY <1>3, <1>4, <1>5, <1>6 DEF EventsInOrder

LEMMA NextInOrder ==
  ASSUME InputType, ThreadInv, EventsInOrder, [Next]_vars
  PROVE  EventsInOrder'
<1>1. CASE PushEvent
  BY <1>1, PushInOrder
<1>2. CASE CheckSignalType
  BY <1>2, PendingStays DEF CheckSignalType
<1>3. CASE RebuildLockEmu
  BY <1>3, PendingStays DEF RebuildLockEmu
<1>4. CASE RebuildLockFb
  BY <1>4, PendingStays DEF RebuildLockFb
<1>5. CASE RebuildDisconnect
  BY <1>5, PendingStays DEF RebuildDisconnect
<1>6. CASE RebuildConnect
  BY <1>6, PendingStays DEF RebuildConnect
<1>7. CASE Dialogs
  BY <1>7, PendingStays DEF Dialogs
<1>8. CASE AttachMedia
  BY <1>8, PendingStays DEF AttachMedia
<1>9. CASE TakeNotice
  BY <1>9, PendingStays DEF TakeNotice
<1>10. CASE UploadLock
  BY <1>10, PendingStays DEF UploadLock
<1>11. CASE Upload
  BY <1>11, PendingStays DEF Upload
<1>12. CASE MenuPauseOrResume
  BY <1>12, PendingStays DEF MenuPauseOrResume
<1>13. CASE MenuToggle4080
  BY <1>13, PendingStays DEF MenuToggle4080
<1>14. CASE MenuEnterC64Mode
  BY <1>14, PendingStays DEF MenuEnterC64Mode
<1>15. CASE MenuReset
  BY <1>15, PendingStays DEF MenuReset
<1>16. CASE MenuStepOrNothing
  BY <1>16, PendingStays DEF MenuStepOrNothing
<1>17. CASE StepLockEmu
  BY <1>17, PendingStays DEF StepLockEmu
<1>18. CASE StepUnderFb
  BY <1>18, PendingStays DEF StepUnderFb
<1>19. CASE LoadSelectedFile
  BY <1>19, PendingStays DEF LoadSelectedFile
<1>20. CASE StopEmuThread
  BY <1>20, PendingStays DEF StopEmuThread
<1>21. CASE JoinEmuThread
  BY <1>21, PendingStays DEF JoinEmuThread
<1>22. CASE ResetSystem
  BY <1>22, PendingStays DEF ResetSystem
<1>23. CASE LoadFile
  BY <1>23, PendingStays DEF LoadFile
<1>24. CASE Teardown
  BY <1>24, PendingStays DEF Teardown
<1>25. CASE CreateFails
  BY <1>25, PendingStays DEF CreateFails
<1>26. CASE Create
  BY <1>26, PendingStays DEF Create
<1>27. CASE StartEmuThread
  BY <1>27, PendingStays DEF StartEmuThread, ThreadInv, Exclusive
<1>28. CASE EmuCheck
  BY <1>28, PendingStays DEF EmuCheck
<1>29. CASE EmuDrainInput
  <2>1. Pending' = Pending
    BY <1>29 DEF EmuDrainInput, Batch, Pending, InputType
  <2> QED BY <1>29, <2>1 DEF EmuDrainInput, EventsInOrder
<1>30. CASE EmuLock
  BY <1>30, PendingStays DEF EmuLock
<1>31. CASE EmuNoFrame
  BY <1>31, BatchDelivered DEF EmuNoFrame
<1>32. CASE EmuRunFrames
  BY <1>32, BatchDelivered DEF EmuRunFrames
<1>33. CASE EmuLockFb
  BY <1>33, PendingStays DEF EmuLockFb
<1>34. CASE EmuSnapshot
  BY <1>34, PendingStays DEF EmuSnapshot
<1>35. CASE UNCHANGED vars
  BY <1>35, PendingStays DEF vars, input
<1> QED BY <1>1, <1>2, <1>3, <1>4, <1>5, <1>6, <1>7, <1>8, <1>9, <1>10, <1>11, <1>12,
   <1>13, <1>14, <1>15, <1>16, <1>17, <1>18, <1>19, <1>20, <1>21, <1>22, <1>23, <1>24,
   <1>25, <1>26, <1>27, <1>28, <1>29, <1>30, <1>31, <1>32, <1>33, <1>34, <1>35 DEF Next,
   Gui, Emu, Rebuild, Menu, StopAndStart

-----------------------------------------------------------------------------
(* The theorems *)

LEMMA Invariance == Spec => [](IInv /\ EventsInOrder)
<1>1. Init => IInv /\ EventsInOrder
  <2> SUFFICES ASSUME Init PROVE IInv /\ EventsInOrder
    OBVIOUS
  <2>1. Pending = <<>> /\ pushed = 0 /\ delivered = 0
    BY DEF Init, Pending
  <2>2. EventsInOrder
    BY <2>1, NoWrap, SessionAssumption DEF EventsInOrder
  <2> QED BY <2>2, InitInv
<1>2. (IInv /\ EventsInOrder) /\ [Next]_vars => (IInv /\ EventsInOrder)'
  <2> SUFFICES ASSUME IInv, EventsInOrder, [Next]_vars PROVE (IInv /\ EventsInOrder)'
    OBVIOUS
  <2>1. ControlType /\ FlagType /\ PictureType /\ InputType
    BY TypeParts DEF IInv
  <2>2. LocalInv /\ ThreadInv
    BY DEF IInv
  <2>3. TypeOK'
    BY <2>1, <2>2, TypeParts, NextControlType, NextFlagType, NextPictureType, NextInputType
  <2>4. EventsInOrder'
    BY <2>1, <2>2, NextInOrder
  <2> QED BY <2>3, <2>4, NextLocks, NextThread, NextFreed DEF IInv
<1> QED BY <1>1, <1>2, PTL DEF Spec

\* Type correctness: queue and batch never exceed the queue's bound, and every
\* call in progress has the locals it goes on with.
THEOREM TypeCorrect == Spec => []TypeOK
<1>1. IInv => TypeOK
  BY DEF IInv
<1> QED BY <1>1, Invariance, PTL

\* Between stop_emu_thread and start_emu_thread there is no emulation thread: the
\* system is reset, loaded into, destroyed and created by the GUI thread alone.
THEOREM SystemIsExclusive == Spec => []SystemUsedExclusively
<1>1. IInv => SystemUsedExclusively
  BY DEF IInv, TypeOK, ThreadInv, SystemUsedExclusively, Exclusive
<1> QED BY <1>1, Invariance, PTL

\* No chip draws into, no snapshot is taken of and none is uploaded from the
\* buffers of a pipeline that rebuild_signal_pipeline has freed.
THEOREM FreedIsUntouched == Spec => []NoFreedMemory
<1>1. IInv => NoFreedMemory
  BY DEF IInv, TypeOK, LockInv, FreedInv, NoFreedMemory, GuiHoldsFb
<1> QED BY <1>1, Invariance, PTL

\* Input events reach the machine in the order they were pushed, each exactly once.
THEOREM InputInOrder == Spec => []EventsInOrder
BY Invariance, PTL

=============================================================================
