--------------------------- MODULE AudioPathProofs ---------------------------
(***************************************************************************)
(* Theorems about AudioPath, for rings, frames and batches of any size.    *)
(***************************************************************************)
EXTENDS AudioPath, TLAPS

-----------------------------------------------------------------------------
(* Quotients and remainders *)

LEMMA Scale ==
  ASSUME NEW n \in Nat, NEW a \in Int, NEW b \in Int, a <= b
  PROVE  a * n <= b * n
OBVIOUS

LEMMA DivMod ==
  ASSUME NEW n \in Nat \ {0}, NEW a \in Int
  PROVE  /\ a % n \in 0 .. n - 1 /\ a \div n \in Int
         /\ a = (a \div n) * n + (a % n)
OBVIOUS

\* Quotient and remainder are unique.
LEMMA ModUnique ==
  ASSUME NEW n \in Nat \ {0}, NEW a \in Int, NEW q \in Int, NEW s \in 0 .. n - 1,
         a = q * n + s
  PROVE  a % n = s
<1> DEFINE p == a \div n
           x == a % n
           c == p - q
<1>1. p \in Int /\ x \in 0 .. n - 1 /\ a = p * n + x
  BY DivMod
<1> HIDE DEF p, x
<1>2. c \in Int /\ c * n = s - x
  <2>1. c * n = p * n - q * n /\ p * n \in Int /\ q * n \in Int
    BY <1>1
  <2> QED BY <1>1, <2>1
<1> HIDE DEF c
<1>3. (c >= 1 => 1 * n <= c * n) /\ (c <= -1 => c * n <= (-1) * n)
  BY <1>2, Scale
<1>4. c = 0
  BY <1>1, <1>2, <1>3
<1> QED BY <1>1, <1>2, <1>4 DEF x

\* Numbers that differ by a multiple have the same remainder.
LEMMA SameRemainder ==
  ASSUME NEW n \in Nat \ {0}, NEW a \in Int, NEW k \in Int
  PROVE  (a + k * n) % n = a % n
<1> DEFINE p == a \div n
           b == a + k * n
           x == a % n
<1>1. p \in Int /\ x \in 0 .. n - 1 /\ a = p * n + x
  BY DivMod
<1> HIDE DEF p, x
<1>2. b = (p + k) * n + x /\ b \in Int /\ p + k \in Int
  <2>1. (p + k) * n = p * n + k * n /\ p * n \in Int /\ k * n \in Int
    BY <1>1
  <2> QED BY <1>1, <2>1
<1> HIDE DEF b
<1>3. b % n = x
  BY <1>1, <1>2, ModUnique
<1> QED BY <1>3 DEF b, x

\* Reducing an index early makes no difference to where it goes on from.
LEMMA ModAdd ==
  ASSUME NEW n \in Nat \ {0}, NEW a \in Int, NEW k \in Int
  PROVE  ((a % n) + k) % n = (a + k) % n
<1> DEFINE p == a \div n
           x == a % n
           y == x + k
<1>1. p \in Int /\ x \in Int /\ y \in Int /\ a + k = y + p * n
  BY DivMod
<1> HIDE DEF p, y
<1>2. (y + p * n) % n = y % n
  BY <1>1, SameRemainder
<1> QED BY <1>1, <1>2 DEF y

\* Numbers less than n apart have different remainders.
LEMMA ModApart ==
  ASSUME NEW n \in Nat \ {0}, NEW a \in Nat, NEW b \in Nat, b < a, a - b < n
  PROVE  a % n # b % n
<1> SUFFICES ASSUME a % n = b % n PROVE FALSE
  OBVIOUS
<1> DEFINE p == a \div n
           q == b \div n
           x == a % n
           y == b % n
           c == p - q
<1>0. /\ p \in Int /\ q \in Int /\ x \in Int /\ y = x
      /\ a = p * n + x /\ b = q * n + y
  BY DivMod
<1> HIDE DEF p, q, x, y
<1>1. c \in Int /\ c * n = a - b
  <2>1. c * n = p * n - q * n /\ p * n \in Int /\ q * n \in Int /\ c \in Int
    BY <1>0
  <2> HIDE DEF c
  <2> QED BY <1>0, <2>1
<1> HIDE DEF c
<1>2. (c >= 1 => 1 * n <= c * n) /\ (c <= 0 => c * n <= 0 * n)
  BY <1>1, Scale
<1> QED BY <1>1, <1>2

\* A slot can be computed from an index of any width that is a multiple of the slots.
LEMMA ModMultiple ==
  ASSUME NEW n \in Nat \ {0}, NEW k \in Nat \ {0}, NEW a \in Nat
  PROVE  (a % (k * n)) % n = a % n
<1> DEFINE W == k * n
           p == a \div W
           x == a % W
<1>1. p \in Int /\ x \in Int /\ a = p * W + x
  <2>1. W \in Nat \ {0}
    OBVIOUS
  <2> HIDE DEF W
  <2> QED BY <2>1, DivMod
<1> HIDE DEF p, x
<1>2. a = x + (p * k) * n /\ p * k \in Int
  BY <1>1
<1>3. (x + (p * k) * n) % n = x % n
  BY <1>1, <1>2, SameRemainder
<1> QED BY <1>2, <1>3 DEF x

-----------------------------------------------------------------------------
(* The port ring's counters: two free-running indices and their difference *)

Distance(w, r) == (w - r) % Word

LEMMA WordIsPositive == Word \in Nat \ {0} /\ PortCap \in Nat \ {0} /\ 2 * PortCap < Word
<1>1. PICK k \in 3 .. Word : Word = k * PortCap
  BY ConstantsAssumption
<1>2. Word \in Int
  BY <1>1, ConstantsAssumption
<1>3. 3 * PortCap <= k * PortCap
  BY <1>1, <1>2, ConstantsAssumption
<1> QED BY <1>1, <1>2, <1>3, ConstantsAssumption

LEMMA DistanceRange ==
  ASSUME NEW w \in 0 .. Word - 1, NEW r \in 0 .. Word - 1
  PROVE  /\ Distance(w, r) \in 0 .. Word - 1
         /\ Distance(w, r) = IF w >= r THEN w - r ELSE w - r + Word
BY WordIsPositive DEF Distance

\* Publishing one sample moves the writer one step away from the reader.
LEMMA DistanceAfterPush ==
  ASSUME NEW w \in 0 .. Word - 1, NEW r \in 0 .. Word - 1, Distance(w, r) + 1 < Word
  PROVE  /\ (w + 1) % Word \in 0 .. Word - 1
         /\ Distance((w + 1) % Word, r) = Distance(w, r) + 1
<1>1. (w + 1) % Word = IF w + 1 = Word THEN 0 ELSE w + 1
  BY WordIsPositive
<1>2. (w + 1) % Word \in 0 .. Word - 1
  BY <1>1, WordIsPositive
<1> DEFINE q == (w + 1) % Word
<1>3. Distance(q, r) = IF q >= r THEN q - r ELSE q - r + Word
  <2> HIDE DEF q
  <2>1. q \in 0 .. Word - 1
    BY <1>2 DEF q
  <2> QED BY <2>1, DistanceRange
<1>4. Distance(w, r) = IF w >= r THEN w - r ELSE w - r + Word
  BY DistanceRange
<1> QED BY <1>1, <1>2, <1>3, <1>4, WordIsPositive

\* Taking n samples that are there moves the reader n steps towards the writer.
LEMMA DistanceAfterPop ==
  ASSUME NEW w \in 0 .. Word - 1, NEW r \in 0 .. Word - 1, NEW n \in 0 .. Distance(w, r)
  PROVE  /\ (r + n) % Word \in 0 .. Word - 1
         /\ Distance(w, (r + n) % Word) = Distance(w, r) - n
<1>0. n \in Nat /\ n < Word /\ n <= Distance(w, r) /\ Distance(w, r) \in 0 .. Word - 1
  BY DistanceRange, WordIsPositive
<1>1. (r + n) % Word = IF r + n >= Word THEN r + n - Word ELSE r + n
  BY <1>0, WordIsPositive
<1>2. (r + n) % Word \in 0 .. Word - 1
  BY <1>0, <1>1, WordIsPositive
<1> DEFINE q == (r + n) % Word
<1>3. Distance(w, q) = IF w >= q THEN w - q ELSE w - q + Word
  <2> HIDE DEF q
  <2>1. q \in 0 .. Word - 1
    BY <1>2 DEF q
  <2> QED BY <2>1, DistanceRange
<1>4. Distance(w, r) = IF w >= r THEN w - r ELSE w - r + Word
  BY DistanceRange
<1> QED BY <1>0, <1>1, <1>2, <1>3, <1>4, WordIsPositive

\* Room in the output ring is what the empty slot leaves of it.
LEMMA RoomRange ==
  ASSUME NEW w \in RingSlot, NEW r \in RingSlot
  PROVE  Used(w, r) \in 0 .. RingCap - 1 /\ Room(w, r) \in 0 .. RingCap - 1
BY ConstantsAssumption DEF Used, Room, RingSlot

LEMMA LeastRange ==
  ASSUME NEW a \in Nat, NEW b \in Nat
  PROVE  Least(a, b) \in Nat /\ Least(a, b) <= a /\ Least(a, b) <= b
BY DEF Least

LEMMA GreatestRange ==
  ASSUME NEW a \in Int, NEW b \in Int
  PROVE  Greatest(a, b) \in Int /\ a <= Greatest(a, b) /\ b <= Greatest(a, b)
BY DEF Greatest

LEMMA ProductsAreNat ==
  /\ MaxBatch * Requested \in Nat
  /\ \A n \in Nat : n * Requested \in Nat /\ (n + 1) * Requested = n * Requested + Requested
  /\ \A n \in Nat : n <= MaxBatch => n * Requested <= MaxBatch * Requested
BY ConstantsAssumption

-----------------------------------------------------------------------------
(* Type correctness *)

\* What makes TypeOK inductive: a sample is made only if a frame owes it, a paced
\* batch is short, and a copy neither starts with leftovers nor runs past its count.
CopyInv ==
  /\ emu \in {"batch", "samples"} => got = <<>>
  /\ emu = "samples" => want = SamplesNeeded
  /\ emu = "fetch" => Len(got) + want <= MaxBatch * Requested
  /\ emu = "copy" => want <= Len(got) /\ Len(got) <= MaxBatch * Requested

(* The machine that runs, and that it stays the same one *)

LEMMA MachineType ==
  ASSUME machine \in Machines
  PROVE  /\ MayWarp \in BOOLEAN /\ Suppresses \in BOOLEAN
         /\ Suppresses => ~machine.threaded
         /\ machine.frame \subseteq Nat \ {0}
BY ConstantsAssumption DEF MayWarp, Suppresses

LEMMA MachineStays ==
  [Next]_vars => machine' = machine /\ MayWarp' = MayWarp /\ Suppresses' = Suppresses
<1>1. [Next]_vars => machine' = machine
  BY DEF Next, Synthesize, DriveSuppressed, PushStore, PushPublish, EmuNext, EmuBegin,
         RunFrame, EndBatch, PopLoad, PopCopy, PopStore, RingWriteLoad, RingWriteCopy,
         RingWriteStore, CallbackNext, CallbackLoad, CallbackCopy, CallbackStore, GuiNext,
         StartEmuThread, ResetRead, ResetWrite, StopEmuThread, vars, chipVars
<1> QED BY <1>1 DEF MayWarp, Suppresses

TypeInv ==
  /\ TypeOK
  /\ made + due <= MaxSamples
  /\ pushing => due > 0
  /\ ~warping => frames_ran <= MaxBatch
  /\ CopyInv
  /\ emu = "ring" => Len(got) <= MaxBatch * Requested

LEMMA InitType == Init => TypeInv
<1> SUFFICES ASSUME Init PROVE TypeInv
  OBVIOUS
<1>0. MaxSamples \in Nat /\ MaxBatch \in Nat /\ MaxWarpBatch \in Nat
        /\ MaxBatch * Requested \in Nat /\ Word \in Nat \ {0}
        /\ RingCap \in Nat \ {0, 1} /\ CallbackLen \in Nat \ {0}
  BY ConstantsAssumption, WordIsPositive, ProductsAreNat
<1>1. port_buf \in [PortSlot -> Sample] /\ ring_buf \in [RingSlot -> Sample]
  BY <1>0 DEF Init, Sample
<1>2. got \in Seq(Sample) /\ got = <<>>
  BY DEF Init
<1>3. ring_write \in RingSlot /\ ring_read \in RingSlot /\ cb_pos \in RingSlot
  BY <1>0 DEF Init, RingSlot
<1>4. TypeOK
  BY <1>0, <1>1, <1>2, <1>3 DEF Init, TypeOK, Sample
<1> QED BY <1>0, <1>2, <1>4 DEF Init, TypeInv, CopyInv

\* What the history variables are made of.
LEMMA HistoryType ==
  TypeOK /\ [Next]_vars
    => surplus' \in Nat /\ late' \in Sample /\ lapped' \in BOOLEAN /\ torn' \in BOOLEAN
<1> SUFFICES ASSUME TypeOK, [Next]_vars
             PROVE  /\ surplus' \in Nat /\ late' \in Sample
                    /\ lapped' \in BOOLEAN /\ torn' \in BOOLEAN
  OBVIOUS
<1>1. /\ surplus \in Nat /\ late \in Sample /\ due \in Sample /\ lapped \in BOOLEAN
      /\ torn \in BOOLEAN /\ machine \in Machines /\ Requested \in Nat
  BY ConstantsAssumption DEF TypeOK, Sample
<1>2. CASE UNCHANGED history
  BY <1>1, <1>2 DEF history
<1>3. CASE PushStore
  BY <1>1, <1>3 DEF PushStore
<1>4. CASE RunFrame
  <2>1. PICK n \in machine.frame :
          surplus' = Greatest(0, surplus + (IF suppress' THEN 0 ELSE n)
                                        - (IF warping THEN 0 ELSE Requested))
    BY <1>4 DEF RunFrame
  <2>2. n \in Nat
    BY <1>1, <2>1, MachineType
  <2>3. surplus' \in Nat
    BY <1>1, <2>1, <2>2 DEF Greatest
  <2> QED BY <1>1, <1>4, <2>3 DEF RunFrame
<1>5. CASE PopLoad
  BY <1>1, <1>5 DEF PopLoad, Greatest
<1>6. CASE CallbackLoad \/ ResetRead
  BY <1>1, <1>6 DEF CallbackLoad, ResetRead
<1> QED
  BY <1>2, <1>3, <1>4, <1>5, <1>6
  DEF Next, Synthesize, DriveSuppressed, PushPublish, EmuNext, EmuBegin, EndBatch, PopCopy,
      PopStore, RingWriteLoad, RingWriteCopy, RingWriteStore, CallbackNext, CallbackCopy,
      CallbackStore, GuiNext, StartEmuThread, ResetWrite, StopEmuThread, vars

LEMMA NextType == TypeInv /\ [Next]_vars => TypeInv'
<1> SUFFICES ASSUME TypeInv, [Next]_vars PROVE TypeInv'
  OBVIOUS
<1>e. MaxSamples \in Nat /\ MaxBatch \in Nat /\ MaxWarpBatch \in Nat
        /\ MaxBatch * Requested \in Nat /\ Word \in Nat \ {0} /\ PortCap \in Nat \ {0}
        /\ RingCap \in Nat \ {0, 1} /\ CallbackLen \in Nat \ {0}
  BY ConstantsAssumption, WordIsPositive, ProductsAreNat
<1>0. TypeOK /\ CopyInv
  BY DEF TypeInv
<1>f. MayWarp \in BOOLEAN /\ Suppresses \in BOOLEAN
        /\ machine \in Machines /\ machine' = machine
  BY <1>0, ConstantsAssumption, MachineType, MachineStays DEF TypeOK
<1>a. SamplesNeeded \in 0 .. MaxBatch * Requested
  <2>1. CASE warping \/ frames_ran = 0
    <3>1. SamplesNeeded = 0
      <4>1. CASE warping
        BY <4>1 DEF SamplesNeeded
      <4>2. CASE ~warping /\ frames_ran = 0
        BY <4>2, ConstantsAssumption DEF SamplesNeeded
      <4> QED BY <2>1, <4>1, <4>2
    <3>2. 0 \in 0 .. MaxBatch * Requested
      BY <1>e
    <3> QED BY <3>1, <3>2
  <2>2. CASE ~warping /\ frames_ran # 0
    <3>1. frames_ran \in Nat /\ frames_ran <= MaxBatch
      BY <1>0, <1>e, <2>2 DEF TypeInv, TypeOK
    <3>2. frames_ran * Requested \in Nat /\ frames_ran * Requested <= MaxBatch * Requested
      BY <3>1, ProductsAreNat
    <3> QED BY <1>e, <2>2, <3>1, <3>2 DEF SamplesNeeded
  <2> QED BY <2>1, <2>2
<1>b. PortAvailable \in Nat
  BY <1>0, DistanceRange DEF TypeOK, PortAvailable, Distance
<1>c. Used(ring_write, ring_read) \in Nat /\ Room(ring_write, ring_read) \in Nat
  BY <1>0, RoomRange DEF TypeOK
<1>d. Len(got) \in Nat
  BY <1>0 DEF TypeOK
<1>h. surplus' \in Nat /\ late' \in Sample /\ lapped' \in BOOLEAN /\ torn' \in BOOLEAN
  BY HistoryType DEF TypeInv
(* the chip *)
<1>1. CASE DriveSuppressed
  BY <1>0, <1>e, <1>h, <1>1 DEF DriveSuppressed, TypeInv, TypeOK, CopyInv, SamplesNeeded, Sample, portVars, emuVars,
     ringVars, cbVars
<1>2. CASE PushStore
  <2>1. port_buf' \in [PortSlot -> Sample]
    <3>1. made + 1 \in Sample
      BY <1>0, <1>e, <1>h, <1>2 DEF PushStore, TypeInv, TypeOK, Sample
    <3> QED BY <1>0, <1>e, <1>h, <1>2, <3>1 DEF PushStore, TypeOK
  <2>2. pushing' = TRUE /\ due > 0 /\ UNCHANGED <<chipVars, port_write, port_read, emuVars,
            ringVars, cbVars, gui>>
    BY <1>2 DEF PushStore
  <2> QED BY <1>0, <1>e, <1>h, <2>1, <2>2 DEF TypeInv, TypeOK, CopyInv, SamplesNeeded, chipVars, emuVars, ringVars, cbVars
<1>3. CASE PushPublish
  <2>1. port_write' \in 0 .. Word - 1
    BY <1>0, <1>e, <1>h, <1>3 DEF PushPublish, NextWrite, TypeOK
  <2>2. made' \in Sample /\ due' \in 0 .. MaxSamples /\ made' + due' <= MaxSamples
    BY <1>0, <1>e, <1>h, <1>3 DEF PushPublish, TypeInv, TypeOK, Sample
  <2>3. pushing' = FALSE /\ UNCHANGED <<suppress, port_buf, port_read, emuVars, ringVars, cbVars, gui>>
    BY <1>3 DEF PushPublish
  <2>4. TypeOK'
    BY <1>0, <1>f, <1>h, <2>1, <2>2, <2>3 DEF TypeOK, emuVars, ringVars, cbVars
  <2>5. CopyInv'
    BY <1>0, <2>3 DEF CopyInv, SamplesNeeded, emuVars
  <2> QED BY <2>2, <2>3, <2>4, <2>5 DEF TypeInv, emuVars
(* the emulation thread *)
<1>4. CASE EmuBegin
  <2>1. warping' \in BOOLEAN
    BY <1>f, <1>4 DEF EmuBegin
  <2>2. got' \in Seq(Sample) /\ got' = <<>> /\ frames_ran' = 0
    BY <1>4 DEF EmuBegin
  <2> QED BY <1>0, <1>e, <1>h, <1>4, <2>1, <2>2 DEF EmuBegin, TypeInv, TypeOK, CopyInv, chipVars, portVars, ringVars,
     cbVars
<1>5. CASE RunFrame
  <2>1. suppress' \in BOOLEAN
    BY <1>0, <1>f, <1>5 DEF RunFrame, TypeOK
  <2>2. due' \in 0 .. MaxSamples /\ made + due' <= MaxSamples /\ due' >= due /\ due \in Nat
    <3>1. PICK n \in machine.frame : made + due + n <= MaxSamples /\ due' = due + n
      BY <1>5 DEF RunFrame
    <3>2. n \in Nat
      BY <1>f, <3>1, MachineType
    <3>3. made \in Nat /\ due \in Nat
      BY <1>0, <1>e DEF TypeOK, Sample
    <3> QED BY <1>e, <3>1, <3>2, <3>3
  <2>3. frames_ran' \in 0 .. MaxBatch + MaxWarpBatch /\ (~warping => frames_ran' <= MaxBatch)
    BY <1>0, <1>e, <1>h, <1>5 DEF RunFrame, TypeOK, BatchLimit
  <2> QED BY <1>0, <1>e, <1>h, <1>5, <2>1, <2>2, <2>3 DEF RunFrame, TypeInv, TypeOK, CopyInv, portVars,
     ringVars, cbVars
<1>6. CASE EndBatch
  BY <1>0, <1>e, <1>h, <1>a, <1>6 DEF EndBatch, TypeInv, TypeOK, CopyInv, SamplesNeeded, chipVars, portVars,
     ringVars, cbVars
<1>7. CASE PopLoad
  <2>1. want' \in Nat /\ want' <= want /\ want \in 0 .. MaxBatch * Requested
    BY <1>0, <1>e, <1>h, <1>7, <1>b, LeastRange DEF PopLoad, PopCount, TypeOK
  <2>2. got = <<>> /\ Len(got) = 0
    BY <1>0, <1>e, <1>h, <1>7 DEF PopLoad, CopyInv
  <2> QED BY <1>0, <1>e, <1>h, <1>7, <2>1, <2>2 DEF PopLoad, TypeInv, TypeOK, CopyInv, chipVars, portVars,
     ringVars, cbVars
<1>8. CASE PopCopy
  <2>1. port_buf[(port_read + Len(got)) % PortCap] \in Sample
    <3>1. (port_read + Len(got)) % PortCap \in PortSlot
      BY <1>0, <1>e, <1>h, <1>d DEF TypeOK, PortSlot
    <3> QED BY <1>0, <1>e, <1>h, <3>1 DEF TypeOK
  <2>2. got' \in Seq(Sample) /\ Len(got') = Len(got) + 1
    BY <1>0, <1>e, <1>h, <1>8, <2>1 DEF PopCopy, TypeOK
  <2>3. want' \in 0 .. MaxBatch * Requested /\ Len(got') + want' <= MaxBatch * Requested
    BY <1>0, <1>e, <1>h, <1>8, <1>d, <2>2 DEF PopCopy, CopyInv, TypeOK
  <2> QED BY <1>0, <1>e, <1>h, <1>8, <2>2, <2>3 DEF PopCopy, TypeInv, TypeOK, CopyInv, chipVars, portVars,
     ringVars, cbVars
<1>9. CASE PopStore
  <2>1. port_read' \in 0 .. Word - 1
    BY <1>0, <1>e, <1>h, <1>9, <1>d DEF PopStore, TypeOK
  <2>2. Len(got) <= MaxBatch * Requested
    BY <1>0, <1>e, <1>h, <1>9, <1>d DEF PopStore, CopyInv, TypeOK
  <2> QED BY <1>0, <1>e, <1>h, <1>9, <2>1, <2>2 DEF PopStore, TypeInv, TypeOK, CopyInv, chipVars, ringVars,
     cbVars
<1>10. CASE RingWriteLoad
  <2> DEFINE n == Least(Len(got), Room(ring_write, ring_read))
  <2>1. n \in Nat /\ n <= Len(got)
    BY <1>c, <1>d, LeastRange
  <2>2. got' \in Seq(Sample) /\ Len(got') = n
    <3>1. got' = SubSeq(got, 1, n)
      BY <1>10 DEF RingWriteLoad
    <3> HIDE DEF n
    <3> QED BY <1>0, <1>e, <1>h, <2>1, <3>1 DEF TypeOK
  <2>3. Len(got) <= MaxBatch * Requested
    BY <1>10 DEF RingWriteLoad, TypeInv
  <2>4. want' = 0 /\ emu' = "copy" /\ UNCHANGED <<chipVars, portVars, warping, frames_ran,
            ringVars, cbVars, gui>>
    BY <1>10 DEF RingWriteLoad
  <2> HIDE DEF n
  <2> QED BY <1>0, <1>e, <1>h, <1>d, <2>1, <2>2, <2>3, <2>4 DEF TypeInv, TypeOK, CopyInv, chipVars, portVars,
     ringVars, cbVars
<1>11. CASE RingWriteCopy
  <2>1. got[want + 1] \in Sample /\ want + 1 <= MaxBatch * Requested /\ want \in Nat
    BY <1>0, <1>e, <1>h, <1>11, <1>d DEF RingWriteCopy, TypeOK, CopyInv
  <2>2. ring_buf' \in [RingSlot -> Sample]
    BY <1>0, <1>e, <1>h, <1>11, <2>1 DEF RingWriteCopy, TypeOK
  <2> QED BY <1>0, <1>e, <1>h, <1>11, <1>d, <2>1, <2>2 DEF RingWriteCopy, TypeInv, TypeOK, CopyInv, chipVars,
     portVars, cbVars
<1>12. CASE RingWriteStore
  <2>1. ring_write' \in RingSlot
    BY <1>0, <1>e, <1>h, <1>12, <1>d DEF RingWriteStore, TypeOK, RingSlot
  <2>2. got' \in Seq(Sample) /\ want' = 0
    BY <1>12 DEF RingWriteStore
  <2> QED BY <1>0, <1>e, <1>h, <1>12, <2>1, <2>2 DEF RingWriteStore, TypeInv, TypeOK, CopyInv, chipVars,
     portVars, cbVars
(* the callback *)
<1>13. CASE CallbackLoad
  <2>1. cb_left' \in 0 .. CallbackLen /\ cb_pos' \in RingSlot
    BY <1>0, <1>e, <1>h, <1>13, <1>c, LeastRange DEF CallbackLoad, TypeOK
  <2> QED BY <1>0, <1>e, <1>h, <1>13, <2>1 DEF CallbackLoad, TypeInv, TypeOK, CopyInv, SamplesNeeded, chipVars, portVars,
     emuVars, ringVars
<1>14. CASE CallbackCopy
  <2>1. cb_pos' \in RingSlot /\ played' \in Sample /\ cb_left' \in 0 .. CallbackLen
    BY <1>0, <1>e, <1>h, <1>14 DEF CallbackCopy, TypeOK, RingSlot
  <2> QED BY <1>0, <1>e, <1>h, <1>14, <2>1 DEF CallbackCopy, TypeInv, TypeOK, CopyInv, SamplesNeeded, chipVars, portVars,
     emuVars, ringVars
<1>15. CASE CallbackStore
  BY <1>0, <1>e, <1>h, <1>15 DEF CallbackStore, TypeInv, TypeOK, CopyInv, SamplesNeeded, chipVars, portVars, emuVars
(* start and stop *)
<1>16. CASE StartEmuThread
  BY <1>0, <1>e, <1>h, <1>16 DEF StartEmuThread, TypeInv, TypeOK, CopyInv, SamplesNeeded, chipVars, portVars, emuVars,
     ringVars, cbVars
<1>17. CASE ResetRead
  BY <1>0, <1>e, <1>h, <1>17 DEF ResetRead, TypeInv, TypeOK, CopyInv, SamplesNeeded, chipVars, portVars, emuVars,
     cbVars, RingSlot
<1>18. CASE ResetWrite
  BY <1>0, <1>e, <1>h, <1>18 DEF ResetWrite, TypeInv, TypeOK, CopyInv, chipVars, portVars, cbVars, RingSlot
<1>19. CASE StopEmuThread
  BY <1>0, <1>e, <1>h, <1>19 DEF StopEmuThread, TypeInv, TypeOK, CopyInv, chipVars, portVars, ringVars, cbVars
<1>20. CASE UNCHANGED vars
  BY <1>0, <1>e, <1>h, <1>20 DEF vars, TypeInv, TypeOK, CopyInv, SamplesNeeded, chipVars, portVars, emuVars, ringVars,
     cbVars
<1> QED
  BY <1>1, <1>2, <1>3, <1>4, <1>5, <1>6, <1>7, <1>8, <1>9, <1>10, <1>11, <1>12, <1>13, <1>14,
     <1>15, <1>16, <1>17, <1>18, <1>19, <1>20
  DEF Next, Synthesize, EmuNext, CallbackNext, GuiNext

\* The audio path never leaves its types: indices stay inside their rings and copies
\* inside their buffers, for every ring, frame and batch size.
THEOREM TypeCorrect == Spec => []TypeOK
<1>1. TypeInv => TypeOK
  BY DEF TypeInv
<1> QED BY InitType, NextType, <1>1, PTL DEF Spec

-----------------------------------------------------------------------------
(* The unchecked producer *)

\* Samples the port ring holds or will be asked to hold.  A suppressed chip's
\* samples are dropped before the ring.
Pending == PortAvailable + (IF suppress THEN 0 ELSE due)

\* What pop() has decided to take, copied or not.
Taken == Len(got) + want

\* What the frames of this batch let the thread ask for, until it has it.
Asked ==
  IF emu \in {"batch", "samples"} /\ ~warping THEN frames_ran * Requested
  ELSE IF emu = "fetch" THEN Taken ELSE 0

\* The port ring, with the slot being filled.
Stored == PortAvailable + (IF pushing THEN 1 ELSE 0)

\* Until the producer laps the reader the samples it owes are those it made too many,
\* those it was late with, and those the batch under way will ask for.
Owed ==
  /\ Stored <= PortCap
  /\ Pending <= surplus + late + Asked
  /\ emu = "fetch" => Taken <= PortAvailable

OverrunInv ==
  /\ gui # "running" => emu = "off"
  /\ suppress => Suppresses
  /\ pushing => ~suppress
  /\ emu \in {"samples", "fetch"} => ~warping
  /\ ~lapped => Owed

LEMMA OverrunInit == Init => OverrunInv
<1> SUFFICES ASSUME Init PROVE OverrunInv
  OBVIOUS
<1>1. PortAvailable = 0 /\ PortCap \in Nat
  BY WordIsPositive DEF Init, PortAvailable
<1> QED BY <1>1 DEF Init, OverrunInv, Owed, Pending, Asked, Stored

LEMMA OverrunTypes ==
  ASSUME TypeInv
  PROVE  /\ PortAvailable \in Nat /\ due \in Nat /\ frames_ran \in Nat /\ want \in Nat
         /\ Len(got) \in Nat /\ got \in Seq(Sample) /\ surplus \in Nat /\ late \in Nat
         /\ warping \in BOOLEAN /\ pushing \in BOOLEAN /\ suppress \in BOOLEAN
         /\ lapped \in BOOLEAN /\ PortCap \in Nat \ {0} /\ Requested \in Nat
         /\ machine \in Machines /\ Pending \in Nat /\ Taken \in Nat /\ Asked \in Nat
         /\ PortAvailable <= Pending
         /\ frames_ran * Requested \in Nat /\ MaxBatch * Requested \in Nat
         /\ Stored \in Nat
<1>1. /\ PortAvailable \in Nat /\ due \in Nat /\ frames_ran \in Nat /\ want \in Nat
      /\ Len(got) \in Nat /\ got \in Seq(Sample) /\ surplus \in Nat /\ late \in Nat
      /\ warping \in BOOLEAN /\ pushing \in BOOLEAN /\ suppress \in BOOLEAN
      /\ lapped \in BOOLEAN /\ machine \in Machines
  BY ConstantsAssumption, DistanceRange, ProductsAreNat
  DEF TypeInv, TypeOK, PortAvailable, Distance, Sample
<1>2. frames_ran * Requested \in Nat /\ MaxBatch * Requested \in Nat
  BY <1>1, ProductsAreNat
<1>3. Taken \in Nat /\ Pending \in Nat /\ PortAvailable <= Pending /\ Stored \in Nat
  BY <1>1 DEF Taken, Pending, Stored
<1>4. Asked \in Nat
  BY <1>1, <1>2, <1>3 DEF Asked
<1> QED BY <1>1, <1>2, <1>3, <1>4, ConstantsAssumption

\* The thread asks for no more than a full batch.
LEMMA AskedIsBounded ==
  ASSUME TypeInv
  PROVE  Asked <= MaxBatch * Requested
<1>1. CASE emu \in {"batch", "samples"} /\ ~warping
  <2>1. frames_ran <= MaxBatch
    BY <1>1 DEF TypeInv
  <2>2. frames_ran * Requested <= MaxBatch * Requested
    BY <2>1, OverrunTypes, ProductsAreNat
  <2> QED BY <1>1, <2>2 DEF Asked
<1>2. CASE emu = "fetch"
  BY <1>2 DEF Asked, Taken, TypeInv, CopyInv
<1>3. CASE ~(emu \in {"batch", "samples"} /\ ~warping) /\ emu # "fetch"
  BY <1>3, OverrunTypes DEF Asked
<1> QED BY <1>1, <1>2, <1>3

\* What a step that touches neither the port ring nor the batch leaves alone.
LEMMA OwedSame ==
  ASSUME Owed, UNCHANGED <<due, suppress, port_write, port_read, pushing, surplus, late>>,
         Asked' = Asked, emu' = "fetch" => emu = "fetch" /\ Taken' = Taken
  PROVE  Owed'
BY DEF Owed, Pending, Stored, PortAvailable

\* pop() takes what it is asked for or all there is: unless the producer is more than
\* half its index's width ahead, which it cannot be before it laps the reader.
LEMMA PopTakes ==
  ASSUME TypeInv, Owed
  PROVE  PopCount = Least(PortAvailable, want)
<1>1. PortAvailable \in Nat /\ PortAvailable <= PortCap
  <2>1. PortAvailable \in Nat /\ PortCap \in Nat /\ Stored \in Nat /\ Stored <= PortCap
    BY OverrunTypes DEF Owed
  <2>2. PortAvailable <= Stored
    BY <2>1 DEF Stored
  <2> QED BY <2>1, <2>2
<1>2. 2 * PortAvailable < Word
  BY <1>1, WordIsPositive
<1> QED BY <1>2 DEF PopCount

(* Sums of what is owed *)

LEMMA OwedWithFrame ==
  ASSUME NEW p \in Int, NEW q \in Int, NEW s \in Int, NEW t \in Int, NEW l \in Int,
         NEW a \in Int, NEW n \in Int, NEW h \in Int,
         p <= s + l + a, q <= p + n, s + n - h <= t
  PROVE  q <= t + l + (a + h)
OBVIOUS

LEMMA OwedWhenLater ==
  ASSUME NEW p \in Int, NEW s \in Int, NEW l \in Int, NEW m \in Int, NEW a \in Int,
         p <= s + l + a, l <= m
  PROVE  p <= s + m + a
OBVIOUS

LEMMA OwedWhenShort ==
  ASSUME NEW p \in Int, NEW s \in Nat, NEW d \in Int, NEW m \in Int, NEW v \in Int,
         p <= v + d, d <= m
  PROVE  p <= s + m + v
OBVIOUS

\* Running a frame makes the machine owe no more than the frame asks for and what it
\* has too many of.
LEMMA FrameIsOwed ==
  ASSUME TypeInv, suppress => Suppresses, Pending <= surplus + late + Asked, RunFrame
  PROVE  Pending' <= surplus' + late' + Asked'
<1>0. /\ PortAvailable \in Nat /\ due \in Nat /\ frames_ran \in Nat /\ surplus \in Nat
      /\ late \in Nat /\ Requested \in Nat /\ frames_ran * Requested \in Nat
      /\ warping \in BOOLEAN /\ suppress \in BOOLEAN /\ machine \in Machines
      /\ Pending \in Nat
  BY OverrunTypes
<1>1. PICK n \in machine.frame :
        /\ due' = due + n
        /\ surplus' = Greatest(0, surplus + (IF suppress' THEN 0 ELSE n)
                                      - (IF warping THEN 0 ELSE Requested))
  BY DEF RunFrame
<1>2. n \in Nat
  BY <1>0, <1>1, MachineType
<1>3. /\ emu = "batch" /\ emu' = "batch" /\ FrameDone /\ frames_ran' = frames_ran + 1
      /\ UNCHANGED <<port_write, port_read, warping, late>>
  BY DEF RunFrame, portVars
<1>4. suppress' \in BOOLEAN
  BY <1>0, MachineType DEF RunFrame
<1>5. PortAvailable' = PortAvailable
  BY <1>3 DEF PortAvailable
<1>6. Pending = PortAvailable + due
  <2>1. CASE suppress
    <3>1. due = 0
      BY <1>0, <1>3, <2>1, MachineType DEF FrameDone
    <3> QED BY <1>0, <2>1, <3>1 DEF Pending
  <2>2. CASE ~suppress
    BY <2>2 DEF Pending
  <2> QED BY <2>1, <2>2
<1> DEFINE sent  == IF suppress' THEN 0 ELSE n
           share == IF warping THEN 0 ELSE Requested
<1>7. sent \in Nat /\ share \in Nat
  BY <1>0, <1>2
<1>8. Pending' <= Pending + sent /\ Pending' \in Nat
  BY <1>0, <1>1, <1>2, <1>4, <1>5, <1>6 DEF Pending
<1>9. surplus + sent - share <= surplus' /\ surplus' \in Int
  <2>1. surplus' = Greatest(0, surplus + sent - share)
    BY <1>1
  <2> HIDE DEF sent, share
  <2> QED BY <1>0, <1>7, <2>1, GreatestRange
<1>10. Asked' = Asked + share /\ Asked \in Nat
  <2>1. CASE warping
    BY <1>3, <2>1 DEF Asked
  <2>2. CASE ~warping
    <3>1. (frames_ran + 1) * Requested = frames_ran * Requested + Requested
      BY <1>0, ProductsAreNat
    <3> QED BY <1>0, <1>3, <2>2, <3>1 DEF Asked
  <2> QED BY <1>0, <2>1, <2>2
<1> HIDE DEF sent, share
<1>11. Pending <= surplus + late + Asked /\ late' = late
  BY <1>3
<1>12. /\ surplus \in Int /\ late \in Int /\ Pending \in Int /\ Pending' \in Int
       /\ Asked \in Int /\ sent \in Int /\ share \in Int
  BY <1>0, <1>7, <1>8, <1>10
<1>13. Pending' <= surplus' + late + (Asked + share)
  BY <1>8, <1>9, <1>11, <1>12, OwedWithFrame, Zenon
<1> QED BY <1>10, <1>11, <1>13

LEMMA OverrunNext == TypeInv /\ OverrunInv /\ [Next]_vars => OverrunInv'
<1> SUFFICES ASSUME TypeInv, OverrunInv, [Next]_vars PROVE OverrunInv'
  OBVIOUS
<1>0. TypeOK /\ CopyInv
  BY DEF TypeInv
<1>1. /\ PortAvailable \in Nat /\ due \in Nat /\ frames_ran \in Nat /\ want \in Nat
      /\ Len(got) \in Nat /\ got \in Seq(Sample) /\ surplus \in Nat /\ late \in Nat
      /\ warping \in BOOLEAN /\ pushing \in BOOLEAN /\ suppress \in BOOLEAN
      /\ lapped \in BOOLEAN /\ PortCap \in Nat \ {0}
      /\ Pending \in Nat /\ Taken \in Nat /\ Asked \in Nat
      /\ frames_ran * Requested \in Nat
  BY OverrunTypes
<1>m. Suppresses' = Suppresses
  BY MachineStays
<1>2. ASSUME UNCHANGED <<due, suppress, port_write, port_read, pushing, emuVars, surplus, late,
                         lapped>>,
             gui' = gui \/ (gui # "running" /\ gui' # "running")
      PROVE  OverrunInv'
  <2>1. /\ Asked' = Asked /\ Taken' = Taken
        /\ UNCHANGED <<emu, warping, suppress, pushing, lapped>>
    BY <1>2 DEF Asked, Taken, emuVars
  <2>2. ~lapped => Owed'
    BY <1>2, <2>1, OwedSame DEF OverrunInv
  <2> QED BY <1>2, <1>m, <2>1, <2>2 DEF OverrunInv
(* the chip *)
<1>4. CASE DriveSuppressed
  <2>1. /\ due' = due - 1 /\ suppress /\ due > 0
        /\ UNCHANGED <<suppress, port_write, port_read, pushing, emu, warping, frames_ran,
                       got, want, gui, surplus, late, lapped>>
    BY <1>4 DEF DriveSuppressed, portVars, emuVars, history
  <2>2. /\ PortAvailable' = PortAvailable /\ Pending' = Pending /\ Taken' = Taken
        /\ Asked' = Asked /\ Stored' = Stored
    BY <2>1 DEF PortAvailable, Pending, Taken, Asked, Stored
  <2> QED BY <1>m, <2>1, <2>2 DEF OverrunInv, Owed
<1>5. CASE PushStore
  <2>1. /\ pushing' = TRUE /\ ~suppress /\ lapped' = (lapped \/ PortAvailable >= PortCap)
        /\ UNCHANGED <<due, suppress, port_write, port_read, emu, warping, frames_ran, got,
                       want, gui, surplus, late>>
    BY <1>5 DEF PushStore, chipVars, emuVars
  <2>2. /\ PortAvailable' = PortAvailable /\ Pending' = Pending /\ Taken' = Taken
        /\ Asked' = Asked /\ Stored' = PortAvailable + 1
    BY <2>1 DEF PortAvailable, Pending, Taken, Asked, Stored
  <2>3. ASSUME ~lapped' PROVE Owed'
    <3>1. ~lapped /\ ~(PortAvailable >= PortCap)
      BY <2>1, <2>3
    <3>2. PortAvailable + 1 <= PortCap
      BY <1>1, <3>1
    <3> QED BY <2>1, <2>2, <3>1, <3>2 DEF OverrunInv, Owed
  <2> QED BY <1>m, <2>1, <2>3 DEF OverrunInv
<1>6. CASE PushPublish
  <2>1. /\ pushing /\ pushing' = FALSE /\ due' = due - 1 /\ port_write' = NextWrite
        /\ UNCHANGED <<suppress, port_read, emu, warping, frames_ran, got, want, gui, surplus,
                       late, lapped>>
    BY <1>6 DEF PushPublish, emuVars, history
  <2>2. due > 0 /\ ~suppress /\ Taken' = Taken /\ Asked' = Asked
    BY <2>1 DEF TypeInv, OverrunInv, Taken, Asked
  <2>3. ASSUME ~lapped PROVE Owed'
    <3>1. Owed /\ PortAvailable + 1 <= PortCap
      BY <2>1, <2>3 DEF OverrunInv, Owed, Stored
    <3>2. PortAvailable + 1 < Word
      BY <1>1, <3>1, WordIsPositive
    <3>3. PortAvailable' = PortAvailable + 1
      BY <1>0, <2>1, <3>2, DistanceAfterPush DEF TypeOK, PortAvailable, NextWrite, Distance
    <3>4. Pending' = Pending
      BY <1>1, <2>1, <2>2, <3>3 DEF Pending
    <3>5. Stored' = PortAvailable + 1
      BY <1>1, <2>1, <3>3 DEF Stored
    <3>6. emu = "fetch" => Taken <= PortAvailable + 1
      BY <1>1, <3>1 DEF Owed
    <3> QED BY <2>1, <2>2, <3>1, <3>3, <3>4, <3>5, <3>6 DEF Owed
  <2> QED BY <1>m, <2>1, <2>3 DEF OverrunInv
(* the emulation thread *)
<1>7. CASE EmuBegin
  <2>1. /\ emu = "idle" /\ emu' = "batch" /\ frames_ran' = 0
        /\ UNCHANGED <<due, suppress, port_write, port_read, pushing, gui, surplus, late, lapped>>
    BY <1>7 DEF EmuBegin, chipVars, portVars, history
  <2>2. Asked' = 0 /\ Asked = 0
    BY <2>1, ConstantsAssumption DEF Asked
  <2>3. ~lapped => Owed'
    BY <2>1, <2>2, OwedSame DEF OverrunInv
  <2> QED BY <1>m, <2>1, <2>3 DEF OverrunInv
<1>8. CASE RunFrame
  <2>1. /\ emu = "batch" /\ emu' = emu /\ FrameDone
        /\ suppress' \in IF Suppresses THEN {FALSE, MayWarp} ELSE {FALSE}
        /\ UNCHANGED <<port_write, port_read, pushing, warping, gui, late, lapped>>
    BY <1>8 DEF RunFrame, portVars
  <2>2. suppress' => Suppresses
    BY <2>1
  <2>3. Suppresses => ~pushing
    BY <1>0, <1>1, <2>1, MachineType DEF TypeInv, TypeOK, FrameDone
  <2>4. ASSUME ~lapped PROVE Owed'
    <3>1. Owed /\ Pending' <= surplus' + late' + Asked'
      BY <1>8, <2>4, FrameIsOwed DEF OverrunInv, Owed
    <3>2. Stored' = Stored
      BY <2>1 DEF Stored, PortAvailable
    <3> QED BY <2>1, <3>1, <3>2 DEF Owed
  <2> QED BY <1>m, <2>1, <2>2, <2>3, <2>4 DEF OverrunInv
<1>9. CASE EndBatch
  <2>1. /\ emu = "batch" /\ want' = SamplesNeeded
        /\ emu' = IF SamplesNeeded > 0 THEN "samples" ELSE "idle"
        /\ UNCHANGED <<due, suppress, port_write, port_read, pushing, warping, frames_ran, got,
                       gui, surplus, late, lapped>>
    BY <1>9 DEF EndBatch, chipVars, portVars, history
  <2>2. Asked' = Asked
    <3>1. CASE SamplesNeeded > 0
      BY <2>1, <3>1 DEF Asked, SamplesNeeded
    <3>2. CASE ~(SamplesNeeded > 0)
      <4>1. Asked = SamplesNeeded
        BY <2>1 DEF Asked, SamplesNeeded
      <4>2. Asked = 0
        BY <1>1, <3>2, <4>1
      <4> QED BY <2>1, <3>2, <4>2 DEF Asked
    <3> QED BY <3>1, <3>2
  <2>3. emu' = "samples" => ~warping
    BY <2>1 DEF SamplesNeeded
  <2>4. emu' # "fetch" /\ (~lapped => Owed')
    BY <2>1, <2>2, OwedSame DEF OverrunInv
  <2> QED BY <1>m, <2>1, <2>3, <2>4 DEF OverrunInv
<1>10. CASE PopLoad
  <2>1. /\ emu = "samples" /\ emu' = "fetch" /\ want' = PopCount /\ late' = Greatest(late, due)
        /\ UNCHANGED <<due, suppress, port_write, port_read, pushing, warping, frames_ran, got,
                       gui, surplus, lapped>>
    BY <1>10 DEF PopLoad, chipVars, portVars
  <2>2. PortAvailable' = PortAvailable /\ Pending' = Pending /\ Stored' = Stored
    BY <2>1 DEF PortAvailable, Pending, Stored
  <2>3. ~warping
    BY <2>1 DEF OverrunInv
  <2>4. ASSUME ~lapped PROVE Owed'
    <3>1. Owed /\ PopCount = Least(PortAvailable, want)
      BY <2>4, PopTakes DEF OverrunInv
    <3>2. Taken' = PopCount /\ Asked' = PopCount /\ Asked = want
      <4>1. Taken' = PopCount
        <5>1. PopCount \in Nat
          BY <1>1, <3>1, LeastRange
        <5>2. Len(got') = 0
          BY <1>0, <2>1 DEF CopyInv
        <5> QED BY <2>1, <5>1, <5>2 DEF Taken
      <4>2. Asked = want
        BY <1>0, <2>1, <2>3 DEF CopyInv, Asked, SamplesNeeded
      <4> QED BY <2>1, <4>1, <4>2 DEF Asked
    <3>3. late' \in Int /\ late <= late' /\ due <= late'
      BY <1>1, <2>1, GreatestRange
    <3>4. Pending <= surplus + late + want /\ Pending <= PortAvailable + due
      BY <1>1, <3>1, <3>2 DEF Owed, Pending
    <3>5. Pending <= surplus + late' + PopCount /\ PopCount <= PortAvailable
      <4>0. /\ PortAvailable \in Int /\ want \in Int /\ surplus \in Nat /\ surplus \in Int
            /\ due \in Int /\ Pending \in Int /\ late \in Int
        BY <1>1
      <4>1. CASE PopCount = want /\ want <= PortAvailable
        <5>1. Pending <= surplus + late' + want
          BY <3>3, <3>4, <4>0, OwedWhenLater, Zenon
        <5> QED BY <4>1, <5>1
      <4>2. CASE PopCount = PortAvailable
        <5>1. Pending <= surplus + late' + PortAvailable
          BY <3>3, <3>4, <4>0, OwedWhenShort, Zenon
        <5>2. PortAvailable <= PortAvailable
          BY <4>0
        <5> QED BY <4>2, <5>1, <5>2
      <4>3. (PopCount = want /\ want <= PortAvailable) \/ PopCount = PortAvailable
        BY <1>1, <3>1 DEF Least
      <4> QED BY <4>1, <4>2, <4>3
    <3> QED BY <2>1, <2>2, <3>1, <3>2, <3>5 DEF Owed
  <2> QED BY <1>m, <2>1, <2>3, <2>4 DEF OverrunInv
<1>11. CASE PopCopy
  <2>1. /\ emu = "fetch" /\ want > 0 /\ want' = want - 1 /\ Len(got') = Len(got) + 1
        /\ UNCHANGED <<due, suppress, port_write, port_read, pushing, emu, warping, frames_ran,
                       gui, surplus, late, lapped>>
    BY <1>1, <1>11 DEF PopCopy, chipVars, portVars, history
  <2>2. Taken' = Taken /\ Asked' = Asked
    <3>1. Taken' = Taken
      BY <1>1, <2>1 DEF Taken
    <3> QED BY <2>1, <3>1 DEF Asked
  <2>3. ~lapped => Owed'
    BY <2>1, <2>2, OwedSame DEF OverrunInv
  <2> QED BY <1>m, <2>1, <2>3 DEF OverrunInv
<1>12. CASE PopStore
  <2>1. /\ emu = "fetch" /\ want = 0 /\ emu' \in {"idle", "ring"}
        /\ port_read' = (port_read + Len(got)) % Word
        /\ UNCHANGED <<due, suppress, port_write, pushing, warping, gui, surplus, late, lapped>>
    BY <1>12 DEF PopStore, chipVars, history
  <2>2. ASSUME ~lapped PROVE Owed'
    <3>1. Owed /\ Asked = Len(got) /\ Asked' = 0
      BY <1>1, <2>1, <2>2 DEF OverrunInv, Asked, Taken
    <3>2. Len(got) <= PortAvailable
      BY <1>1, <2>1, <3>1 DEF Owed, Taken
    <3>3. PortAvailable' = PortAvailable - Len(got)
      BY <1>0, <1>1, <2>1, <3>2, DistanceAfterPop DEF TypeOK, PortAvailable, Distance
    <3>4. Pending' = Pending - Len(got) /\ Stored' = Stored - Len(got) /\ Stored \in Nat
      BY <1>1, <2>1, <3>3 DEF Pending, Stored
    <3> QED BY <1>1, <2>1, <3>1, <3>4 DEF Owed
  <2> QED BY <1>m, <2>1, <2>2 DEF OverrunInv
<1>13. ASSUME emu \notin {"batch", "samples", "fetch"}, emu' \notin {"batch", "samples", "fetch"},
              UNCHANGED <<due, suppress, port_write, port_read, pushing, surplus, late, lapped>>,
              gui' # "running" => emu' = "off"
       PROVE  OverrunInv'
  <2>1. Asked = 0 /\ Asked' = 0
    BY <1>13 DEF Asked
  <2>2. ~lapped => Owed'
    BY <1>13, <2>1, OwedSame DEF OverrunInv
  <2> QED BY <1>m, <1>13, <2>2 DEF OverrunInv
<1>14. CASE RingWriteLoad \/ RingWriteCopy \/ RingWriteStore
  <2>1. /\ emu \in {"ring", "copy"} /\ emu' \in {"idle", "copy"}
        /\ UNCHANGED <<due, suppress, port_write, port_read, pushing, gui, surplus, late, lapped>>
    BY <1>14 DEF RingWriteLoad, RingWriteCopy, RingWriteStore, chipVars, portVars, history
  <2> QED BY <1>13, <2>1 DEF OverrunInv
(* the callback, start and stop *)
<1>15. CASE CallbackNext
  BY <1>2, <1>15 DEF CallbackNext, CallbackLoad, CallbackCopy, CallbackStore, chipVars, portVars,
     history
<1>16. CASE StartEmuThread \/ ResetRead
  BY <1>2, <1>16 DEF StartEmuThread, ResetRead, chipVars, portVars, history
<1>17. CASE ResetWrite
  <2>1. /\ gui = "resetWrite" /\ gui' = "running" /\ emu' = "idle"
        /\ UNCHANGED <<due, suppress, port_write, port_read, pushing, surplus, late, lapped>>
    BY <1>17 DEF ResetWrite, chipVars, portVars, history
  <2> QED BY <1>13, <2>1 DEF OverrunInv
<1>18. CASE StopEmuThread
  <2>1. /\ emu = "idle" /\ emu' = "off"
        /\ UNCHANGED <<due, suppress, port_write, port_read, pushing, surplus, late, lapped>>
    BY <1>18 DEF StopEmuThread, chipVars, portVars, history
  <2> QED BY <1>13, <2>1
<1>19. CASE UNCHANGED vars
  BY <1>2, <1>19 DEF vars, chipVars, portVars, history
<1> QED
  BY <1>4, <1>5, <1>6, <1>7, <1>8, <1>9, <1>10, <1>11, <1>12, <1>14, <1>15, <1>16, <1>17,
     <1>18, <1>19
  DEF Next, Synthesize, EmuNext, GuiNext

\* push_unchecked runs without its check, and what runs it over is counted: whatever the
\* sizes of rings, frames and batches, whether the machine warps or a thread lags, the
\* producer is not a lap ahead of pop() before the samples made too many and those that
\* were late are more than the port has room for beside a full batch.
THEOREM OverrunExplained == Spec => OverrunIsExplained
<1>1. ASSUME TypeInv, OverrunInv, [Next]_vars, ~lapped, lapped'
      PROVE  surplus + late > PortCap - MaxBatch * Requested
  <2>1. /\ PortAvailable \in Nat /\ due \in Nat /\ surplus \in Nat /\ late \in Nat
        /\ Pending \in Nat /\ Asked \in Nat /\ MaxBatch * Requested \in Nat /\ PortCap \in Nat
    BY <1>1, OverrunTypes
  <2>2. PushStore
    BY <1>1 DEF Next, Synthesize, DriveSuppressed, PushPublish, EmuNext, EmuBegin,
       RunFrame, EndBatch, PopLoad, PopCopy, PopStore, RingWriteLoad, RingWriteCopy,
       RingWriteStore, CallbackNext, CallbackLoad, CallbackCopy, CallbackStore, GuiNext,
       StartEmuThread, ResetRead, ResetWrite, StopEmuThread, vars, history
  <2>3. PortAvailable >= PortCap /\ due > 0 /\ ~suppress
    BY <1>1, <2>2 DEF PushStore
  <2>4. Pending = PortAvailable + due
    BY <2>3 DEF Pending
  <2>5. Pending <= surplus + late + Asked /\ Asked <= MaxBatch * Requested
    BY <1>1, AskedIsBounded DEF OverrunInv, Owed
  <2> QED BY <2>1, <2>3, <2>4, <2>5
<1>2. TypeInv /\ OverrunInv /\ [Next]_vars
        => [~lapped /\ lapped' => surplus + late > PortCap - MaxBatch * Requested]_vars
  BY <1>1
<1> QED
  BY InitType, NextType, OverrunInit, OverrunNext, <1>2, PTL DEF Spec, OverrunIsExplained

-----------------------------------------------------------------------------
(* Where the indices point *)

\* Used counts the steps from the reader to the writer.
LEMMA UsedIsDistance ==
  ASSUME NEW w \in RingSlot, NEW r \in RingSlot
  PROVE  /\ Used(w, r) \in 0 .. RingCap - 1
         /\ r + Used(w, r) = IF w >= r THEN w ELSE w + RingCap
BY ConstantsAssumption DEF Used, RingSlot

\* The slot i steps from r, for less than a round.
LEMMA RingSlotAhead ==
  ASSUME NEW r \in RingSlot, NEW i \in 0 .. RingCap - 1
  PROVE  /\ (r + i) % RingCap \in RingSlot
         /\ (r + i) % RingCap = IF r + i >= RingCap THEN r + i - RingCap ELSE r + i
BY ConstantsAssumption DEF RingSlot

LEMMA RingSlotAtReader == \A r \in RingSlot : (r + 0) % RingCap = r
BY ConstantsAssumption DEF RingSlot

\* write() fills the slots that follow what the ring holds.
LEMMA RingWriterSlot ==
  ASSUME NEW w \in RingSlot, NEW r \in RingSlot, NEW n \in Nat,
         Used(w, r) + n <= RingCap - 1
  PROVE  (w + n) % RingCap = (r + (Used(w, r) + n)) % RingCap
<1> DEFINE h == Used(w, r)
<1>1. h \in 0 .. RingCap - 1 /\ r + h = IF w >= r THEN w ELSE w + RingCap
  BY UsedIsDistance
<1>2. RingCap \in Nat \ {0} /\ w \in 0 .. RingCap - 1 /\ r \in 0 .. RingCap - 1
  BY ConstantsAssumption DEF RingSlot
<1>3. n \in 0 .. RingCap - 1 /\ h + n \in 0 .. RingCap - 1
  BY <1>1, <1>2
<1>4. (w + n) % RingCap = IF w + n >= RingCap THEN w + n - RingCap ELSE w + n
  BY <1>3, RingSlotAhead
<1> DEFINE m == h + n
<1> DEFINE u == (w + n) % RingCap
<1> DEFINE v == (r + m) % RingCap
<1>5. v = IF r + m >= RingCap THEN r + m - RingCap ELSE r + m
  <2> HIDE DEF m
  <2>1. m \in 0 .. RingCap - 1
    BY <1>3 DEF m
  <2> QED BY <2>1, RingSlotAhead
<1>6. m = h + n /\ u = IF w + n >= RingCap THEN w + n - RingCap ELSE w + n
  BY <1>4
<1>7. u = v
  <2> HIDE DEF h, m, u, v
  <2> QED BY <1>1, <1>2, <1>3, <1>5, <1>6
<1> QED BY <1>7

\* Publishing n samples for which there is room adds them to what the ring holds.
LEMMA UsedAfterWrite ==
  ASSUME NEW w \in RingSlot, NEW r \in RingSlot, NEW n \in Nat,
         Used(w, r) + n <= RingCap - 1
  PROVE  Used((w + n) % RingCap, r) = Used(w, r) + n
<1>1. Used(w, r) \in 0 .. RingCap - 1
        /\ r + Used(w, r) = IF w >= r THEN w ELSE w + RingCap
  BY UsedIsDistance
<1>2. RingCap \in Nat \ {0} /\ w \in 0 .. RingCap - 1 /\ r \in 0 .. RingCap - 1
  BY ConstantsAssumption DEF RingSlot
<1> DEFINE v == (w + n) % RingCap
<1>3. v \in RingSlot /\ v = IF w + n >= RingCap THEN w + n - RingCap ELSE w + n
  <2>1. n \in 0 .. RingCap - 1
    BY <1>1, <1>2
  <2> QED BY <2>1, RingSlotAhead
<1> HIDE DEF v
<1>4. Used(v, r) \in 0 .. RingCap - 1 /\ r + Used(v, r) = IF v >= r THEN v ELSE v + RingCap
  BY <1>3, UsedIsDistance
<1>5. Used(v, r) = Used(w, r) + n
  BY <1>1, <1>2, <1>3, <1>4
<1> QED BY <1>5 DEF v

\* Taking n samples that are there removes them from what the ring holds.
LEMMA UsedAfterRead ==
  ASSUME NEW w \in RingSlot, NEW r \in RingSlot, NEW n \in 0 .. Used(w, r)
  PROVE  Used(w, (r + n) % RingCap) = Used(w, r) - n
<1>1. Used(w, r) \in 0 .. RingCap - 1
        /\ r + Used(w, r) = IF w >= r THEN w ELSE w + RingCap
  BY UsedIsDistance
<1>2. RingCap \in Nat \ {0} /\ w \in 0 .. RingCap - 1 /\ r \in 0 .. RingCap - 1
  BY ConstantsAssumption DEF RingSlot
<1> DEFINE s == (r + n) % RingCap
<1>3. s \in RingSlot /\ s = IF r + n >= RingCap THEN r + n - RingCap ELSE r + n
  <2>1. n \in 0 .. RingCap - 1
    BY <1>1, <1>2
  <2> QED BY <2>1, RingSlotAhead
<1> HIDE DEF s
<1>4. Used(w, s) \in 0 .. RingCap - 1 /\ s + Used(w, s) = IF w >= s THEN w ELSE w + RingCap
  BY <1>3, UsedIsDistance
<1>5. n \in Nat /\ n <= Used(w, r)
  BY <1>1
<1>6. Used(w, s) = Used(w, r) - n
  BY <1>1, <1>2, <1>3, <1>4, <1>5
<1> QED BY <1>6 DEF s

\* push_unchecked() fills the slot behind what the port ring holds: the mask sees
\* through the index's width because that is a whole number of rings.
LEMMA PortWriterSlot ==
  ASSUME NEW w \in 0 .. Word - 1, NEW r \in 0 .. Word - 1
  PROVE  w % PortCap = (r + Distance(w, r)) % PortCap
<1> DEFINE d == Distance(w, r)
<1>1. d \in 0 .. Word - 1 /\ d = IF w >= r THEN w - r ELSE w - r + Word
  BY DistanceRange
<1> HIDE DEF d
<1>2. CASE w >= r
  <2>1. r + d = w
    BY <1>1, <1>2, WordIsPositive
  <2> QED BY <2>1 DEF d
<1>3. CASE ~(w >= r)
  <2>1. PICK k \in 3 .. Word : Word = k * PortCap
    BY ConstantsAssumption
  <2>2. k \in Nat \ {0} /\ PortCap \in Nat \ {0} /\ Word \in Nat \ {0}
    BY <2>1, WordIsPositive
  <2> DEFINE x == w + Word
  <2>3. x \in Nat /\ r + d = x
    BY <1>1, <1>3, <2>2
  <2>4. x % Word = w
    <3>1. x = 1 * Word + w /\ w \in 0 .. Word - 1
      BY <1>1, <2>2
    <3> HIDE DEF x
    <3> QED BY <2>2, <2>3, <3>1, ModUnique
  <2> HIDE DEF x
  <2>5. (x % (k * PortCap)) % PortCap = x % PortCap
    BY <2>2, <2>3, ModMultiple
  <2>6. w % PortCap = x % PortCap
    BY <2>1, <2>4, <2>5
  <2> QED BY <2>3, <2>6 DEF d
<1> QED BY <1>2, <1>3

\* After pop() has moved its index by n, the slots count from there.
LEMMA PortSlotAfterPop ==
  ASSUME NEW r \in Nat, NEW n \in Nat, NEW j \in Nat
  PROVE  (((r + n) % Word) + j) % PortCap = (r + (n + j)) % PortCap
<1>1. PICK k \in 3 .. Word : Word = k * PortCap
  BY ConstantsAssumption
<1>2. k \in Nat \ {0} /\ PortCap \in Nat \ {0} /\ Word \in Nat \ {0}
  BY <1>1, WordIsPositive
<1> DEFINE y == r + n
<1> DEFINE x == y % Word
<1>3. y \in Nat
  OBVIOUS
<1>4. x \in Int
  <2> HIDE DEF y
  <2> QED BY <1>2, <1>3, DivMod
<1>5. x % PortCap = y % PortCap
  <2> HIDE DEF y
  <2> QED BY <1>1, <1>2, <1>3, ModMultiple
<1>6. y + j = r + (n + j) /\ j \in Int /\ y \in Int
  OBVIOUS
<1> HIDE DEF x, y
<1>7. ((x % PortCap) + j) % PortCap = (x + j) % PortCap
  BY <1>2, <1>4, <1>6, ModAdd, Zenon
<1>8. ((y % PortCap) + j) % PortCap = (y + j) % PortCap
  BY <1>2, <1>6, ModAdd, Zenon
<1>9. (x + j) % PortCap = (r + (n + j)) % PortCap
  BY <1>5, <1>6, <1>7, <1>8
<1> QED BY <1>9 DEF x, y

-----------------------------------------------------------------------------
(* Samples in order *)

\* The output ring from the reader on: what it holds, and behind that what write()
\* has copied and not published.  Between the two stores of a restart it holds nothing,
\* whatever its indices say.
RingAt(i) == ring_buf[(ring_read + i) % RingCap]
Held      == IF gui = "resetWrite" THEN 0 ELSE Used(ring_write, ring_read)
Written   == IF emu = "copy" THEN want ELSE 0
Filled    == Held + Written

\* The port ring likewise: Stored counts what push_unchecked is about to publish as well.
PortAt(j) == port_buf[(port_read + j) % PortCap]
Fetched   == IF emu = "fetch" THEN Len(got) ELSE 0

\* The callback has given SDL the first c samples of the ring and has not said so.
CallbackAt(c) ==
  /\ c \in 0 .. Held /\ c + cb_left <= Held
  /\ callback = "copy" => cb_pos = (ring_read + c) % RingCap
  /\ callback = "idle" => c = 0 /\ cb_left = 0

\* Samples ascend along the way. Between the stations are two marks: a is no less
\* than what the ring has had, b no less than what the port ring has handed over.
RingAscends(c, a) ==
  /\ played <= a
  /\ \A i \in 0 .. Filled - 1 : RingAt(i) <= a
  /\ \A i \in c .. Filled - 1 : played < RingAt(i)
  /\ \A i, j \in 0 .. Filled - 1 : i < j => RingAt(i) < RingAt(j)

GotAscends(a, b) ==
  /\ a <= b
  /\ \A k \in Written + 1 .. Len(got) : a < got[k] /\ got[k] <= b
  /\ \A k, l \in Written + 1 .. Len(got) : k < l => got[k] < got[l]

PortAscends(b) ==
  /\ b <= made
  /\ \A j \in Fetched .. Stored - 1 : b < PortAt(j)
  /\ \A j, k \in Fetched .. Stored - 1 : j < k => PortAt(j) < PortAt(k)
  /\ \A j \in Fetched .. PortAvailable - 1 : PortAt(j) <= made
  /\ pushing => PortAt(PortAvailable) = made + 1

\* A copy into the output ring stays within the room it has found, and a restart that
\* has set one index back keeps it there until it has set back the other.
RoomInv ==
  /\ emu = "copy" => want <= Len(got) /\ Held + Len(got) <= RingCap - 1
  /\ emu \notin {"fetch", "ring", "copy"} => got = <<>>
  /\ gui = "resetWrite" => ring_read = 0

InOrder ==
  /\ RoomInv
  /\ \E c \in RingSlot, a, b \in Sample :
       CallbackAt(c) /\ RingAscends(c, a) /\ GotAscends(a, b) /\ PortAscends(b)

OrderInv == ~lapped /\ ~torn => InOrder

LEMMA StationTypes ==
  ASSUME TypeInv
  PROVE  /\ Held \in 0 .. RingCap - 1 /\ Written \in Nat /\ Filled \in Nat
         /\ Filled = Held + Written
         /\ PortAvailable \in 0 .. Word - 1 /\ Stored \in Nat /\ Fetched \in Nat
         /\ got \in Seq(Sample) /\ Len(got) \in Nat
         /\ \A k \in 1 .. Len(got) : got[k] \in Sample
         /\ \A i \in Nat : RingAt(i) \in Sample
         /\ \A j \in Nat : PortAt(j) \in Sample
         /\ made \in Nat /\ played \in Nat /\ Sample \subseteq Nat
         /\ port_write \in 0 .. Word - 1 /\ port_read \in 0 .. Word - 1
         /\ ring_write \in RingSlot /\ ring_read \in RingSlot
         /\ RingCap \in Nat \ {0, 1} /\ PortCap \in Nat \ {0} /\ Word \in Nat \ {0}
<1>0. TypeOK
  BY DEF TypeInv
<1>1. RingCap \in Nat \ {0, 1} /\ PortCap \in Nat \ {0} /\ Word \in Nat \ {0}
        /\ Sample \subseteq Nat
  BY ConstantsAssumption, WordIsPositive DEF Sample
<1>2. /\ port_write \in 0 .. Word - 1 /\ port_read \in 0 .. Word - 1
      /\ ring_write \in RingSlot /\ ring_read \in RingSlot
      /\ ring_read \in Nat /\ port_read \in Nat
      /\ port_buf \in [PortSlot -> Sample] /\ ring_buf \in [RingSlot -> Sample]
      /\ got \in Seq(Sample) /\ made \in Nat /\ played \in Nat /\ want \in Nat
      /\ pushing \in BOOLEAN
  BY <1>0, <1>1 DEF TypeOK, RingSlot
<1>3. Held \in 0 .. RingCap - 1
  <2>1. Used(ring_write, ring_read) \in 0 .. RingCap - 1
    BY <1>2, UsedIsDistance
  <2>2. 0 \in 0 .. RingCap - 1
    BY <1>1
  <2> QED BY <2>1, <2>2 DEF Held
<1>4. PortAvailable \in 0 .. Word - 1
  BY <1>2, DistanceRange DEF PortAvailable, Distance
<1>5. Len(got) \in Nat /\ \A k \in 1 .. Len(got) : got[k] \in Sample
  BY <1>2
<1>6. Written \in Nat /\ Fetched \in Nat
  BY <1>2, <1>5 DEF Written, Fetched
<1>7. Filled \in Nat /\ Filled = Held + Written
  BY <1>1, <1>3, <1>6 DEF Filled
<1>8. Stored \in Nat
  BY <1>1, <1>4 DEF Stored
<1>9. ASSUME NEW i \in Nat PROVE RingAt(i) \in Sample
  <2>1. (ring_read + i) % RingCap \in RingSlot
    BY <1>1, <1>2 DEF RingSlot
  <2> QED BY <1>2, <2>1 DEF RingAt
<1>10. ASSUME NEW i \in Nat PROVE PortAt(i) \in Sample
  <2>1. (port_read + i) % PortCap \in PortSlot
    BY <1>1, <1>2 DEF PortSlot
  <2> QED BY <1>2, <2>1 DEF PortAt
<1> QED BY <1>1, <1>2, <1>3, <1>4, <1>5, <1>6, <1>7, <1>8, <1>9, <1>10

LEMMA SamplesAreNumbers ==
  ASSUME TypeInv
  PROVE  /\ \A s \in Sample : s \in Nat
         /\ \A i \in Nat : RingAt(i) \in Nat
         /\ \A j \in Nat : PortAt(j) \in Nat
         /\ \A k \in 1 .. Len(got) : got[k] \in Nat
<1>1. Sample \subseteq Nat /\ Len(got) \in Nat
  BY StationTypes
<1>2. ASSUME NEW i \in Nat PROVE RingAt(i) \in Nat
  BY <1>1, StationTypes
<1>3. ASSUME NEW j \in Nat PROVE PortAt(j) \in Nat
  BY <1>1, StationTypes
<1>4. ASSUME NEW k \in 1 .. Len(got) PROVE got[k] \in Nat
  BY <1>1, StationTypes
<1> QED BY <1>1, <1>2, <1>3, <1>4

(* What a step leaves alone *)

LEMMA CallbackSame ==
  ASSUME NEW c, CallbackAt(c),
         UNCHANGED <<ring_read, callback, cb_pos, cb_left>>, Held' = Held
  PROVE  CallbackAt(c)'
BY DEF CallbackAt

LEMMA RingSame ==
  ASSUME NEW c, NEW a, RingAscends(c, a), UNCHANGED <<ring_buf, ring_read, played>>,
         Held' = Held, Written' = Written
  PROVE  RingAscends(c, a)'
BY DEF RingAscends, Filled, RingAt

LEMMA GotSame ==
  ASSUME NEW a, NEW b, GotAscends(a, b), got' = got, Written' = Written
  PROVE  GotAscends(a, b)'
BY DEF GotAscends

LEMMA PortSame ==
  ASSUME NEW b \in Nat, TypeInv, PortAscends(b), UNCHANGED portVars, Fetched' = Fetched,
         made' \in Nat, made <= made', pushing => made' = made
  PROVE  PortAscends(b)'
<1>1. /\ Stored' = Stored /\ PortAvailable' = PortAvailable /\ pushing' = pushing
      /\ \A j \in Nat : PortAt(j)' = PortAt(j)
  BY DEF Stored, PortAvailable, PortAt, portVars
<1>2. /\ Stored \in Nat /\ PortAvailable \in Nat /\ Fetched \in Nat /\ made \in Nat
      /\ \A j \in Nat : PortAt(j) \in Nat
  BY StationTypes, SamplesAreNumbers
<1>3. b <= made'
  BY <1>2 DEF PortAscends
<1>4. \A j \in Fetched .. Stored - 1 : b < PortAt(j)'
  BY <1>1, <1>2 DEF PortAscends
<1>5. \A j, k \in Fetched .. Stored - 1 : j < k => PortAt(j)' < PortAt(k)'
  BY <1>1, <1>2 DEF PortAscends
<1>6. ASSUME NEW j \in Fetched .. PortAvailable - 1 PROVE PortAt(j)' <= made'
  <2>1. j \in Nat /\ PortAt(j) \in Nat /\ PortAt(j) <= made /\ PortAt(j)' = PortAt(j)
    BY <1>1, <1>2 DEF PortAscends
  <2> QED BY <1>2, <2>1
<1>7. pushing' => PortAt(PortAvailable)' = made' + 1
  BY <1>1, <1>2 DEF PortAscends
<1> QED BY <1>1, <1>3, <1>4, <1>5, <1>6, <1>7 DEF PortAscends

(* The callback reads *)

LEMMA ReadStartsAt ==
  ASSUME TypeInv, RoomInv, NEW c, CallbackAt(c), CallbackLoad, ~torn'
  PROVE  CallbackAt(c)'
<1>1. /\ c = 0 /\ callback' = "copy" /\ cb_pos' = ring_read
      /\ cb_left' = Least(CallbackLen, Used(ring_write, ring_read))
      /\ UNCHANGED <<ring_write, ring_read, gui>> /\ (gui = "resetWrite" => ring_write = 0)
  BY DEF CallbackLoad, CallbackAt, ringVars
<1>2. Held' = Held /\ ring_read' = ring_read
  BY <1>1 DEF Held
<1>3. /\ Held \in Nat /\ ring_read \in RingSlot /\ ring_write \in RingSlot
      /\ CallbackLen \in Nat
  BY StationTypes, ConstantsAssumption
<1>4. Held = Used(ring_write, ring_read)
  <2>1. CASE gui = "resetWrite"
    BY <1>1, <2>1 DEF Held, RoomInv, Used
  <2>2. CASE gui # "resetWrite"
    BY <2>2 DEF Held
  <2> QED BY <2>1, <2>2
<1>5. cb_left' \in Nat /\ cb_left' <= Held
  BY <1>1, <1>3, <1>4, LeastRange
<1>6. (ring_read + 0) % RingCap = ring_read
  BY <1>3, RingSlotAtReader
<1> QED BY <1>1, <1>2, <1>3, <1>5, <1>6 DEF CallbackAt

\* Each sample it gives to SDL is later than the one before.
LEMMA ReadAdvances ==
  ASSUME TypeInv, NEW c \in RingSlot, NEW a \in Sample,
         CallbackAt(c), RingAscends(c, a), CallbackCopy
  PROVE  /\ c + 1 \in RingSlot /\ CallbackAt(c + 1)' /\ RingAscends(c + 1, a)'
         /\ played < played'
<1>0. /\ Held \in 0 .. RingCap - 1 /\ Written \in Nat /\ Filled = Held + Written
      /\ ring_read \in RingSlot /\ RingCap \in Nat \ {0, 1} /\ c \in 0 .. RingCap - 1
      /\ \A i \in Nat : RingAt(i) \in Nat
      /\ a \in Nat /\ cb_left \in Nat
  <2>1. cb_left \in Nat
    BY ConstantsAssumption DEF TypeInv, TypeOK
  <2>2. c \in 0 .. RingCap - 1
    BY DEF RingSlot
  <2> QED BY <2>1, <2>2, StationTypes, SamplesAreNumbers
<1>1. /\ callback' = "copy" /\ cb_left > 0 /\ played' = ring_buf[cb_pos]
      /\ cb_pos' = (cb_pos + 1) % RingCap /\ cb_left' = cb_left - 1
      /\ UNCHANGED <<ring_buf, ring_write, ring_read, emu, want, gui>>
  BY DEF CallbackCopy, emuVars, ringVars
<1>2. cb_pos = (ring_read + c) % RingCap /\ c + cb_left <= Held
  BY DEF CallbackAt, CallbackCopy
<1>3. played' = RingAt(c)
  BY <1>1, <1>2 DEF RingAt
<1>4. /\ Held' = Held /\ Filled' = Filled /\ ring_read' = ring_read
      /\ \A i \in Nat : RingAt(i)' = RingAt(i)
  BY <1>1 DEF Held, Filled, Written, RingAt
<1>5. c + 1 <= Held /\ c + 1 \in RingSlot
  BY <1>0, <1>1, <1>2 DEF RingSlot
<1>6. cb_pos' = (ring_read + (c + 1)) % RingCap
  <2> DEFINE x == ring_read + c
  <2>1. x \in Int /\ 1 \in Int /\ x + 1 = ring_read + (c + 1)
    BY <1>0 DEF RingSlot
  <2>2. ((x % RingCap) + 1) % RingCap = (x + 1) % RingCap
    <3> HIDE DEF x
    <3> QED BY <1>0, <2>1, ModAdd, Zenon
  <2> HIDE DEF x
  <2>3. cb_pos = x % RingCap
    BY <1>2 DEF x
  <2> QED BY <1>1, <2>1, <2>2, <2>3
<1>7. CallbackAt(c + 1)'
  BY <1>0, <1>1, <1>2, <1>4, <1>5, <1>6 DEF CallbackAt
<1>8. c \in 0 .. Filled - 1 /\ c \in c .. Filled - 1
  BY <1>0, <1>5
<1>9. played < RingAt(c) /\ RingAt(c) <= a
  BY <1>8 DEF RingAscends
<1>10. \A i \in c + 1 .. Filled - 1 : RingAt(c) < RingAt(i)
  BY <1>0, <1>8 DEF RingAscends
<1>11. RingAscends(c + 1, a)'
  <2>1. \A i \in 0 .. Filled - 1 : RingAt(i)' <= a
    BY <1>4 DEF RingAscends
  <2>2. \A i, j \in 0 .. Filled - 1 : i < j => RingAt(i)' < RingAt(j)'
    BY <1>4 DEF RingAscends
  <2>3. \A i \in c + 1 .. Filled - 1 : played' < RingAt(i)'
    BY <1>0, <1>3, <1>4, <1>10
  <2> QED BY <1>3, <1>4, <1>9, <2>1, <2>2, <2>3 DEF RingAscends
<1> QED BY <1>3, <1>5, <1>7, <1>9, <1>11

LEMMA ReadIsPublished ==
  ASSUME TypeInv, NEW c \in RingSlot, NEW a \in Sample,
         CallbackAt(c), RingAscends(c, a), CallbackStore
  PROVE  CallbackAt(0)' /\ RingAscends(0, a)' /\ Held' <= Held
<1>0. /\ Held \in 0 .. RingCap - 1 /\ Written \in Nat /\ Filled = Held + Written
      /\ ring_read \in RingSlot /\ ring_write \in RingSlot /\ RingCap \in Nat \ {0, 1}
      /\ c \in 0 .. RingCap - 1 /\ c \in Nat /\ c <= Held
      /\ \A i \in Nat : RingAt(i) \in Nat
      /\ a \in Nat
  <2>1. c \in 0 .. RingCap - 1 /\ c \in 0 .. Held
    BY DEF RingSlot, CallbackAt
  <2> QED BY <2>1, StationTypes, SamplesAreNumbers
<1>1. /\ callback' = "idle" /\ cb_left = 0 /\ cb_left' = 0 /\ ring_read' = cb_pos
      /\ UNCHANGED <<ring_buf, ring_write, cb_pos, emu, want, played, gui>>
  BY DEF CallbackStore, emuVars
<1>2. cb_pos = (ring_read + c) % RingCap
  BY DEF CallbackAt, CallbackStore
<1>3. Held' = Held - c /\ ring_read' \in RingSlot
  <2>1. Held' = Held - c
    <3>1. CASE gui # "resetWrite"
      <4>0. Held = Used(ring_write, ring_read)
        BY <3>1 DEF Held
      <4>1. Held' = Used(ring_write, (ring_read + c) % RingCap)
        BY <1>1, <1>2, <3>1 DEF Held
      <4>2. c \in 0 .. Used(ring_write, ring_read)
        <5>1. c \in 0 .. Held
          BY DEF CallbackAt
        <5> QED BY <4>0, <5>1, Zenon
      <4>3. Used(ring_write, (ring_read + c) % RingCap) = Used(ring_write, ring_read) - c
        <5>1. ring_write \in RingSlot /\ ring_read \in RingSlot
          BY <1>0
        <5> QED BY <4>2, <5>1, UsedAfterRead, Zenon
      <4> QED BY <4>0, <4>1, <4>3, Zenon
    <3>2. CASE gui = "resetWrite"
      <4>1. Held = 0 /\ Held' = 0
        BY <1>1, <3>2 DEF Held
      <4>2. c = 0
        BY <1>0, <4>1
      <4> QED BY <4>1, <4>2
    <3> QED BY <3>1, <3>2
  <2>2. (ring_read + c) % RingCap \in RingSlot
    BY <1>0, RingSlotAhead
  <2> QED BY <1>1, <1>2, <2>1, <2>2
<1>4. Filled' = Filled - c
  BY <1>0, <1>1, <1>3 DEF Filled, Written
<1>5. ASSUME NEW i \in Nat PROVE RingAt(i)' = RingAt(i + c)
  <2> DEFINE x == ring_read + c
  <2>1. x \in Int /\ x + i = ring_read + (i + c) /\ i \in Int
    BY <1>0 DEF RingSlot
  <2>2. ((x % RingCap) + i) % RingCap = (x + i) % RingCap
    <3> HIDE DEF x
    <3> QED BY <1>0, <2>1, ModAdd, Zenon
  <2> HIDE DEF x
  <2>3. ring_read' = x % RingCap
    BY <1>1, <1>2 DEF x
  <2>4. (ring_read' + i) % RingCap = (ring_read + (i + c)) % RingCap
    BY <2>1, <2>2, <2>3
  <2> QED BY <1>1, <2>4 DEF RingAt
<1>6. (ring_read' + 0) % RingCap = ring_read'
  BY <1>3, RingSlotAtReader
<1>7. CallbackAt(0)'
  BY <1>0, <1>1, <1>3, <1>6 DEF CallbackAt
<1>8. ASSUME NEW i \in 0 .. Filled' - 1
      PROVE  i \in Nat /\ i + c \in 0 .. Filled - 1 /\ i + c \in c .. Filled - 1
               /\ RingAt(i)' = RingAt(i + c)
  BY <1>0, <1>4, <1>5
<1>9. \A i \in 0 .. Filled' - 1 : RingAt(i)' <= a /\ played < RingAt(i)'
  BY <1>8 DEF RingAscends
<1>10. ASSUME NEW i \in 0 .. Filled' - 1, NEW j \in 0 .. Filled' - 1, i < j
       PROVE  RingAt(i)' < RingAt(j)'
  <2>1. i + c < j + c
    BY <1>0, <1>8, <1>10
  <2>2. RingAt(i + c) < RingAt(j + c)
    BY <1>8, <2>1 DEF RingAscends
  <2> QED BY <1>8, <2>2
<1>11. RingAscends(0, a)'
  BY <1>1, <1>9, <1>10 DEF RingAscends
<1> QED BY <1>0, <1>3, <1>7, <1>11

(* write() into the output ring *)

\* What does not fit is dropped from the end.
LEMMA WriteFindsRoom ==
  ASSUME TypeInv, gui = "running", NEW a, NEW b, GotAscends(a, b), RingWriteLoad
  PROVE  /\ GotAscends(a, b)' /\ Written' = Written /\ want' = 0
         /\ Len(got') \in Nat /\ Held + Len(got') <= RingCap - 1
<1> DEFINE n == Least(Len(got), Room(ring_write, ring_read))
<1>1. /\ emu = "ring" /\ emu' = "copy" /\ want' = 0 /\ got' = SubSeq(got, 1, n)
  BY DEF RingWriteLoad
<1>2. /\ got \in Seq(Sample) /\ Len(got) \in Nat /\ Held \in 0 .. RingCap - 1
      /\ ring_write \in RingSlot /\ ring_read \in RingSlot /\ RingCap \in Nat
  BY StationTypes
<1>3. Room(ring_write, ring_read) \in Nat /\ Room(ring_write, ring_read) = RingCap - 1 - Held
  BY <1>2, RoomRange DEF Room, Held
<1>4. n \in Nat /\ n <= Len(got) /\ n <= RingCap - 1 - Held
  BY <1>2, <1>3, LeastRange
<1> HIDE DEF n
<1>5. got' \in Seq(Sample) /\ Len(got') = n /\ \A k \in 1 .. n : got'[k] = got[k]
  BY <1>1, <1>2, <1>4
<1>6. Written = 0 /\ Written' = 0
  BY <1>1 DEF Written
<1>7. \A k \in Written' + 1 .. Len(got') :
        k \in Written + 1 .. Len(got) /\ got'[k] = got[k]
  BY <1>2, <1>4, <1>5, <1>6
<1>8. GotAscends(a, b)'
  BY <1>7 DEF GotAscends
<1> QED BY <1>1, <1>2, <1>4, <1>5, <1>6, <1>8

\* A sample copied behind the others is later than all of them.
LEMMA WriteAppends ==
  ASSUME TypeInv, RoomInv, NEW c \in RingSlot, NEW a \in Sample, NEW b \in Sample,
         NEW d \in Sample, d = got[want + 1], gui = "running",
         CallbackAt(c), RingAscends(c, a), GotAscends(a, b), RingWriteCopy
  PROVE  RingAscends(c, d)' /\ GotAscends(d, b)' /\ Held' = Held
<1>0. /\ Held \in 0 .. RingCap - 1 /\ ring_write \in RingSlot /\ ring_read \in RingSlot
      /\ RingCap \in Nat \ {0, 1} /\ Len(got) \in Nat
      /\ a \in Nat /\ b \in Nat /\ d \in Nat /\ played \in Nat
  BY StationTypes, SamplesAreNumbers
<1>1. /\ emu = "copy" /\ emu' = "copy" /\ want < Len(got) /\ want' = want + 1
      /\ ring_buf' = [ring_buf EXCEPT ![(ring_write + want) % RingCap] = d]
      /\ UNCHANGED <<got, ring_write, ring_read, played, gui>>
  BY DEF RingWriteCopy, cbVars
<1>2. want \in Nat /\ Held + Len(got) <= RingCap - 1
  BY <1>0, <1>1 DEF TypeInv, TypeOK, RoomInv
<1>c. c \in Nat /\ c <= Held
  BY <1>0 DEF CallbackAt
(* the slot it takes: number f from the reader on *)
<1>f. PICK f \in Nat : f = Filled
  BY StationTypes
<1>3. f = Held + want /\ f < RingCap - 1 /\ Filled' = f + 1 /\ c <= f
  <2>1. Written = want /\ Written' = want + 1 /\ Held' = Held
    BY <1>1 DEF Written, Held
  <2>2. f = Held + want /\ Filled' = Held + (want + 1)
    BY <1>f, <2>1 DEF Filled
  <2> QED BY <1>0, <1>1, <1>2, <1>c, <2>2
<1>w. Written = want /\ Written' = want + 1 /\ Held' = Held
  BY <1>1 DEF Written, Held
<1>4. (ring_write + want) % RingCap = (ring_read + f) % RingCap
  <2>1. Used(ring_write, ring_read) + want <= RingCap - 1
    BY <1>0, <1>1, <1>2 DEF Held
  <2>2. (ring_write + want) % RingCap
          = (ring_read + (Used(ring_write, ring_read) + want)) % RingCap
    BY <1>0, <1>2, <2>1, RingWriterSlot
  <2> QED BY <1>3, <2>2 DEF Held
<1>5. RingAt(f)' = d /\ \A i \in 0 .. f - 1 : RingAt(i)' = RingAt(i)
  <2> DEFINE s(i) == (ring_read + i) % RingCap
  <2>1. ASSUME NEW i \in 0 .. RingCap - 1
        PROVE  s(i) \in RingSlot /\ s(i) = IF ring_read + i >= RingCap
                                           THEN ring_read + i - RingCap ELSE ring_read + i
    BY <1>0, RingSlotAhead
  <2>2. ring_read \in 0 .. RingCap - 1 /\ f \in 0 .. RingCap - 1
    BY <1>0, <1>3 DEF RingSlot
  <2>3. ring_buf' = [ring_buf EXCEPT ![s(f)] = d]
    BY <1>1, <1>4
  <2>4. \A i : RingAt(i) = ring_buf[s(i)] /\ RingAt(i)' = ring_buf'[s(i)]
    BY <1>1 DEF RingAt
  <2>5. DOMAIN ring_buf = RingSlot
    BY DEF TypeInv, TypeOK
  <2> HIDE DEF s
  <2>6. s(f) \in RingSlot
    BY <2>1, <2>2
  <2>7. RingAt(f)' = d
    BY <2>3, <2>4, <2>5, <2>6
  <2>8. ASSUME NEW i \in 0 .. f - 1 PROVE RingAt(i)' = RingAt(i)
    <3>1. i \in 0 .. RingCap - 1 /\ i < f
      BY <1>0, <2>2
    <3>2. s(i) \in RingSlot /\ s(i) # s(f)
      <4> DEFINE x == s(i)
      <4> DEFINE y == s(f)
      <4>1. x \in RingSlot /\ x = IF ring_read + i >= RingCap
                               THEN ring_read + i - RingCap ELSE ring_read + i
        BY <2>1, <3>1
      <4>2. y = IF ring_read + f >= RingCap THEN ring_read + f - RingCap ELSE ring_read + f
        BY <2>1, <2>2
      <4> HIDE DEF x, y
      <4>3. x # y
        BY <1>0, <2>2, <3>1, <4>1, <4>2
      <4> QED BY <4>1, <4>3 DEF x, y
    <3> QED BY <2>3, <2>4, <2>5, <3>2
  <2> QED BY <2>7, <2>8
(* the sample it takes *)
<1>6. want + 1 \in Written + 1 .. Len(got)
  BY <1>0, <1>1, <1>2, <1>w
<1>7. a < d /\ d <= b
  BY <1>6 DEF GotAscends
<1>8. ASSUME NEW k \in want + 2 .. Len(got) PROVE d < got[k]
  <2>1. k \in Written + 1 .. Len(got) /\ want + 1 < k
    BY <1>0, <1>2, <1>w
  <2> QED BY <1>6, <2>1 DEF GotAscends
<1>9. GotAscends(d, b)'
  <2>1. ASSUME NEW k \in Written' + 1 .. Len(got')
        PROVE  k \in Written + 1 .. Len(got) /\ k \in want + 2 .. Len(got)
                 /\ got'[k] = got[k]
    BY <1>0, <1>1, <1>2, <1>w
  <2>2. \A k \in Written' + 1 .. Len(got') : d < got'[k] /\ got'[k] <= b
    BY <1>8, <2>1 DEF GotAscends
  <2>3. \A k, l \in Written' + 1 .. Len(got') : k < l => got'[k] < got'[l]
    BY <2>1 DEF GotAscends
  <2> QED BY <1>7, <2>2, <2>3 DEF GotAscends
(* all that was there is less *)
<1>10. ASSUME NEW i \in 0 .. f - 1 PROVE RingAt(i)' \in Nat /\ RingAt(i)' < d
  <2>1. i \in Nat /\ RingAt(i) <= a
    BY <1>f DEF RingAscends
  <2>2. RingAt(i) \in Nat /\ RingAt(i)' = RingAt(i)
    BY <1>5, <2>1, SamplesAreNumbers
  <2> QED BY <1>0, <1>7, <2>1, <2>2
<1>11. played' = played /\ played < d
  <2>1. played <= a
    BY DEF RingAscends
  <2> QED BY <1>0, <1>1, <1>7, <2>1
<1>12. ASSUME NEW i \in 0 .. Filled' - 1 PROVE i = f \/ i \in 0 .. f - 1
  BY <1>3
<1>13. ASSUME NEW i \in 0 .. Filled' - 1 PROVE RingAt(i)' <= d
  <2>1. CASE i = f
    BY <1>0, <1>5, <2>1
  <2>2. CASE i \in 0 .. f - 1
    BY <1>0, <1>10, <2>2
  <2> QED BY <1>12, <2>1, <2>2
<1>14. ASSUME NEW i \in c .. Filled' - 1 PROVE played' < RingAt(i)'
  <2>1. CASE i = f
    BY <1>5, <1>11, <2>1
  <2>2. CASE i # f
    <3>1. i \in c .. f - 1 /\ i \in 0 .. f - 1
      BY <1>c, <1>3, <2>2
    <3>2. played < RingAt(i)
      BY <1>f, <3>1 DEF RingAscends
    <3> QED BY <1>5, <1>11, <3>1, <3>2
  <2> QED BY <2>1, <2>2
<1>15. ASSUME NEW i \in 0 .. Filled' - 1, NEW j \in 0 .. Filled' - 1, i < j
       PROVE  RingAt(i)' < RingAt(j)'
  <2>1. i \in 0 .. f - 1
    BY <1>3, <1>15
  <2>2. CASE j = f
    BY <1>5, <1>10, <2>1, <2>2
  <2>3. CASE j \in 0 .. f - 1
    <3>1. RingAt(i) < RingAt(j)
      BY <1>f, <1>15, <2>1, <2>3 DEF RingAscends
    <3> QED BY <1>5, <2>1, <2>3, <3>1
  <2> QED BY <1>12, <2>2, <2>3
<1>16. played' <= d
  BY <1>0, <1>11
<1>17. RingAscends(c, d)'
  BY <1>13, <1>14, <1>15, <1>16 DEF RingAscends
<1> QED BY <1>w, <1>9, <1>17

\* Publishing changes nothing in the samples.
LEMMA WriteIsPublished ==
  ASSUME TypeInv, RoomInv, NEW c \in RingSlot, NEW a \in Sample, NEW b \in Sample,
         gui = "running", CallbackAt(c), RingAscends(c, a), GotAscends(a, b), RingWriteStore
  PROVE  CallbackAt(c)' /\ RingAscends(c, a)' /\ GotAscends(a, b)'
<1>0. /\ Held \in 0 .. RingCap - 1 /\ ring_write \in RingSlot /\ ring_read \in RingSlot
      /\ Len(got) \in Nat /\ RingCap \in Nat
  BY StationTypes
<1>1. /\ emu = "copy" /\ emu' = "idle" /\ want = Len(got) /\ got' = <<>>
      /\ ring_write' = (ring_write + Len(got)) % RingCap
      /\ UNCHANGED <<ring_buf, ring_read, callback, cb_pos, cb_left, played, gui>>
  BY DEF RingWriteStore, cbVars
<1>2. Held + Len(got) <= RingCap - 1
  BY <1>1 DEF RoomInv
<1>3. Held' = Held + Len(got)
  <2>1. Used((ring_write + Len(got)) % RingCap, ring_read)
          = Used(ring_write, ring_read) + Len(got)
    BY <1>0, <1>2, UsedAfterWrite DEF Held
  <2> QED BY <1>1, <2>1 DEF Held
<1>4. Filled' = Filled /\ Written' = 0
  BY <1>0, <1>1, <1>3 DEF Filled, Written
<1>5. \A i \in Nat : RingAt(i)' = RingAt(i)
  BY <1>1 DEF RingAt
<1>6. RingAscends(c, a)'
  <2>1. c \in Nat /\ Filled \in Nat
    BY <1>0, StationTypes DEF CallbackAt
  <2>2. \A i \in 0 .. Filled - 1 : RingAt(i)' <= a
    BY <1>5, <2>1 DEF RingAscends
  <2>3. \A i \in c .. Filled - 1 : played < RingAt(i)'
    BY <1>5, <2>1 DEF RingAscends
  <2>4. \A i, j \in 0 .. Filled - 1 : i < j => RingAt(i)' < RingAt(j)'
    BY <1>5, <2>1 DEF RingAscends
  <2> QED BY <1>1, <1>4, <2>2, <2>3, <2>4 DEF RingAscends
<1>7. CallbackAt(c)'
  <2>1. c \in Nat /\ cb_left \in Nat /\ c <= Held /\ c + cb_left <= Held
    BY <1>0, ConstantsAssumption DEF CallbackAt, TypeInv, TypeOK
  <2>2. c \in 0 .. Held' /\ c + cb_left <= Held'
    BY <1>0, <1>3, <2>1
  <2> QED BY <1>1, <2>2 DEF CallbackAt
<1>8. GotAscends(a, b)'
  <2>1. Len(got') = 0 /\ \A k \in Written' + 1 .. Len(got') : FALSE
    BY <1>1, <1>4
  <2> QED BY <2>1 DEF GotAscends
<1> QED BY <1>6, <1>7, <1>8

(* The port ring *)

\* The sample being pushed goes behind those that wait, and onto none of them.
LEMMA PushAppends ==
  ASSUME TypeInv, PortAvailable < PortCap, NEW b \in Sample, PortAscends(b), PushStore
  PROVE  PortAscends(b)'
<1>0. /\ PortAvailable \in 0 .. Word - 1 /\ Fetched \in Nat /\ made \in Nat /\ b \in Nat
      /\ port_write \in 0 .. Word - 1 /\ port_read \in 0 .. Word - 1
      /\ PortCap \in Nat \ {0} /\ Word \in Nat \ {0}
  BY StationTypes, SamplesAreNumbers
<1>1. /\ ~pushing /\ pushing' = TRUE /\ made' = made
      /\ port_buf' = [port_buf EXCEPT ![port_write % PortCap] = made + 1]
      /\ UNCHANGED <<port_write, port_read, emu, got>>
  BY DEF PushStore, chipVars, emuVars
<1>f. PICK f \in Nat : f = PortAvailable
  BY <1>0
<1>2. /\ PortAvailable' = f /\ Stored = f /\ Stored' = f + 1 /\ Fetched' = Fetched
      /\ f + 1 <= PortCap
  <2>1. PortAvailable' = f
    BY <1>1, <1>f DEF PortAvailable
  <2>2. Stored = f /\ Stored' = f + 1 /\ Fetched' = Fetched
    BY <1>1, <1>f, <2>1 DEF Stored, Fetched
  <2>3. f < PortCap
    BY <1>f
  <2> QED BY <1>0, <2>1, <2>2, <2>3
<1>3. port_write % PortCap = (port_read + f) % PortCap
  <2>1. f = Distance(port_write, port_read)
    BY <1>f DEF PortAvailable, Distance
  <2> QED BY <1>0, <2>1, PortWriterSlot
<1>4. PortAt(f)' = made + 1 /\ \A j \in 0 .. f - 1 : PortAt(j)' = PortAt(j)
  <2> DEFINE s(j) == (port_read + j) % PortCap
  <2>1. \A j \in Nat : s(j) \in PortSlot
    BY <1>0 DEF PortSlot
  <2>2. ASSUME NEW j \in 0 .. f - 1 PROVE j \in Nat /\ s(j) # s(f)
    <3> DEFINE x == port_read + f
    <3> DEFINE y == port_read + j
    <3>1. x \in Nat /\ y \in Nat /\ y < x /\ x - y < PortCap
      BY <1>0, <1>2
    <3>2. x % PortCap # y % PortCap
      <4> HIDE DEF x, y
      <4> QED BY <1>0, <3>1, ModApart
    <3> QED BY <3>2
  <2>3. port_buf' = [port_buf EXCEPT ![s(f)] = made + 1] /\ DOMAIN port_buf = PortSlot
    BY <1>1, <1>3 DEF TypeInv, TypeOK
  <2>4. \A j : PortAt(j) = port_buf[s(j)] /\ PortAt(j)' = port_buf'[s(j)]
    BY <1>1 DEF PortAt
  <2> HIDE DEF s
  <2>5. PortAt(f)' = made + 1
    BY <2>1, <2>3, <2>4
  <2>6. ASSUME NEW j \in 0 .. f - 1 PROVE PortAt(j)' = PortAt(j)
    BY <2>1, <2>2, <2>3, <2>4
  <2> QED BY <2>5, <2>6
<1>5. ASSUME NEW j \in 0 .. f - 1, j >= Fetched
      PROVE  /\ PortAt(j)' = PortAt(j) /\ PortAt(j)' \in Nat
             /\ b < PortAt(j)' /\ PortAt(j)' <= made
  <2>1. j \in Fetched .. Stored - 1 /\ j \in Fetched .. PortAvailable - 1 /\ j \in Nat
    BY <1>0, <1>f, <1>2, <1>5
  <2>2. b < PortAt(j) /\ PortAt(j) <= made
    BY <2>1 DEF PortAscends
  <2> QED BY <1>4, <2>1, <2>2, SamplesAreNumbers
<1>6. b <= made
  BY DEF PortAscends
<1>7. ASSUME NEW j \in Fetched' .. Stored' - 1
      PROVE  j >= Fetched /\ (j = f \/ j \in 0 .. f - 1)
  BY <1>0, <1>2
<1>8. ASSUME NEW j \in Fetched' .. Stored' - 1 PROVE b < PortAt(j)'
  <2>1. CASE j = f
    BY <1>0, <1>4, <1>6, <2>1
  <2>2. CASE j # f
    BY <1>5, <1>7, <2>2
  <2> QED BY <2>1, <2>2
<1>9. ASSUME NEW j \in Fetched' .. Stored' - 1, NEW k \in Fetched' .. Stored' - 1, j < k
      PROVE  PortAt(j)' < PortAt(k)'
  <2>1. j \in 0 .. f - 1 /\ j >= Fetched
    BY <1>0, <1>2, <1>9
  <2>2. CASE k = f
    BY <1>0, <1>4, <1>5, <2>1, <2>2
  <2>3. CASE k \in 0 .. f - 1
    <3>1. j \in Fetched .. Stored - 1 /\ k \in Fetched .. Stored - 1
      BY <1>0, <1>2, <1>7, <2>1, <2>3
    <3>2. PortAt(j) < PortAt(k)
      BY <1>9, <3>1 DEF PortAscends
    <3> QED BY <1>4, <2>1, <2>3, <3>2
  <2> QED BY <1>7, <2>2, <2>3
<1>10. ASSUME NEW j \in Fetched' .. PortAvailable' - 1 PROVE PortAt(j)' <= made'
  <2>1. j \in 0 .. f - 1 /\ j >= Fetched
    BY <1>0, <1>2
  <2> QED BY <1>1, <1>5, <2>1
<1>11. PortAt(PortAvailable)' = made' + 1
  <2>1. PortAt(PortAvailable)' = port_buf'[(port_read' + PortAvailable') % PortCap]
          /\ PortAt(f)' = port_buf'[(port_read' + f) % PortCap]
    BY DEF PortAt
  <2> QED BY <1>1, <1>2, <1>4, <2>1
<1>12. b <= made'
  BY <1>1, <1>6
<1> QED BY <1>8, <1>9, <1>10, <1>11, <1>12 DEF PortAscends

LEMMA PushIsPublished ==
  ASSUME TypeInv, PortAvailable + 1 < Word, NEW b \in Sample, PortAscends(b), PushPublish
  PROVE  PortAscends(b)'
<1>0. /\ PortAvailable \in 0 .. Word - 1 /\ Fetched \in Nat /\ made \in Nat /\ b \in Nat
      /\ port_write \in 0 .. Word - 1 /\ port_read \in 0 .. Word - 1
  BY StationTypes, SamplesAreNumbers
<1>1. /\ pushing /\ pushing' = FALSE /\ made' = made + 1 /\ port_write' = NextWrite
      /\ UNCHANGED <<port_buf, port_read, emu, got>>
  BY DEF PushPublish, emuVars
<1>f. PICK f \in Nat : f = PortAvailable
  BY <1>0
<1>2. /\ PortAvailable' = f + 1 /\ Stored = f + 1 /\ Stored' = f + 1 /\ Fetched' = Fetched
  <2>1. PortAvailable' = f + 1
    BY <1>0, <1>1, <1>f, DistanceAfterPush DEF PortAvailable, NextWrite, Distance
  <2> QED BY <1>1, <1>f, <2>1 DEF Stored, Fetched
<1>3. \A j \in Nat : PortAt(j)' = PortAt(j)
  BY <1>1 DEF PortAt
<1>4. PortAt(f) = made + 1
  BY <1>1, <1>f DEF PortAscends
<1>5. ASSUME NEW j \in Fetched .. f PROVE j \in Nat /\ PortAt(j)' <= made + 1
  <2>0. j \in Nat /\ PortAt(j)' = PortAt(j) /\ PortAt(j) \in Nat
    <3>1. j \in Nat
      BY <1>0
    <3>2. PortAt(j) \in Nat
      BY <3>1, SamplesAreNumbers
    <3> QED BY <1>3, <3>1, <3>2
  <2>1. CASE j = f
    BY <1>0, <1>4, <2>0, <2>1
  <2>2. CASE j # f
    <3>1. j \in Fetched .. PortAvailable - 1
      BY <1>0, <1>f, <2>0, <2>2
    <3>2. PortAt(j) <= made
      BY <3>1 DEF PortAscends
    <3> QED BY <1>0, <2>0, <3>2
  <2> QED BY <2>1, <2>2
<1>6. b <= made'
  <2>1. b <= made
    BY DEF PortAscends
  <2> QED BY <1>0, <1>1, <2>1
<1>7. ASSUME NEW j \in Fetched' .. Stored' - 1
      PROVE  j \in Fetched .. Stored - 1 /\ PortAt(j)' = PortAt(j)
  BY <1>0, <1>2, <1>3
<1>8. \A j \in Fetched' .. Stored' - 1 : b < PortAt(j)'
  BY <1>7 DEF PortAscends
<1>9. \A j, k \in Fetched' .. Stored' - 1 : j < k => PortAt(j)' < PortAt(k)'
  BY <1>7 DEF PortAscends
<1>10. ASSUME NEW j \in Fetched' .. PortAvailable' - 1 PROVE PortAt(j)' <= made'
  <2>1. j \in Fetched .. f
    BY <1>0, <1>2
  <2> QED BY <1>1, <1>5, <2>1
<1> QED BY <1>1, <1>6, <1>8, <1>9, <1>10 DEF PortAscends

\* The sample pop() copies is later than all that have gone and earlier than the rest.
LEMMA PopAppends ==
  ASSUME TypeInv, Taken <= PortAvailable, NEW a \in Sample, NEW b \in Sample,
         NEW d \in Sample, d = PortAt(Len(got)),
         GotAscends(a, b), PortAscends(b), PopCopy
  PROVE  GotAscends(a, d)' /\ PortAscends(d)'
<1>0. /\ PortAvailable \in Nat /\ Stored \in Nat /\ PortAvailable <= Stored /\ made \in Nat
      /\ a \in Nat /\ b \in Nat /\ d \in Nat /\ got \in Seq(Sample) /\ want \in Nat
  <2>1. PortAvailable \in Nat /\ made \in Nat /\ got \in Seq(Sample) /\ Stored \in Nat
    BY StationTypes
  <2>2. PortAvailable <= Stored
    BY <2>1 DEF Stored
  <2>3. want \in Nat
    BY DEF TypeInv, TypeOK
  <2> QED BY <2>1, <2>2, <2>3, SamplesAreNumbers
<1>1. /\ emu = "fetch" /\ emu' = "fetch" /\ want > 0
      /\ got' = Append(got, port_buf[(port_read + Len(got)) % PortCap])
      /\ UNCHANGED <<made, portVars>>
  BY DEF PopCopy, chipVars
<1>f. PICK f \in Nat : f = Len(got)
  BY <1>0
<1>2. /\ got' = Append(got, d) /\ Fetched = f /\ Fetched' = f + 1 /\ Len(got') = f + 1
      /\ Written = 0 /\ Written' = 0
  BY <1>0, <1>1, <1>f DEF PortAt, Fetched, Written
<1>3. f + 1 <= PortAvailable
  BY <1>0, <1>1, <1>f DEF Taken
<1>4. /\ PortAvailable' = PortAvailable /\ Stored' = Stored /\ pushing' = pushing
      /\ made' = made /\ \A j \in Nat : PortAt(j)' = PortAt(j)
  BY <1>1 DEF PortAvailable, Stored, PortAt, portVars
<1>5. f \in Fetched .. Stored - 1 /\ f \in Fetched .. PortAvailable - 1 /\ PortAt(f) = d
  BY <1>0, <1>f, <1>2, <1>3
<1>6. b < d /\ d <= made
  BY <1>5 DEF PortAscends
<1>7. a < d
  <2>1. a <= b
    BY DEF GotAscends
  <2> QED BY <1>0, <1>6, <2>1
<1>8. ASSUME NEW k \in 1 .. f PROVE got'[k] = got[k] /\ got[k] \in Nat /\ a < got[k] /\ got[k] <= b
  <2>1. k \in Written + 1 .. Len(got)
    BY <1>f, <1>2
  <2>2. a < got[k] /\ got[k] <= b
    BY <2>1 DEF GotAscends
  <2>3. got'[k] = got[k] /\ got[k] \in Nat
    BY <1>0, <1>f, <1>2, SamplesAreNumbers
  <2> QED BY <2>2, <2>3
<1>9. got'[f + 1] = d
  BY <1>0, <1>f, <1>2
<1>10. GotAscends(a, d)'
  <2>1. ASSUME NEW k \in Written' + 1 .. Len(got') PROVE k = f + 1 \/ k \in 1 .. f
    BY <1>2
  <2>2. ASSUME NEW k \in Written' + 1 .. Len(got') PROVE a < got'[k] /\ got'[k] <= d
    <3>1. CASE k = f + 1
      BY <1>0, <1>7, <1>9, <3>1
    <3>2. CASE k \in 1 .. f
      BY <1>0, <1>6, <1>8, <3>2
    <3> QED BY <2>1, <3>1, <3>2
  <2>3. ASSUME NEW k \in Written' + 1 .. Len(got'), NEW l \in Written' + 1 .. Len(got'), k < l
        PROVE  got'[k] < got'[l]
    <3>1. k \in 1 .. f
      BY <1>2, <2>3
    <3>2. CASE l = f + 1
      BY <1>0, <1>6, <1>8, <1>9, <3>1, <3>2
    <3>3. CASE l \in 1 .. f
      <4>1. k \in Written + 1 .. Len(got) /\ l \in Written + 1 .. Len(got)
        BY <1>f, <1>2, <3>1, <3>3
      <4>2. got[k] < got[l]
        BY <2>3, <4>1 DEF GotAscends
      <4> QED BY <1>8, <3>1, <3>3, <4>2
    <3> QED BY <2>1, <3>2, <3>3
  <2>4. a <= d
    BY <1>0, <1>7
  <2> QED BY <2>2, <2>3, <2>4 DEF GotAscends
<1>11. ASSUME NEW j \in Fetched' .. Stored' - 1
       PROVE  /\ j \in Nat /\ j \in Fetched .. Stored - 1 /\ f < j
              /\ PortAt(j)' = PortAt(j)
  BY <1>2, <1>4
<1>12. ASSUME NEW j \in Fetched' .. Stored' - 1 PROVE d < PortAt(j)'
  <2>1. PortAt(f) < PortAt(j)
    BY <1>5, <1>11 DEF PortAscends
  <2> QED BY <1>5, <1>11, <2>1
<1>13. \A j, k \in Fetched' .. Stored' - 1 : j < k => PortAt(j)' < PortAt(k)'
  BY <1>11 DEF PortAscends
<1>14. ASSUME NEW j \in Fetched' .. PortAvailable' - 1 PROVE PortAt(j)' <= made'
  <2>1. j \in Nat /\ j \in Fetched .. PortAvailable - 1
    BY <1>2, <1>4
  <2> QED BY <1>4, <2>1 DEF PortAscends
<1>15. pushing' => PortAt(PortAvailable)' = made' + 1
  <2>1. PortAt(PortAvailable)' = PortAt(PortAvailable)
    BY <1>1, <1>4 DEF PortAt, portVars
  <2> QED BY <1>4, <2>1 DEF PortAscends
<1>16. d <= made'
  BY <1>4, <1>6
<1> QED BY <1>10, <1>12, <1>13, <1>14, <1>15, <1>16 DEF PortAscends

\* When pop() publishes its index the slots count from behind what it has taken.
LEMMA PopIsPublished ==
  ASSUME TypeInv, Taken <= PortAvailable, NEW b \in Sample, PortAscends(b), PopStore
  PROVE  PortAscends(b)'
<1>0. /\ PortAvailable \in 0 .. Word - 1 /\ Stored \in Nat /\ made \in Nat /\ b \in Nat
      /\ port_write \in 0 .. Word - 1 /\ port_read \in 0 .. Word - 1 /\ Len(got) \in Nat
      /\ port_read \in Nat
  <2>1. /\ PortAvailable \in 0 .. Word - 1 /\ Stored \in Nat /\ made \in Nat /\ b \in Nat
        /\ port_write \in 0 .. Word - 1 /\ port_read \in 0 .. Word - 1 /\ Len(got) \in Nat
        /\ Word \in Nat
    BY StationTypes, SamplesAreNumbers
  <2> QED BY <2>1
<1>1. /\ emu = "fetch" /\ want = 0 /\ emu' \in {"idle", "ring"}
      /\ port_read' = (port_read + Len(got)) % Word
      /\ UNCHANGED <<made, port_buf, port_write, pushing>>
  BY DEF PopStore, chipVars
<1>f. PICK f \in Nat : f = Len(got)
  BY <1>0
<1>2. f <= PortAvailable /\ Fetched = f /\ Fetched' = 0 /\ f \in Nat
  BY <1>0, <1>1, <1>f DEF Taken, Fetched
<1>3. PortAvailable' = PortAvailable - f
  <2>1. f \in 0 .. Distance(port_write, port_read)
    BY <1>0, <1>2 DEF PortAvailable, Distance
  <2>2. Distance(port_write, (port_read + f) % Word) = Distance(port_write, port_read) - f
    BY <1>0, <2>1, DistanceAfterPop
  <2> QED BY <1>1, <1>f, <2>2 DEF PortAvailable, Distance
<1>4. Stored' = Stored - f
  BY <1>0, <1>1, <1>2, <1>3 DEF Stored
<1>5. ASSUME NEW j \in Nat PROVE PortAt(j)' = PortAt(f + j)
  <2>1. (port_read' + j) % PortCap = (port_read + (f + j)) % PortCap
    <3>1. (((port_read + f) % Word) + j) % PortCap = (port_read + (f + j)) % PortCap
      <4>1. port_read \in Nat /\ f \in Nat /\ j \in Nat
        BY <1>0
      <4>2. \A r, n, i \in Nat :
              (((r + n) % Word) + i) % PortCap = (r + (n + i)) % PortCap
        BY PortSlotAfterPop
      <4> QED BY <4>1, <4>2, Zenon
    <3>2. port_read' = (port_read + f) % Word
      BY <1>1, <1>f
    <3> QED BY <3>1, <3>2
  <2> QED BY <1>1, <2>1 DEF PortAt
<1>6. b <= made'
  BY <1>1 DEF PortAscends
<1>7. ASSUME NEW j \in Fetched' .. Stored' - 1
      PROVE  f + j \in Fetched .. Stored - 1 /\ PortAt(j)' = PortAt(f + j)
  BY <1>0, <1>2, <1>4, <1>5
<1>8. \A j \in Fetched' .. Stored' - 1 : b < PortAt(j)'
  BY <1>7 DEF PortAscends
<1>9. ASSUME NEW j \in Fetched' .. Stored' - 1, NEW k \in Fetched' .. Stored' - 1, j < k
      PROVE  PortAt(j)' < PortAt(k)'
  <2>1. f + j < f + k
    BY <1>0, <1>2, <1>4, <1>9
  <2>2. PortAt(f + j) < PortAt(f + k)
    BY <1>7, <2>1 DEF PortAscends
  <2> QED BY <1>7, <2>2
<1>10. ASSUME NEW j \in Fetched' .. PortAvailable' - 1 PROVE PortAt(j)' <= made'
  <2>1. j \in Nat /\ f + j \in Fetched .. PortAvailable - 1
    BY <1>0, <1>2, <1>3
  <2>2. PortAt(f + j) <= made
    BY <2>1 DEF PortAscends
  <2> QED BY <1>1, <1>5, <2>1, <2>2
<1>11. pushing' => PortAt(PortAvailable)' = made' + 1
  <2>1. PICK g \in Nat : g = PortAvailable'
    BY <1>0, <1>2, <1>3
  <2>2. f + g = PortAvailable
    BY <1>0, <1>2, <1>3, <2>1
  <2>3. PortAt(PortAvailable)' = PortAt(g)'
    BY <2>1 DEF PortAt
  <2>4. PortAt(g)' = PortAt(f + g) /\ PortAt(f + g) = PortAt(PortAvailable)
    BY <1>5, <2>1, <2>2
  <2> QED BY <1>1, <2>3, <2>4 DEF PortAscends
<1> QED BY <1>6, <1>8, <1>9, <1>10, <1>11 DEF PortAscends

(* All of it together *)

LEMMA OrderInit == Init => OrderInv
<1> SUFFICES ASSUME Init PROVE OrderInv
  OBVIOUS
<1>1. RingCap \in Nat \ {0, 1} /\ 0 \in RingSlot /\ 0 \in Sample /\ Word \in Nat \ {0}
  BY ConstantsAssumption, WordIsPositive DEF RingSlot, Sample
<1>2. /\ Held = 0 /\ Written = 0 /\ Filled = 0 /\ Fetched = 0 /\ Stored = 0
      /\ PortAvailable = 0 /\ (ring_read + 0) % RingCap = 0
  BY <1>1 DEF Init, Held, Written, Filled, Fetched, Stored, PortAvailable, Used
<1>3. CallbackAt(0)
  BY <1>2 DEF Init, CallbackAt
<1>4. RingAscends(0, 0)
  BY <1>2 DEF Init, RingAscends
<1>5. GotAscends(0, 0)
  BY <1>2 DEF Init, GotAscends
<1>6. PortAscends(0)
  BY <1>2 DEF Init, PortAscends
<1>7. RoomInv
  BY DEF Init, RoomInv
<1> QED BY <1>1, <1>3, <1>4, <1>5, <1>6, <1>7 DEF OrderInv, InOrder

\* What has happened has happened.
LEMMA HistoryStays == [Next]_vars => (lapped => lapped') /\ (torn => torn')
<1> SUFFICES ASSUME [Next]_vars PROVE (lapped => lapped') /\ (torn => torn')
  OBVIOUS
<1>1. CASE UNCHANGED <<lapped, torn>>
  BY <1>1
<1>2. CASE lapped' = (lapped \/ PortAvailable >= PortCap) /\ torn' = torn
  BY <1>2
<1>3. CASE lapped' = lapped /\ \E d \in BOOLEAN : torn' = (torn \/ d)
  BY <1>3
<1>4. CASE UNCHANGED vars \/ UNCHANGED history \/ RunFrame \/ PopLoad
  BY <1>1, <1>4 DEF RunFrame, PopLoad, vars, history
<1>5. CASE PushStore
  BY <1>2, <1>5 DEF PushStore
<1>6. CASE CallbackLoad
  BY <1>3, <1>6 DEF CallbackLoad
<1>7. CASE ResetRead
  BY <1>3, <1>7 DEF ResetRead
<1> QED
  BY <1>4, <1>5, <1>6, <1>7
  DEF Next, Synthesize, DriveSuppressed, PushPublish, EmuNext, EmuBegin, EndBatch, PopCopy,
      PopStore, RingWriteLoad, RingWriteCopy, RingWriteStore, CallbackNext, CallbackCopy,
      CallbackStore, GuiNext, StartEmuThread, ResetWrite, StopEmuThread

\* The chip, the emulation thread up to the ring, and the GUI leave the callback and
\* the output ring alone; the rest leaves the port ring alone.
LEMMA OrderNext ==
  TypeInv /\ TypeInv' /\ OverrunInv /\ OrderInv /\ [Next]_vars => OrderInv'
<1> SUFFICES ASSUME TypeInv, TypeInv', OverrunInv, OrderInv, [Next]_vars, ~lapped', ~torn'
             PROVE  InOrder'
  BY DEF OrderInv
<1>h. ~lapped /\ ~torn
  BY HistoryStays
<1>r. RoomInv /\ Owed
  BY <1>h DEF OrderInv, InOrder, OverrunInv
<1>p. PICK c \in RingSlot, a \in Sample, b \in Sample :
        CallbackAt(c) /\ RingAscends(c, a) /\ GotAscends(a, b) /\ PortAscends(b)
  BY <1>h DEF OrderInv, InOrder
<1>o. \A x \in RingSlot, y, z \in Sample :
        RoomInv' /\ CallbackAt(x)' /\ RingAscends(x, y)' /\ GotAscends(y, z)' /\ PortAscends(z)'
          => InOrder'
  BY DEF InOrder
<1>t. /\ made \in Nat /\ made' \in Nat /\ a \in Nat /\ b \in Nat /\ 0 \in RingSlot
      /\ Len(got) \in Nat /\ want \in Nat /\ Held \in Nat /\ RingCap \in Nat
      /\ emu \in {"off", "idle", "batch", "samples", "fetch", "ring", "copy"}
  <2>1. 0 \in RingSlot
    BY ConstantsAssumption DEF RingSlot
  <2>2. made \in Nat /\ made' \in Nat
    BY ConstantsAssumption DEF TypeInv, TypeOK, Sample
  <2>3. want \in Nat /\ emu \in {"off", "idle", "batch", "samples", "fetch", "ring", "copy"}
    BY DEF TypeInv, TypeOK
  <2> QED BY <2>1, <2>2, <2>3, StationTypes, SamplesAreNumbers
<1>1. ASSUME UNCHANGED <<ringVars, cbVars, gui>>, Written' = Written
      PROVE  CallbackAt(c)' /\ RingAscends(c, a)'
  <2>1. UNCHANGED <<ring_buf, ring_write, ring_read, callback, cb_pos, cb_left, played, gui>>
    BY <1>1 DEF ringVars, cbVars
  <2>2. Held' = Held
    BY <2>1 DEF Held
  <2> QED BY <1>1, <1>p, <2>1, <2>2, CallbackSame, RingSame
<1>2. ASSUME UNCHANGED portVars, Fetched' = Fetched, made <= made', pushing => made' = made
      PROVE  PortAscends(b)'
  BY <1>2, <1>p, <1>t, PortSame
<1>3. ASSUME UNCHANGED <<ringVars, gui>>, emu' # "copy", emu' = emu \/ got = <<>> \/ got' = got,
             emu' \notin {"fetch", "ring", "copy"} => got' = <<>>
      PROVE  RoomInv'
  BY <1>3, <1>r DEF RoomInv, ringVars
(* the chip *)
<1>4. ASSUME UNCHANGED <<emuVars, ringVars, cbVars, gui>>
      PROVE  /\ CallbackAt(c)' /\ RingAscends(c, a)' /\ GotAscends(a, b)'
             /\ Fetched' = Fetched /\ RoomInv'
  <2>1. Written' = Written /\ Fetched' = Fetched /\ got' = got /\ Held' = Held
    BY <1>4 DEF Written, Fetched, Held, emuVars, ringVars
  <2>2. RoomInv'
    BY <1>4, <1>r, <2>1 DEF RoomInv, emuVars, ringVars
  <2> QED BY <1>1, <1>4, <1>p, <2>1, <2>2, GotSame
<1>5. CASE DriveSuppressed
  <2>1. /\ ~pushing /\ made' = made + 1 /\ gui' = gui
        /\ UNCHANGED <<portVars, emuVars, ringVars, cbVars>>
    BY <1>5 DEF DriveSuppressed
  <2>2. PortAscends(b)'
    BY <1>2, <1>4, <1>t, <2>1
  <2> QED BY <1>4, <1>o, <1>p, <2>1, <2>2
<1>6. CASE PushStore
  <2>1. UNCHANGED <<emuVars, ringVars, cbVars, gui>>
    BY <1>6 DEF PushStore
  <2>2. PortAvailable < PortCap
    <3>1. PortAvailable \in Nat /\ PortCap \in Nat /\ ~(PortAvailable >= PortCap)
      BY <1>6, OverrunTypes DEF PushStore
    <3> QED BY <3>1
  <2>3. PortAscends(b)'
    BY <1>6, <1>p, <2>2, PushAppends
  <2> QED BY <1>4, <1>o, <1>p, <2>1, <2>3
<1>7. CASE PushPublish
  <2>1. pushing /\ UNCHANGED <<emuVars, ringVars, cbVars, gui>>
    BY <1>7 DEF PushPublish
  <2>2. PortAvailable + 1 < Word
    <3>1. PortAvailable + 1 <= PortCap
      BY <1>r, <2>1 DEF Owed, Stored
    <3>2. PortAvailable \in Nat /\ PortCap \in Nat /\ Word \in Nat /\ 2 * PortCap < Word
      BY OverrunTypes, WordIsPositive
    <3> QED BY <3>1, <3>2
  <2>3. PortAscends(b)'
    BY <1>7, <1>p, <2>2, PushIsPublished
  <2> QED BY <1>4, <1>o, <1>p, <2>1, <2>3
(* the emulation thread, up to the port ring *)
<1>8. CASE EmuBegin \/ RunFrame \/ EndBatch \/ PopLoad
  <2>1. /\ emu \in {"idle", "batch", "samples"} /\ emu' \in {"idle", "batch", "samples", "fetch"}
        /\ made' = made /\ UNCHANGED <<portVars, ringVars, cbVars, gui>>
        /\ (got' = got \/ got' = <<>>)
    BY <1>8 DEF EmuBegin, RunFrame, EndBatch, PopLoad, chipVars
  <2>2. got = <<>> /\ got' = <<>> /\ Len(got) = 0
    BY <1>r, <2>1 DEF RoomInv
  <2>3. Written' = Written /\ Fetched = 0 /\ Fetched' = 0
    BY <2>1, <2>2 DEF Written, Fetched
  <2>4. CallbackAt(c)' /\ RingAscends(c, a)'
    BY <1>1, <2>1, <2>3
  <2>5. PortAscends(b)'
    BY <1>2, <1>t, <2>1, <2>3
  <2>6. GotAscends(a, b)'
    BY <1>p, <2>2, <2>3, GotSame
  <2>7. RoomInv'
    BY <1>3, <2>1, <2>2
  <2> QED BY <1>o, <1>p, <2>4, <2>5, <2>6, <2>7
<1>9. ASSUME emu = "fetch" PROVE Taken <= PortAvailable
  BY <1>9, <1>r DEF Owed
<1>10. CASE PopCopy
  <2>1. /\ emu = "fetch" /\ emu' = "fetch" /\ UNCHANGED <<ringVars, cbVars, gui>>
    BY <1>10 DEF PopCopy
  <2>2. PICK d \in Sample : d = PortAt(Len(got))
    BY <1>t, StationTypes
  <2>3. GotAscends(a, d)' /\ PortAscends(d)'
    BY <1>9, <1>10, <1>p, <2>1, <2>2, PopAppends
  <2>4. CallbackAt(c)' /\ RingAscends(c, a)'
    BY <1>1, <2>1 DEF Written
  <2>5. RoomInv'
    BY <1>3, <2>1
  <2> QED BY <1>o, <1>p, <2>2, <2>3, <2>4, <2>5
<1>11. CASE PopStore
  <2>1. /\ emu = "fetch" /\ emu' = (IF got = <<>> THEN "idle" ELSE "ring") /\ got' = got
        /\ UNCHANGED <<ringVars, cbVars, gui>>
    BY <1>11 DEF PopStore
  <2>2. Written' = Written
    BY <2>1 DEF Written
  <2>3. PortAscends(b)'
    BY <1>9, <1>11, <1>p, <2>1, PopIsPublished
  <2>4. CallbackAt(c)' /\ RingAscends(c, a)'
    BY <1>1, <2>1, <2>2
  <2>5. GotAscends(a, b)'
    BY <1>p, <2>1, <2>2, GotSame
  <2>6. RoomInv'
    BY <1>3, <2>1
  <2> QED BY <1>o, <1>p, <2>3, <2>4, <2>5, <2>6
(* the emulation thread, into the output ring *)
<1>12. ASSUME emu \in {"ring", "copy"}, emu' \in {"copy", "idle"}, UNCHANGED <<portVars, made>>
       PROVE  PortAscends(b)'
  <2>1. Fetched' = Fetched
    BY <1>12 DEF Fetched
  <2> QED BY <1>2, <1>12, <1>t, <2>1
<1>13. emu \in {"ring", "copy"} => gui = "running"
  BY DEF OverrunInv
<1>14. CASE RingWriteLoad
  <2>1. /\ emu = "ring" /\ emu' = "copy" /\ UNCHANGED <<portVars, made, ringVars, cbVars, gui>>
    BY <1>14 DEF RingWriteLoad, chipVars
  <2>2. /\ GotAscends(a, b)' /\ Written' = Written /\ want' = 0
        /\ Len(got') \in Nat /\ Held + Len(got') <= RingCap - 1
    BY <1>13, <1>14, <1>p, <2>1, WriteFindsRoom
  <2>3. CallbackAt(c)' /\ RingAscends(c, a)'
    BY <1>1, <2>1, <2>2
  <2>4. PortAscends(b)'
    BY <1>12, <2>1
  <2>5. RoomInv'
    <3>1. Held' = Held
      BY <2>1 DEF Held, ringVars
    <3>2. want' <= Len(got')
      BY <2>2
    <3> QED BY <1>13, <2>1, <2>2, <3>1, <3>2 DEF RoomInv
  <2> QED BY <1>o, <1>p, <2>2, <2>3, <2>4, <2>5
<1>15. CASE RingWriteCopy
  <2>1. /\ emu = "copy" /\ emu' = "copy" /\ want < Len(got) /\ want' = want + 1 /\ got' = got
        /\ UNCHANGED <<portVars, made, ring_write, ring_read, cbVars, gui>>
    BY <1>15 DEF RingWriteCopy, chipVars
  <2>2. PICK d \in Sample : d = got[want + 1]
    <3>1. want + 1 \in 1 .. Len(got)
      BY <1>t, <2>1
    <3> QED BY <3>1, StationTypes
  <2>3. RingAscends(c, d)' /\ GotAscends(d, b)' /\ Held' = Held
    BY <1>13, <1>15, <1>p, <1>r, <2>1, <2>2, WriteAppends
  <2>4. CallbackAt(c)'
    <3>1. UNCHANGED <<ring_read, callback, cb_pos, cb_left>>
      BY <2>1 DEF cbVars
    <3> QED BY <1>p, <2>3, <3>1, CallbackSame
  <2>5. PortAscends(b)'
    BY <1>12, <2>1
  <2>6. RoomInv'
    <3>1. want' <= Len(got') /\ Held' + Len(got') <= RingCap - 1
      BY <1>r, <1>t, <2>1, <2>3 DEF RoomInv
    <3> QED BY <1>13, <2>1, <3>1 DEF RoomInv
  <2> QED BY <1>o, <1>p, <2>2, <2>3, <2>4, <2>5, <2>6
<1>16. CASE RingWriteStore
  <2>1. /\ emu = "copy" /\ emu' = "idle" /\ got' = <<>> /\ UNCHANGED <<portVars, made, gui>>
    BY <1>16 DEF RingWriteStore, chipVars
  <2>2. CallbackAt(c)' /\ RingAscends(c, a)' /\ GotAscends(a, b)'
    BY <1>13, <1>16, <1>p, <1>r, <2>1, WriteIsPublished
  <2>3. PortAscends(b)'
    BY <1>12, <2>1
  <2>4. RoomInv'
    BY <1>13, <2>1 DEF RoomInv
  <2> QED BY <1>o, <1>p, <2>2, <2>3, <2>4
(* the callback *)
<1>17. ASSUME UNCHANGED <<chipVars, portVars, emuVars>>
       PROVE  GotAscends(a, b)' /\ PortAscends(b)' /\ emu' = emu /\ got' = got /\ want' = want
  <2>1. /\ made' = made /\ emu' = emu /\ got' = got /\ want' = want
        /\ Written' = Written /\ Fetched' = Fetched
    BY <1>17 DEF Written, Fetched, chipVars, emuVars
  <2> QED BY <1>2, <1>17, <1>p, <1>t, <2>1, GotSame
<1>18. CASE CallbackLoad
  <2>1. UNCHANGED <<chipVars, portVars, emuVars, ringVars, played, gui>>
    BY <1>18 DEF CallbackLoad
  <2>2. CallbackAt(c)'
    BY <1>18, <1>p, <1>r, ReadStartsAt
  <2>3. RingAscends(c, a)' /\ RoomInv'
    <3>1. Written' = Written /\ Held' = Held
      BY <2>1 DEF Written, Held, emuVars, ringVars
    <3>2. RoomInv'
      BY <1>r, <2>1, <3>1 DEF RoomInv, emuVars, ringVars
    <3>3. UNCHANGED <<ring_buf, ring_read, played>>
      BY <2>1 DEF ringVars
    <3> QED BY <1>p, <3>1, <3>2, <3>3, RingSame
  <2> QED BY <1>17, <1>o, <1>p, <2>1, <2>2, <2>3
<1>19. CASE CallbackCopy
  <2>1. UNCHANGED <<chipVars, portVars, emuVars, ringVars, gui>>
    BY <1>19 DEF CallbackCopy
  <2>2. c + 1 \in RingSlot /\ CallbackAt(c + 1)' /\ RingAscends(c + 1, a)'
    BY <1>19, <1>p, ReadAdvances
  <2>3. RoomInv'
    <3>1. Held' = Held
      BY <2>1 DEF Held, ringVars
    <3> QED BY <1>r, <2>1, <3>1 DEF RoomInv, emuVars, ringVars
  <2>4. PICK e \in RingSlot : e = c + 1
    BY <2>2
  <2>5. CallbackAt(e)' /\ RingAscends(e, a)'
    BY <2>2, <2>4
  <2> QED BY <1>17, <1>o, <1>p, <2>1, <2>3, <2>4, <2>5
<1>20. CASE CallbackStore
  <2>1. UNCHANGED <<chipVars, portVars, emuVars, ring_write, gui>>
    BY <1>20 DEF CallbackStore
  <2>2. CallbackAt(0)' /\ RingAscends(0, a)' /\ Held' <= Held
    BY <1>20, <1>p, ReadIsPublished
  <2>3. GotAscends(a, b)' /\ PortAscends(b)' /\ emu' = emu /\ got' = got /\ want' = want
    BY <1>17, <2>1
  <2>4. RoomInv'
    <3>1. emu' = "copy" => want' <= Len(got') /\ Held' + Len(got') <= RingCap - 1
      <4>1. Held' \in Nat
        <5>1. ring_write' \in RingSlot /\ ring_read' \in RingSlot
          BY DEF TypeInv, TypeOK
        <5>2. \A w, r \in RingSlot : Used(w, r) \in Nat
          BY ConstantsAssumption, UsedIsDistance
        <5> QED BY <5>1, <5>2 DEF Held
      <4> QED BY <1>r, <1>t, <2>2, <2>3, <4>1 DEF RoomInv
    <3>2. emu' \notin {"fetch", "ring", "copy"} => got' = <<>>
      BY <1>r, <2>3 DEF RoomInv
    <3>3. gui = "resetWrite" => ring_read' = 0
      <4> SUFFICES ASSUME gui = "resetWrite" PROVE ring_read' = 0
        OBVIOUS
      <4>1. ring_read = 0 /\ Held = 0
        BY <1>r DEF RoomInv, Held
      <4>2. c = 0
        BY <1>p, <4>1 DEF CallbackAt
      <4>3. cb_pos = 0
        BY <1>p, <1>t, <1>20, <4>1, <4>2, RingSlotAtReader DEF CallbackAt, CallbackStore
      <4> QED BY <1>20, <4>3 DEF CallbackStore
    <3> QED BY <2>1, <3>1, <3>2, <3>3 DEF RoomInv
  <2> QED BY <1>o, <1>p, <1>t, <2>2, <2>3, <2>4
(* start and stop *)
<1>21. CASE GuiNext
  <2>1. /\ UNCHANGED <<chipVars, portVars, cbVars, ring_buf, got, want>>
        /\ emu \in {"off", "idle"} /\ emu' \in {"off", "idle"}
    BY <1>21 DEF GuiNext, StartEmuThread, ResetRead, ResetWrite, StopEmuThread, emuVars,
       ringVars, OverrunInv
  <2>2. /\ made' = made /\ got = <<>> /\ Written = 0 /\ Written' = 0
        /\ Fetched = 0 /\ Fetched' = 0
    BY <1>r, <2>1 DEF chipVars, Written, Fetched, RoomInv
  <2>3. GotAscends(a, b)' /\ PortAscends(b)'
    BY <1>2, <1>p, <1>t, <2>1, <2>2, GotSame
  <2>4. ASSUME UNCHANGED <<ring_write, ring_read>>, gui # "resetWrite", gui' # "resetWrite"
        PROVE  InOrder'
    <3>1. Held' = Held /\ UNCHANGED <<callback, cb_pos, cb_left, played, ring_buf>>
      BY <2>1, <2>4 DEF Held, cbVars
    <3>2. CallbackAt(c)' /\ RingAscends(c, a)'
      BY <1>p, <2>2, <2>4, <3>1, CallbackSame, RingSame
    <3>3. RoomInv'
      BY <2>1, <2>2, <2>4 DEF RoomInv
    <3> QED BY <1>o, <1>p, <2>3, <3>2, <3>3
  <2>5. ASSUME Held' = 0, ring_read' = 0,
               callback = "copy" => cb_pos = 0 /\ cb_left = 0
        PROVE  InOrder'
    <3>1. /\ Filled' = 0 /\ played' = played /\ callback' = callback
          /\ cb_pos' = cb_pos /\ cb_left' = cb_left
      BY <2>1, <2>2, <2>5 DEF Filled, cbVars
    <3>2. RingAscends(0, a)'
      BY <1>p, <3>1 DEF RingAscends
    <3>3. callback \in {"idle", "copy"}
      BY DEF TypeInv, TypeOK
    <3>4. CallbackAt(0)'
      BY <1>p, <1>t, <2>5, <3>1, <3>3, RingSlotAtReader DEF CallbackAt
    <3>5. RoomInv'
      BY <2>1, <2>2, <2>5 DEF RoomInv
    <3> QED BY <1>o, <1>p, <1>t, <2>3, <3>2, <3>4, <3>5
  <2>6. CASE StartEmuThread
    BY <2>4, <2>6 DEF StartEmuThread, ringVars
  <2>7. CASE ResetRead
    <3>1. /\ ring_read' = 0 /\ gui' = "resetWrite"
          /\ callback = "copy" => cb_pos = 0 /\ cb_left = 0
      BY <2>7 DEF ResetRead
    <3> QED BY <2>5, <3>1 DEF Held
  <2>8. CASE ResetWrite
    <3>1. gui = "resetWrite" /\ gui' = "running" /\ ring_read' = ring_read /\ ring_write' = 0
      BY <2>8 DEF ResetWrite
    <3>2. ring_read = 0 /\ Held = 0
      BY <1>r, <3>1 DEF RoomInv, Held
    <3>3. c = 0 /\ cb_left = 0
      <4>1. cb_left \in Nat
        BY ConstantsAssumption DEF TypeInv, TypeOK
      <4> QED BY <1>p, <3>2, <4>1 DEF CallbackAt
    <3>4. callback = "copy" => cb_pos = 0
      BY <1>p, <1>t, <3>2, <3>3, RingSlotAtReader DEF CallbackAt
    <3>5. Held' = 0
      BY <3>1, <3>2 DEF Held, Used
    <3> QED BY <2>5, <3>1, <3>2, <3>3, <3>4, <3>5
  <2>9. CASE StopEmuThread
    BY <2>4, <2>9 DEF StopEmuThread, ringVars
  <2> QED BY <1>21, <2>6, <2>7, <2>8, <2>9 DEF GuiNext
<1>22. CASE UNCHANGED vars
  <2>1. UNCHANGED <<chipVars, portVars, emuVars, ringVars, cbVars, gui>>
    BY <1>22 DEF vars
  <2> QED BY <1>4, <1>17, <1>o, <1>p, <2>1
<1> QED
  BY <1>5, <1>6, <1>7, <1>8, <1>10, <1>11, <1>14, <1>15, <1>16, <1>18, <1>19, <1>20, <1>21,
     <1>22
  DEF Next, Synthesize, EmuNext, CallbackNext

\* SDL is given the samples in the order the chip made them, whatever the sizes of the
\* rings, the length of the batches, the machine, the number of restarts and the moment
\* the callback reads at: two lock-free rings and a copy between them repeat nothing and
\* hand out no slot before it is written, until the producer laps the reader or a restart
\* tears the callback's copy.
THEOREM PlayedInOrder == Spec => HeardInOrder
<1> DEFINE Inv == TypeInv /\ OverrunInv /\ OrderInv
<1>1. Init => Inv
  BY InitType, OverrunInit, OrderInit
<1>2. Inv /\ [Next]_vars => TypeInv' /\ OverrunInv'
  BY NextType, OverrunNext
<1>3. TypeInv /\ TypeInv' /\ OverrunInv /\ OrderInv /\ [Next]_vars => OrderInv'
  BY OrderNext
<1>4. ASSUME TypeInv, OrderInv, [Next]_vars, ~lapped, ~torn, played' # played
      PROVE  played' > played
  <2>1. CallbackCopy
    BY <1>4 DEF Next, Synthesize, DriveSuppressed, PushStore, PushPublish, EmuNext, EmuBegin,
       RunFrame, EndBatch, PopLoad, PopCopy, PopStore, RingWriteLoad, RingWriteCopy,
       RingWriteStore, CallbackNext, CallbackLoad, CallbackStore, GuiNext,
       StartEmuThread, ResetRead, ResetWrite, StopEmuThread, vars, cbVars
  <2>2. PICK c \in RingSlot, a \in Sample : CallbackAt(c) /\ RingAscends(c, a)
    BY <1>4 DEF OrderInv, InOrder
  <2>3. played < played'
    BY <1>4, <2>1, <2>2, ReadAdvances
  <2>4. played \in Nat /\ played' \in Nat
    <3>1. played' = ring_buf[cb_pos] /\ cb_pos \in RingSlot
      BY <1>4, <2>1 DEF CallbackCopy, TypeInv, TypeOK
    <3> QED BY <1>4, <3>1, ConstantsAssumption DEF TypeInv, TypeOK, Sample
  <2> QED BY <2>3, <2>4
<1>5. Inv /\ [Next]_vars => [~lapped /\ ~torn /\ played' # played => played' > played]_vars
  BY <1>4
<1> QED BY <1>1, <1>2, <1>3, <1>5, PTL DEF Spec, HeardInOrder
=============================================================================
