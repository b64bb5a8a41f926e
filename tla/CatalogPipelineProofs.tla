------------------------ MODULE CatalogPipelineProofs ------------------------
(***************************************************************************)
(* Theorems about CatalogPipeline, for any files in any containers, any    *)
(* number of probing threads and any changes on the disk.                  *)
(***************************************************************************)
EXTENDS CatalogPipeline, FiniteSetTheorems, SequenceTheorems, TLAPS

-----------------------------------------------------------------------------
(* The inductive invariant *)

PhaseOf(w) == CASE w = "none" -> "Idle" [] w = "discover" -> "Discovery"
                [] w = "probe" -> "Probing" [] w = "group" -> "Grouping"
                [] OTHER -> "Done"
Handling == {"check", "read", "fingerprint", "store", "count"}
Scanned == worker \notin {"none", "discover"}       \* the discovery is over
Uncut   == worker = "group" \/ (Scanned /\ ~cancel)  \* no quitting cut the probing short

\* Where the scan is says what its threads and its totals are; a program that
\* does not run has no scan.
ControlInv ==
  /\ Alive \/ worker = "none"
  /\ phase = PhaseOf(worker)
  /\ \A w \in Workers : worker = "probe" <=> pc[w] # "idle"
  /\ \A w \in Workers : item[w] # NoItem <=> pc[w] \in Handling
  /\ ~Scanned => next_idx = 1 /\ files_probed = 0
  /\ Scanned => files_total = Total

Resting == {w \in Workers : pc[w] = "done"}
HandedOut == IF next_idx > Total THEN Total ELSE next_idx - 1

\* What was handed out is counted or held, and no thread rests before all is.
PoolInv ==
  /\ \A w \in Held : item[w] < next_idx
  /\ \A v, w \in Held : item[v] = item[w] => v = w
  /\ files_probed + Cardinality(Held) <= Total
  /\ Uncut => files_probed + Cardinality(Held) = HandedOut
  /\ worker = "probe" => next_idx <= Total + 1 + Cardinality(Resting)
  /\ Uncut /\ (worker = "probe" => Resting # {}) => next_idx > Total

\* Version x of container c, or one before it, bears the time m.
Past(c, m, x) == x <= Len(disk[c]) /\ \E v \in 1 .. x : disk[c][v] = m

\* What a time says of a container, and of what was read of it: the time could not be
\* had, or the data, or they go back to a version that bears the time.
Timed(c, m)   == m = NoTime \/ Past(c, m, Len(disk[c]))
Told(c, m, x) == m = NoTime \/ x = Unread \/ Past(c, m, x)

\* A file is discovered in its container, with a time that it had.
DiscoveredInv ==
  /\ \A i \in DOMAIN discovered :
       /\ \E k \in 1 .. iter - 1 : HomeOf(discovered[i].file) = Containers[k]
       /\ Timed(HomeOf(discovered[i].file), discovered[i].mtime)
  /\ \A i, j \in DOMAIN discovered :
       discovered[i].file = discovered[j].file => discovered[i].mtime = discovered[j].mtime

Handled(i) == i < next_idx /\ \A w \in Workers : item[w] = i => pc[w] = "count"

\* What has been handled and not refused is in the table, as the discovery saw it.
HandledInv ==
  Uncut /\ worker \in {"probe", "group"} =>
    \A i \in DOMAIN discovered :
      Handled(i) => \/ discovered[i].file \in unwritten
                    \/ db[discovered[i].file].mtime = discovered[i].mtime

\* What was read of a plain file is no older than the time it goes with: of those
\* that have a row ...
RowsCurrent ==
  \A f \in Rows :
    /\ db[f].mtime # -1
    /\ HomeOf(f) \notin Archives => /\ Told(HomeOf(f), db[f].mtime, db[f].content)
                                   /\ Told(HomeOf(f), db[f].mtime, db[f].fingerprint)

\* ... and of those the threads have in hand.
InHandCurrent(w) ==
  item[w] # NoItem /\ HomeOf(Item(w).file) \notin Archives =>
    /\ pc[w] \in {"fingerprint", "store"} =>
         Told(HomeOf(Item(w).file), Item(w).mtime, data[w].content)
    /\ pc[w] = "store" =>
         Told(HomeOf(Item(w).file), Item(w).mtime, data[w].fingerprint)

\* While they are being numbered and afterwards, the rows with a title have the number
\* of their key among the keys in the table; those without have none.
GroupInv ==
  /\ worker = "group" =>
       grouped \subseteq Titled /\ \A f \in grouped \ unwritten : db[f].group = GroupOf(f)
  /\ phase = "Done" /\ ~cancel => \A f \in Titled \ unwritten : db[f].group = GroupOf(f)
  /\ \A f \in Rows \ Titled : db[f].group = 0

Inv == /\ TypeOK /\ ControlInv /\ PoolInv /\ DiscoveredInv /\ HandledInv
       /\ RowsCurrent /\ (\A w \in Workers : InHandCurrent(w)) /\ GroupInv

-----------------------------------------------------------------------------
(* Containers, versions and cardinalities *)

LEMMA Homes ==
  /\ \A f \in Files : HomeOf(f) \in Container
  /\ \A c \in Container, f \in Files : Holds(c, f) => HomeOf(f) = c
<1>1. ASSUME NEW f \in Files PROVE HomeOf(f) \in Container /\ Holds(HomeOf(f), f)
  <2>1. \E c \in Container : Holds(c, f)
    BY CatalogAssumption
  <2> QED BY <2>1 DEF HomeOf
<1> QED BY <1>1, CatalogAssumption

LEMMA Versions ==
  /\ Version \subseteq Nat /\ Seen \subseteq Int /\ -1 \in Seen
  /\ \A c \in Container : 0 .. MaxVersion[c] \subseteq Version
BY CatalogAssumption DEF Version, Seen

LEMMA TimesOfDay ==
  /\ Time \subseteq Nat /\ NoTime \in Time
  /\ \A c \in Container : Seconds[c] \subseteq Time \ {NoTime}
BY CatalogAssumption DEF Time, NoTime

LEMMA WorkersFinite == /\ IsFiniteSet(Workers) /\ Main \in Workers
                       /\ Cardinality(Workers) \in Nat
<1>1. IsFiniteSet(Workers)
  BY CatalogAssumption, FS_AddElement DEF Workers
<1> QED BY <1>1, FS_CardinalityType DEF Workers

\* A set of threads that gains or loses one is one larger or smaller.
LEMMA OneMore ==
  ASSUME NEW S \in SUBSET Workers, NEW w \in Workers
  PROVE  /\ Cardinality(S) \in Nat /\ Cardinality(S) <= Cardinality(Workers)
         /\ w \notin S => Cardinality(S \cup {w}) = Cardinality(S) + 1
         /\ w \in S => Cardinality(S \ {w}) = Cardinality(S) - 1
<1>1. IsFiniteSet(S) /\ Cardinality(S) <= Cardinality(Workers)
  BY WorkersFinite, FS_Subset
<1> QED BY <1>1, FS_CardinalityType, FS_AddElement, FS_RemoveElement

KeysUpTo(R, f) == {Key[g] : g \in {h \in R : Key[h] <= Key[f]}}

\* The number of a key among the keys of the rows: positive, no greater than the
\* number of files, and greater for a greater key.
LEMMA Ranks ==
  ASSUME NEW R \in SUBSET Files
  PROVE  /\ \A f \in R : Cardinality(KeysUpTo(R, f)) \in 1 .. Cardinality(Files)
         /\ \A f, g \in R : Key[f] = Key[g] <=>
              Cardinality(KeysUpTo(R, f)) = Cardinality(KeysUpTo(R, g))
<1>1. \A f \in Files : Key[f] \in Nat
  BY CatalogAssumption
<1>2. ASSUME NEW f \in R
      PROVE  /\ IsFiniteSet(KeysUpTo(R, f))
             /\ Cardinality(KeysUpTo(R, f)) \in 1 .. Cardinality(Files)
  <2> DEFINE S == {h \in R : Key[h] <= Key[f]}
             T == KeysUpTo(R, f)
             k == [g \in S |-> Key[g]]
  <2>1. IsFiniteSet(S) /\ Cardinality(S) <= Cardinality(Files)
    BY CatalogAssumption, FS_Subset
  <2>2. k \in Surjection(S, T)
    BY DEF Surjection, KeysUpTo
  <2>3. IsFiniteSet(T) /\ Cardinality(T) <= Cardinality(S)
    BY <2>1, <2>2, FS_Surjection
  <2>4. T # {}
    BY <1>1 DEF KeysUpTo
  <2>5. Cardinality(T) \in Nat /\ Cardinality(T) # 0
    BY <2>3, <2>4, FS_CardinalityType, FS_EmptySet
  <2>6. Cardinality(S) \in Nat /\ Cardinality(Files) \in Nat
    BY <2>1, CatalogAssumption, FS_CardinalityType
  <2> HIDE DEF S, T
  <2>7. Cardinality(T) \in 1 .. Cardinality(Files)
    BY <2>1, <2>3, <2>5, <2>6
  <2> QED BY <2>3, <2>7 DEF T
<1>3. ASSUME NEW f \in R, NEW g \in R, Key[f] < Key[g]
      PROVE  Cardinality(KeysUpTo(R, f)) # Cardinality(KeysUpTo(R, g))
  <2>1. KeysUpTo(R, f) \in SUBSET KeysUpTo(R, g)
    BY <1>1, <1>3 DEF KeysUpTo
  <2>2. Key[g] \in KeysUpTo(R, g) /\ Key[g] \notin KeysUpTo(R, f)
    BY <1>1, <1>3 DEF KeysUpTo
  <2> QED BY <1>2, <2>1, <2>2, FS_Subset
<1>4. ASSUME NEW f \in R, NEW g \in R, Key[f] = Key[g]
      PROVE  KeysUpTo(R, f) = KeysUpTo(R, g)
  BY <1>4 DEF KeysUpTo
<1>5. ASSUME NEW f \in R, NEW g \in R
      PROVE  Key[f] = Key[g] <=> Cardinality(KeysUpTo(R, f)) = Cardinality(KeysUpTo(R, g))
  <2>1. Key[f] < Key[g] \/ Key[g] < Key[f] \/ Key[f] = Key[g]
    BY <1>1
  <2>2. CASE Key[f] < Key[g]
    BY <1>1, <1>3, <2>2
  <2>3. CASE Key[g] < Key[f]
    BY <1>1, <1>3, <2>3
  <2>4. CASE Key[f] = Key[g]
    BY <1>4, <2>4
  <2> QED BY <2>1, <2>2, <2>3, <2>4
<1> QED BY <1>2, <1>5

-----------------------------------------------------------------------------
(* Type correctness *)

\* TypeOK in four parts: the disk and what is kept, where the scan is, what it
\* has found and counted, and the threads.
TableType ==
  /\ disk \in [Container -> Seq(Time \ {NoTime})]
  /\ \A c \in Container : Len(disk[c]) <= MaxVersion[c]
  /\ db \in [Files -> EntryType]
  /\ cache \in [path : Archives, raw : Version] \cup {NoArchive}

ScanType ==
  /\ program \in {"running", "quitting", "closed", "terminated"}
  /\ worker \in {"none", "discover", "probe", "group", "finish", "finished"}
  /\ running \in BOOLEAN /\ cancel \in BOOLEAN
  /\ phase \in {"Idle", "Discovery", "Probing", "Grouping", "Done"}
  /\ grouped \subseteq Files /\ unwritten \subseteq Refused

CountType ==
  /\ files_probed \in 0 .. Total /\ files_total \in 0 .. Total
  /\ iter \in 1 .. Len(Containers) + 1
  /\ discovered \in Seq([file : Files, mtime : Time])
  /\ next_idx \in 1 .. Total + Cardinality(Workers) + 1

PoolType ==
  /\ pc \in [Workers -> {"idle", "take", "check", "read", "fingerprint",
                         "store", "count", "done"}]
  /\ item \in [Workers -> 0 .. Total]
  /\ data \in [Workers -> [content : Seen, fingerprint : Seen]]

LEMMA TypeParts ==
  /\ TypeOK <=> TableType /\ ScanType /\ CountType /\ PoolType
  /\ TypeOK' <=> TableType' /\ ScanType' /\ CountType' /\ PoolType'
BY DEF TypeOK, TableType, ScanType, CountType, PoolType

\* A thread that handles a file has one of the discovered ones in hand.
LEMMA Items ==
  ASSUME TypeOK, ControlInv, NEW w \in Workers, pc[w] \in Handling
  PROVE  /\ worker = "probe" /\ w \in Held
         /\ item[w] \in DOMAIN discovered /\ item[w] \in 1 .. Total
         /\ Item(w) \in [file : Files, mtime : Time]
         /\ Item(w) = discovered[item[w]]
         /\ HomeOf(Item(w).file) \in Container
<1>1. worker = "probe" /\ item[w] # NoItem
  BY DEF ControlInv, Handling
<1>2. item[w] \in 1 .. Total /\ Total \in Nat
  BY <1>1 DEF TypeOK, NoItem, Total
<1>3. item[w] \in DOMAIN discovered /\ discovered[item[w]] \in [file : Files, mtime : Time]
  <2>1. discovered \in Seq([file : Files, mtime : Time])
    BY DEF TypeOK
  <2> QED BY <1>2, <2>1, ElementOfSeq, LenProperties DEF Total
<1> QED BY <1>1, <1>2, <1>3, Homes DEF Item, Held

\* A container has as many versions as it has times.
LEMMA Lengths ==
  ASSUME TableType, NEW c \in Container
  PROVE  /\ disk[c] \in Seq(Time \ {NoTime}) /\ Len(disk[c]) \in Nat /\ Len(disk[c]) \in Version
         /\ DOMAIN disk[c] = 1 .. Len(disk[c])
<1>1. disk[c] \in Seq(Time \ {NoTime}) /\ Len(disk[c]) <= MaxVersion[c]
  BY DEF TableType
<1>2. Len(disk[c]) \in Nat /\ DOMAIN disk[c] = 1 .. Len(disk[c])
  BY <1>1, LenProperties
<1>3. Len(disk[c]) \in 0 .. MaxVersion[c]
  BY <1>1, <1>2, CatalogAssumption
<1> QED BY <1>1, <1>2, <1>3, Versions

\* The cache holds an archive as it was at some time, or nothing, and a file is read
\* as it was, if at all; a plain file as it is.
LEMMA ReadingTypes ==
  ASSUME TableType, NEW c \in Container
  PROVE  /\ c \in Archives => Ensured(c) \subseteq [path : Archives, raw : Version] \cup {NoArchive}
         /\ \A x \in Readings(c) :
              /\ x.cache \in [path : Archives, raw : Version] \cup {NoArchive}
              /\ x.found \in Seen
              /\ c \notin Archives => x.found \in {Unread, Len(disk[c])}
<1>1. FileData(c) \subseteq {Unread, Len(disk[c])} /\ FileData(c) \subseteq Version
  <2>1. 0 \in Version
    BY Versions, CatalogAssumption
  <2> QED BY <2>1, Lengths DEF FileData, Unread
<1>2. cache \in [path : Archives, raw : Version] \cup {NoArchive}
  BY DEF TableType
<1>3. c \in Archives => Ensured(c) \subseteq [path : Archives, raw : Version] \cup {NoArchive}
  BY <1>1, <1>2 DEF Ensured
<1>4. Version \subseteq Seen
  BY DEF Seen
<1>5. CASE c \notin Archives
  BY <1>1, <1>2, <1>4, <1>5 DEF Readings
<1>6. CASE c \in Archives
  <2> SUFFICES ASSUME NEW x \in Readings(c)
               PROVE  /\ x.cache \in [path : Archives, raw : Version] \cup {NoArchive}
                      /\ x.found \in Seen
    BY <1>3, <1>6
  <2>1. CASE \E k \in Ensured(c) \ {NoArchive} : x = [cache |-> k, found |-> k.raw]
    <3>1. PICK k \in Ensured(c) \ {NoArchive} : x = [cache |-> k, found |-> k.raw]
      BY <2>1
    <3>2. k \in [path : Archives, raw : Version]
      BY <1>3, <1>6
    <3>3. x.cache = k /\ x.found \in Version
      BY <3>1, <3>2
    <3> QED BY <1>4, <3>2, <3>3
  <2>2. CASE \E k \in Ensured(c), v \in FileData(c) : x = [cache |-> k, found |-> v]
    <3>1. PICK k \in Ensured(c), v \in FileData(c) : x = [cache |-> k, found |-> v]
      BY <2>2
    <3>2. /\ k \in [path : Archives, raw : Version] \cup {NoArchive}
          /\ v \in Version
      BY <1>1, <1>3, <1>6
    <3>3. x.cache = k /\ x.found \in Version
      BY <3>1, <3>2
    <3> QED BY <1>4, <3>2, <3>3
  <2> QED BY <1>6, <2>1, <2>2 DEF Readings
<1> QED BY <1>3, <1>5, <1>6

LEMMA FirstEntries ==
  /\ NoEntry \in EntryType
  /\ \A R \in SUBSET Files : \A f \in R :
       Cardinality(KeysUpTo(R, f)) \in 0 .. Cardinality(Files)
<1>1. Cardinality(Files) \in Nat
  BY CatalogAssumption, FS_CardinalityType
<1>2. NoEntry \in EntryType
  BY <1>1, Versions DEF NoEntry, EntryType
<1>3. ASSUME NEW R \in SUBSET Files, NEW f \in R
      PROVE  Cardinality(KeysUpTo(R, f)) \in 0 .. Cardinality(Files)
  BY <1>1, <1>3, Ranks
<1> QED BY <1>2, <1>3

LEMMA InitTypes == Init => TypeOK
<1> SUFFICES ASSUME Init PROVE TypeOK
  OBVIOUS
<1>1. \A c \in Container : AtFirst[c] \in Seq(Time \ {NoTime}) /\ Len(AtFirst[c]) <= MaxVersion[c]
  <2> SUFFICES ASSUME NEW c \in Container PROVE AtFirst[c] \in Seq(Time \ {NoTime})
    BY CatalogAssumption
  <2>1. AtFirst[c] \in Seq(Seconds[c]) /\ Seconds[c] \subseteq Time \ {NoTime}
    BY CatalogAssumption, TimesOfDay
  <2>2. /\ Len(AtFirst[c]) \in Nat /\ AtFirst[c] \in [1 .. Len(AtFirst[c]) -> Seconds[c]]
    BY <2>1, LenProperties
  <2>3. AtFirst[c] \in [1 .. Len(AtFirst[c]) -> Time \ {NoTime}]
    BY <2>1, <2>2
  <2> QED BY <2>2, <2>3, SeqDef
<1>2. TableType
  BY <1>1, FirstEntries DEF Init, TableType
<1>3. ScanType
  BY DEF Init, ScanType
<1>4. Total = 0 /\ discovered \in Seq([file : Files, mtime : Time])
  BY DEF Init, Total
<1>5. CountType
  BY <1>4, WorkersFinite, CatalogAssumption DEF Init, CountType
<1>6. PoolType
  BY <1>4, Versions DEF Init, PoolType, NoItem, NoData
<1> QED BY <1>2, <1>3, <1>5, <1>6, TypeParts

\* A change adds a version and leaves what was so of the earlier ones.
LEMMA ModifyGrows ==
  ASSUME TableType, NEW c \in Container, Modify(c)
  PROVE  /\ disk' \in [Container -> Seq(Time \ {NoTime})]
         /\ \A d \in Container :
              /\ Len(disk'[d]) <= MaxVersion[d] /\ Len(disk'[d]) \in Nat
              /\ Len(disk[d]) \in Nat /\ Len(disk[d]) <= Len(disk'[d])
              /\ \A v \in 1 .. Len(disk[d]) : disk'[d][v] = disk[d][v]
<1>1. PICK s \in Seconds[c] : disk' = [disk EXCEPT ![c] = Append(disk[c], s)]
  BY DEF Modify
<1>2. s \in Time \ {NoTime}
  BY TimesOfDay
<1>3. disk[c] \in Seq(Time \ {NoTime}) /\ Len(disk[c]) \in Nat /\ Len(disk[c]) < MaxVersion[c]
  BY Lengths DEF Modify
<1>4. /\ Append(disk[c], s) \in Seq(Time \ {NoTime})
      /\ Len(Append(disk[c], s)) = Len(disk[c]) + 1
      /\ \A v \in 1 .. Len(disk[c]) : Append(disk[c], s)[v] = disk[c][v]
  BY <1>2, <1>3, AppendProperties
<1>5. disk \in [Container -> Seq(Time \ {NoTime})] /\ MaxVersion[c] \in Nat
  BY CatalogAssumption DEF TableType
<1>6. disk' \in [Container -> Seq(Time \ {NoTime})]
  BY <1>1, <1>4, <1>5
<1>7. ASSUME NEW d \in Container
      PROVE  /\ Len(disk'[d]) <= MaxVersion[d] /\ Len(disk'[d]) \in Nat
             /\ Len(disk[d]) \in Nat /\ Len(disk[d]) <= Len(disk'[d])
             /\ \A v \in 1 .. Len(disk[d]) : disk'[d][v] = disk[d][v]
  <2>1. CASE d = c
    <3>1. disk'[c] = Append(disk[c], s)
      BY <1>1, <1>5
    <3> QED BY <1>3, <1>4, <1>5, <2>1, <3>1
  <2>2. CASE d # c
    <3>1. disk'[d] = disk[d]
      BY <1>1, <1>5, <2>2
    <3>2. Len(disk[d]) \in Nat /\ Len(disk[d]) <= MaxVersion[d]
      BY Lengths DEF TableType
    <3> QED BY <3>1, <3>2
  <2> QED BY <2>1, <2>2
<1> QED BY <1>6, <1>7

LEMMA TimesStay ==
  ASSUME TableType, NEW c \in Container, Modify(c), NEW d \in Container, NEW m
  PROVE  /\ Timed(d, m) => Timed(d, m)'
         /\ \A x \in Int : Told(d, m, x) => Told(d, m, x)'
<1>1. /\ Len(disk[d]) \in Nat /\ Len(disk'[d]) \in Nat /\ Len(disk[d]) <= Len(disk'[d])
      /\ \A v \in 1 .. Len(disk[d]) : disk'[d][v] = disk[d][v]
  BY ModifyGrows
<1>2. ASSUME NEW x \in Int, x <= Len(disk[d]), NEW y \in Int, x <= y,
             NEW v \in 1 .. x, disk[d][v] = m
      PROVE  x <= Len(disk'[d]) /\ v \in 1 .. y /\ disk'[d][v] = m
  BY <1>1, <1>2
<1>3. ASSUME NEW x \in Int, x <= Len(disk[d]), NEW v \in 1 .. x, disk[d][v] = m
      PROVE  Told(d, m, x)' /\ Timed(d, m)'
  <2>1. x <= Len(disk'[d]) /\ disk'[d][v] = m /\ v \in 1 .. Len(disk'[d])
    BY <1>1, <1>3, <1>2
  <2>2. Len(disk'[d]) <= Len(disk'[d])
    BY <1>1
  <2> QED BY <2>1, <2>2 DEF Told, Timed, Past
<1>4. Timed(d, m) => Timed(d, m)'
  BY <1>1, <1>3 DEF Timed, Past
<1>5. ASSUME NEW x \in Int, Told(d, m, x) PROVE Told(d, m, x)'
  BY <1>3, <1>5 DEF Told, Past
<1> QED BY <1>4, <1>5

LEMMA NextTableType ==
  ASSUME TypeOK, ControlInv, [Next]_vars
  PROVE  TableType'
<1> TableType
  BY TypeParts
<1> USE DEF TableType
<1>1. ASSUME NEW c \in Container, Modify(c) PROVE TableType'
  <2>1. UNCHANGED <<db, cache>>
    BY <1>1 DEF Modify
  <2> QED BY <1>1, <2>1, ModifyGrows
<1>2. ASSUME NEW c \in Container, Browse(c) PROVE TableType'
  BY <1>2, ReadingTypes DEF Browse
<1>3. ASSUME NEW w \in Workers, Read(w) \/ Fingerprint(w) PROVE TableType'
  <2>1. HomeOf(Item(w).file) \in Container
    BY <1>3, Items DEF Read, Fingerprint, Handling
  <2>2. PICK x \in Readings(HomeOf(Item(w).file)) : cache' = x.cache
    BY <1>3 DEF Read, Fingerprint
  <2>3. UNCHANGED <<disk, db>>
    BY <1>3 DEF Read, Fingerprint
  <2> QED BY <2>1, <2>2, <2>3, ReadingTypes
<1>4. ASSUME NEW w \in Workers, Store(w) PROVE TableType'
  <2> DEFINE e == [mtime |-> StoredMtime(w), content |-> data[w].content,
                   fingerprint |-> data[w].fingerprint, group |-> 0]
  <2>1. Item(w).file \in Files /\ Item(w).mtime \in Time
    BY <1>4, Items DEF Store, Handling
  <2>2. data[w].content \in Seen /\ data[w].fingerprint \in Seen
    BY DEF TypeOK
  <2>3. e \in EntryType
    BY <2>1, <2>2, CatalogAssumption, FS_CardinalityType DEF EntryType, StoredMtime
  <2>4. Upsert(Item(w).file, e) /\ UNCHANGED <<disk, cache>>
    BY <1>4 DEF Store
  <2> HIDE DEF e
  <2> QED BY <2>1, <2>3, <2>4 DEF Upsert
<1>5. CASE Group
  <2>1. PICK f \in Titled : Upsert(f, [db[f] EXCEPT !.group = GroupOf(f)])
    BY <1>5 DEF Group
  <2>2. GroupOf(f) = Cardinality(KeysUpTo(Titled, f)) /\ Titled \in SUBSET Files
    BY DEF GroupOf, KeysUpTo, Titled, Rows
  <2>3. GroupOf(f) \in 0 .. Cardinality(Files) /\ f \in Files
    BY <2>2, FirstEntries
  <2>4. [db[f] EXCEPT !.group = GroupOf(f)] \in EntryType
    BY <2>3 DEF EntryType
  <2> QED BY <1>5, <2>1, <2>3, <2>4 DEF Group, Upsert
<1>6. CASE cache' = NoArchive /\ UNCHANGED <<disk, db>>
  BY <1>6
<1>7. CASE UNCHANGED <<disk, db, cache>>
  BY <1>7
<1> QED
  BY <1>1, <1>2, <1>3, <1>4, <1>5, <1>6, <1>7 DEF Next, Pipeline, Probe, FlushCache, Start,
     StartAgain, Quit, QuitJoined, Dies, Forget, Launch, Discover, EndDiscovery, EndProbing,
     EndGrouping, EndPipeline, Take, Check, Count, vars

LEMMA NextScanType ==
  ASSUME TypeOK, [Next]_vars
  PROVE  ScanType'
<1> ScanType
  BY TypeParts
<1> USE DEF ScanType
<1>1. CASE Group
  BY <1>1 DEF Group, Upsert, Titled, Rows, progress
<1>2. CASE Next /\ ~Group
  BY <1>2 DEF Next, Upsert, Pipeline, Probe, Modify, Browse, FlushCache, Start, StartAgain, Quit,
     QuitJoined, Dies, Forget, Launch, Discover, EndDiscovery, EndProbing, EndGrouping,
     EndPipeline, Finish, RunningAtEnd, Take, Check, Read, Fingerprint, Store, Count, progress
<1>3. CASE UNCHANGED vars
  BY <1>3 DEF vars, progress
<1> QED BY <1>1, <1>2, <1>3

\* A directory entry adds files of its container, all with the same time, one it has
\* now or none.
LEMMA Found ==
  ASSUME TypeOK, Discover
  PROVE  /\ Containers[iter] \in Container /\ iter \in 1 .. Len(Containers)
         /\ discovered' \in Seq([file : Files, mtime : Time])
         /\ Total \in Nat /\ Total' \in Nat /\ Total <= Total'
         /\ \A i \in 1 .. Total : discovered'[i] = discovered[i]
         /\ \E m \in Time :
              /\ Timed(Containers[iter], m)
              /\ \A i \in Total + 1 .. Total' :
                   discovered'[i].mtime = m /\ Holds(Containers[iter], discovered'[i].file)
<1> DEFINE c == Containers[iter]
           Item0 == [file : Files, mtime : Time]
<1>1. iter \in 1 .. Len(Containers) /\ c \in Container
  <2>1. iter \in Int /\ 1 <= iter /\ iter <= Len(Containers)
    BY CatalogAssumption, LenProperties DEF TypeOK, Discover
  <2>2. DOMAIN Containers = 1 .. Len(Containers) /\ Len(Containers) \in Nat
    BY CatalogAssumption, LenProperties
  <2> QED BY <2>1, <2>2 DEF Container
<1>2. discovered \in Seq(Item0) /\ Total \in Nat
  BY LenProperties DEF TypeOK, Total
<1>3. FilesOf[c] \in Seq(Files) /\ disk[c] \in Seq(Time \ {NoTime})
  BY <1>1, CatalogAssumption DEF TypeOK
<1>6. CASE ~There(c)
  <2>1. discovered' = discovered /\ Total' = Total
    BY <1>6 DEF Discover, Total
  <2>2. NoTime \in Time /\ Timed(c, NoTime)
    BY TimesOfDay DEF Timed
  <2>3. \A i \in Total + 1 .. Total' : FALSE
    BY <1>2, <2>1
  <2>4. \E m \in Time :
          /\ Timed(c, m)
          /\ \A i \in Total + 1 .. Total' :
               discovered'[i].mtime = m /\ Holds(c, discovered'[i].file)
    BY <2>2, <2>3
  <2>5. Total' \in Nat /\ Total <= Total'
    BY <1>2, <2>1
  <2> QED BY <1>1, <1>2, <2>1, <2>4, <2>5
<1>7. CASE There(c)
  <2>1. PICK m \in Times(c), files \in Listed(c) :
          discovered' = discovered \o [j \in DOMAIN files |-> [file |-> files[j], mtime |-> m]]
    BY <1>7 DEF Discover
  <2> DEFINE new == [j \in DOMAIN files |-> [file |-> files[j], mtime |-> m]]
  <2>2. m \in Time /\ Timed(c, m)
    <3>1. CASE m = NoTime
      BY <3>1, TimesOfDay DEF Timed
    <3>2. CASE m = Mtime(c)
      <4>1. Len(disk[c]) \in Nat /\ Len(disk[c]) # 0 /\ DOMAIN disk[c] = 1 .. Len(disk[c])
        BY <1>3, <1>7, LenProperties, EmptySeq DEF There
      <4>2. Len(disk[c]) \in 1 .. Len(disk[c])
        BY <4>1
      <4>3. m \in Time /\ m = disk[c][Len(disk[c])]
        BY <1>3, <3>2, <4>2, ElementOfSeq DEF Mtime
      <4> QED BY <4>1, <4>2, <4>3 DEF Timed, Past
    <3> QED BY <3>1, <3>2 DEF Times
  <2>3. files \in Seq(Files) /\ \A j \in DOMAIN files : Holds(c, files[j])
    <3>1. files = FilesOf[c] \/ files = <<>>
      BY DEF Listed
    <3>2. <<>> \in Seq(Files) /\ DOMAIN <<>> = {}
      BY EmptySeq
    <3> QED BY <1>3, <3>1, <3>2 DEF Holds
  <2>4. DOMAIN files = 1 .. Len(files) /\ Len(files) \in Nat
    BY <2>3, LenProperties
  <2>5. new \in [1 .. Len(files) -> Item0]
    BY <2>2, <2>3, <2>4, ElementOfSeq
  <2>6. \A j \in 1 .. Len(files) : new[j].mtime = m /\ Holds(c, new[j].file)
    BY <2>3, <2>4
  <2>7. discovered' = discovered \o new
    BY <2>1
  <2> HIDE DEF new, Item0, c
  <2>8. new \in Seq(Item0)
    BY <2>4, <2>5, SeqDef
  <2>9. Len(new) = Len(files)
    <3>1. DOMAIN new = 1 .. Len(new) /\ Len(new) \in Nat
      BY <2>8, LenProperties
    <3>2. 1 .. Len(new) = 1 .. Len(files)
      BY <2>5, <3>1
    <3>3. \A k, n \in Nat : 1 .. k = 1 .. n => k = n
      <4> SUFFICES ASSUME NEW k \in Nat, NEW n \in Nat, 1 .. k = 1 .. n PROVE k = n
        OBVIOUS
      <4>1. k \in 1 .. k \/ k = 0
        OBVIOUS
      <4>2. n \in 1 .. n \/ n = 0
        OBVIOUS
      <4>3. (k \in 1 .. n \/ k = 0) /\ (n \in 1 .. k \/ n = 0)
        BY <4>1, <4>2
      <4> QED BY <4>3
    <3> QED BY <2>4, <3>1, <3>2, <3>3
  <2>10. /\ discovered' \in Seq(Item0)
         /\ Total' = Total + Len(new)
         /\ \A i \in 1 .. Total + Len(new) :
              discovered'[i] = IF i <= Total THEN discovered[i] ELSE new[i - Total]
    BY <1>2, <2>7, <2>8, ConcatProperties DEF Total
  <2>11. ASSUME NEW i \in Total + 1 .. Total'
         PROVE  discovered'[i].mtime = m /\ Holds(c, discovered'[i].file)
    <3>1. i - Total \in 1 .. Len(new) /\ discovered'[i] = new[i - Total]
      BY <1>2, <2>4, <2>9, <2>10
    <3> QED BY <2>6, <2>9, <3>1
  <2>12. Total' \in Nat /\ Total <= Total' /\ \A i \in 1 .. Total : discovered'[i] = discovered[i]
    <3>1. Total \in Nat /\ Len(new) \in Nat
      BY <1>2, <2>4, <2>9
    <3>2. ASSUME NEW i \in 1 .. Total PROVE discovered'[i] = discovered[i]
      BY <2>10, <3>1
    <3> QED BY <2>10, <3>1, <3>2
  <2>13. c = Containers[iter] /\ Item0 = [file : Files, mtime : Time]
    BY DEF c, Item0
  <2> QED BY <1>1, <1>2, <2>2, <2>10, <2>11, <2>12, <2>13
<1> QED BY <1>6, <1>7

LEMMA TotalType == TypeOK => Total \in Nat /\ DOMAIN discovered = 1 .. Total
BY LenProperties DEF TypeOK, Total

LEMMA ForgottenTypes == TypeOK /\ Forget => CountType' /\ PoolType'
<1> SUFFICES ASSUME TypeOK, Forget PROVE CountType' /\ PoolType'
  OBVIOUS
<1>1. Total' = 0 /\ discovered' \in Seq([file : Files, mtime : Time])
  BY DEF Forget, Total
<1>2. Len(Containers) \in Nat
  BY CatalogAssumption, LenProperties
<1> QED BY <1>1, <1>2, WorkersFinite, Versions DEF Forget, CountType, PoolType, NoItem, NoData

LEMMA NextCountType ==
  ASSUME TypeOK, ControlInv, PoolInv, [Next]_vars
  PROVE  CountType'
<1> CountType
  BY TypeParts
<1>0. Total \in Nat /\ Len(Containers) \in Nat
  BY TotalType, CatalogAssumption, LenProperties
<1>a. CASE Forget
  BY <1>a, ForgottenTypes
<1>1. CASE Start
  <2>1. Total' = 0 /\ discovered' \in Seq([file : Files, mtime : Time]) /\ next_idx' = 1
    BY <1>1 DEF Start, ControlInv, Scanned, pool, Total
  <2> QED BY <1>0, <1>1, <2>1, WorkersFinite DEF Start, CountType
<1>2. CASE Discover
  <2>1. /\ iter' = iter + 1 /\ iter \in 1 .. Len(Containers)
        /\ UNCHANGED <<files_probed, files_total, next_idx>>
    BY <1>2, Found DEF Discover, progress, pool
  <2>2. discovered' \in Seq([file : Files, mtime : Time]) /\ Total <= Total' /\ Total' \in Nat
    BY <1>2, Found
  <2> QED BY <1>0, <2>1, <2>2, WorkersFinite DEF CountType
<1>3. CASE EndDiscovery
  <2>1. files_total' = Total /\ next_idx' \in {next_idx, 1} /\ Total' = Total
          /\ UNCHANGED <<files_probed, iter, discovered>>
    BY <1>3 DEF EndDiscovery, pool, Total
  <2> QED BY <1>0, <2>1, WorkersFinite DEF CountType
<1>4. ASSUME NEW w \in Workers, Take(w) PROVE CountType'
  <2>1. next_idx' = next_idx + 1 /\ Total' = Total
          /\ UNCHANGED <<files_probed, files_total, iter, discovered>>
    BY <1>4 DEF Take, NextIdx, progress, Total
  <2>2. worker = "probe" /\ pc[w] = "take"
    BY <1>4 DEF Take, ControlInv
  <2>3. Cardinality(Resting) + 1 <= Cardinality(Workers) /\ Cardinality(Resting) \in Nat
    <3>1. w \notin Resting /\ Resting \in SUBSET Workers /\ Resting \cup {w} \in SUBSET Workers
      BY <2>2 DEF Resting
    <3> QED BY <3>1, OneMore
  <2>4. next_idx <= Total + Cardinality(Workers)
    BY <1>0, <2>2, <2>3, WorkersFinite DEF PoolInv, CountType
  <2> QED BY <1>0, <2>1, <2>4, WorkersFinite DEF CountType
<1>5. ASSUME NEW w \in Workers, Count(w) PROVE CountType'
  <2>1. files_probed' = files_probed + 1 /\ Total' = Total
          /\ UNCHANGED <<files_total, iter, discovered, next_idx>>
    BY <1>5 DEF Count, Total
  <2>2. Held \in SUBSET Workers /\ Cardinality(Held) \in Nat /\ Cardinality(Held) # 0
    <3>1. w \in Held /\ Held \in SUBSET Workers
      BY <1>5, Items DEF Count, Handling, Held
    <3>2. IsFiniteSet(Held)
      BY <3>1, WorkersFinite, FS_Subset
    <3> QED BY <3>1, <3>2, OneMore, FS_EmptySet
  <2>3. files_probed + 1 <= Total
    BY <1>0, <2>2 DEF PoolInv, CountType
  <2> QED BY <1>0, <2>1, <2>3 DEF CountType
<1>6. CASE UNCHANGED <<files_probed, files_total, iter, discovered, next_idx>>
  BY <1>6 DEF CountType, Total
<1> QED
  BY <1>a, <1>1, <1>2, <1>3, <1>4, <1>5, <1>6 DEF Next, Pipeline, Probe, Modify, Browse,
     FlushCache, StartAgain, Quit, QuitJoined, Dies, Launch, EndProbing, Group, EndGrouping,
     EndPipeline, Check, Read, Fingerprint, Store, progress, pool, vars

LEMMA NextPoolType ==
  ASSUME TypeOK, ControlInv, [Next]_vars
  PROVE  PoolType'
<1> PoolType
  BY TypeParts
<1>0. Total \in Nat
  BY TotalType
<1>a. CASE Forget
  BY <1>a, ForgottenTypes
<1>b. \A w \in Workers : item[w] \in 0 .. Total
  BY DEF PoolType
<1>1. CASE Start
  <2>1. \A w \in Workers : item[w] = 0
    BY <1>1 DEF Start, ControlInv, Handling, NoItem
  <2>2. UNCHANGED <<pc, item, data>> /\ Total' = 0
    BY <1>1 DEF Start, pool, Total
  <2> QED BY <2>1, <2>2 DEF PoolType
<1>2. CASE Discover
  <2>1. UNCHANGED <<pc, item, data>> /\ Total' \in Nat /\ Total <= Total'
    BY <1>2, Found DEF Discover, pool
  <2> QED BY <1>0, <2>1 DEF PoolType
<1>3. ASSUME NEW w \in Workers, Take(w) PROVE PoolType'
  <2>1. Total' = Total /\ next_idx \in Nat \ {0}
    BY <1>3 DEF Take, Total, TypeOK
  <2>2. item' \in [Workers -> 0 .. Total]
    BY <1>0, <1>3, <2>1 DEF Take, PoolType
  <2> QED BY <1>3, <2>1, <2>2 DEF Take, PoolType
<1>4. ASSUME NEW w \in Workers, Read(w) \/ Fingerprint(w) PROVE PoolType'
  <2>1. HomeOf(Item(w).file) \in Container
    BY <1>4, Items DEF Read, Fingerprint, Handling
  <2>2. PICK x \in Readings(HomeOf(Item(w).file)) :
          data' = [data EXCEPT ![w].content = x.found] \/ data' = [data EXCEPT ![w].fingerprint = x.found]
    BY <1>4 DEF Read, Fingerprint
  <2>3. x.found \in Seen
    BY <2>1, ReadingTypes, TypeParts
  <2>4. data' \in [Workers -> [content : Seen, fingerprint : Seen]]
    BY <2>2, <2>3 DEF PoolType
  <2> QED BY <1>4, <2>4 DEF Read, Fingerprint, PoolType, Total
<1>5. ASSUME NEW w \in Workers, Check(w) \/ Store(w) \/ Count(w) PROVE PoolType'
  <2>1. NoData \in [content : Seen, fingerprint : Seen]
    BY Versions DEF NoData
  <2>2. CASE Check(w)
    BY <2>2 DEF Check, PoolType, Total
  <2>3. CASE Store(w)
    BY <2>1, <2>3 DEF Store, PoolType, Total
  <2>4. CASE Count(w)
    BY <1>0, <2>4 DEF Count, PoolType, Total, NoItem
  <2> QED BY <1>5, <2>2, <2>3, <2>4
<1>6. CASE EndDiscovery \/ EndProbing
  BY <1>6 DEF EndDiscovery, EndProbing, pool, PoolType, Total
<1>7. CASE UNCHANGED <<pc, item, data, discovered>>
  BY <1>7 DEF PoolType, Total
<1> QED
  BY <1>a, <1>1, <1>2, <1>3, <1>4, <1>5, <1>6, <1>7 DEF Next, Pipeline, Probe, Modify, Browse,
     FlushCache, StartAgain, Quit, QuitJoined, Dies, Launch, Group, EndGrouping,
     EndPipeline, pool, vars

-----------------------------------------------------------------------------
(* The scan *)

LEMMA NextControl ==
  ASSUME TypeOK, ControlInv, PoolInv, [Next]_vars
  PROVE  ControlInv'
<1> USE DEF ControlInv, PhaseOf, Scanned, Alive, Handling, NoItem
<1>0. \A w \in Workers : /\ pc[w] \in {"idle", "take", "check", "read", "fingerprint",
                                       "store", "count", "done"}
                         /\ item[w] \in 0 .. Total
  BY DEF TypeOK
<1>t. pc \in [Workers -> {"idle", "take", "check", "read", "fingerprint", "store", "count", "done"}]
        /\ item \in [Workers -> 0 .. Total] /\ Total \in Nat /\ next_idx \in Nat \ {0}
  BY TotalType DEF TypeOK
<1>a. CASE Forget /\ program' \in {"closed", "terminated"}
  BY <1>a DEF Forget
<1>1. CASE Start
  BY <1>1 DEF Start, pool
<1>2. CASE Quit \/ Launch
  BY <1>2 DEF Quit, Launch, progress, pool, Total
<1>3. CASE Discover
  BY <1>3 DEF Discover, progress, pool
<1>4. CASE EndDiscovery
  <2>1. Total' = Total /\ item' = item /\ files_total' = Total /\ program' = program
    BY <1>4 DEF EndDiscovery, Total, pool
  <2>2. CASE cancel
    BY <1>4, <2>1, <2>2 DEF EndDiscovery, Finish, pool
  <2>3. CASE ~cancel
    BY <1>4, <2>1, <2>3 DEF EndDiscovery
  <2> QED BY <2>2, <2>3
<1>5. CASE EndProbing
  <2>1. Total' = Total /\ UNCHANGED <<item, files_total, program>> /\ phase' = PhaseOf(worker')
          /\ Scanned' /\ Scanned /\ worker' # "probe"
    BY <1>5 DEF EndProbing, Finish, Total
  <2>2. \A w \in Workers : item'[w] = NoItem /\ pc'[w] = "idle"
    BY <1>5, <2>1 DEF EndProbing, PoolJoined
  <2> QED BY <1>5, <2>1, <2>2 DEF EndProbing
<1>6. CASE Group \/ EndGrouping \/ EndPipeline
  BY <1>6 DEF Group, EndGrouping, EndPipeline, Finish, progress, pool, Total
<1>7. ASSUME NEW w \in Workers, Probe(w) PROVE ControlInv'
  <2>1. worker = "probe"
    BY <1>7 DEF Probe, Take, Check, Read, Fingerprint, Store, Count
  <2>2. UNCHANGED <<program, worker, phase, files_total, discovered>> /\ Total' = Total
    BY <1>7 DEF Probe, Take, Check, Read, Fingerprint, Store, Count, progress, Total
  <2>3. /\ pc'[w] # "idle" /\ (item'[w] # NoItem <=> pc'[w] \in Handling)
        /\ \A v \in Workers \ {w} : pc'[v] = pc[v] /\ item'[v] = item[v]
    <3>1. CASE Take(w)
      BY <1>t, <3>1 DEF Take
    <3>2. CASE Check(w)
      BY <1>t, <3>2 DEF Check
    <3>3. CASE Read(w) \/ Fingerprint(w) \/ Store(w)
      BY <1>t, <3>3 DEF Read, Fingerprint, Store
    <3>4. CASE Count(w)
      BY <1>t, <3>4 DEF Count
    <3> QED BY <1>7, <3>1, <3>2, <3>3, <3>4 DEF Probe
  <2> QED BY <2>1, <2>2, <2>3
<1>8. CASE UNCHANGED <<program, progress, worker, discovered, pool>>
  BY <1>8 DEF progress, pool, Total
<1> QED
  BY <1>a, <1>1, <1>2, <1>3, <1>4, <1>5, <1>6, <1>7, <1>8 DEF Next, Pipeline, Modify, Browse,
     FlushCache, StartAgain, QuitJoined, Dies, vars

-----------------------------------------------------------------------------
(* The pool *)

LEMMA NextPool ==
  ASSUME TypeOK, ControlInv, PoolInv, [Next]_vars
  PROVE  PoolInv'
<1>t. /\ pc \in [Workers -> {"idle", "take", "check", "read", "fingerprint", "store",
                             "count", "done"}]
      /\ item \in [Workers -> 0 .. Total] /\ Total \in Nat /\ next_idx \in Nat \ {0}
      /\ files_probed \in Nat
  BY TotalType DEF TypeOK
<1>h. Held \in SUBSET Workers /\ Resting \in SUBSET Workers
  BY DEF Held, Resting
<1>c. Cardinality(Held) \in Nat /\ Cardinality(Resting) \in Nat
  BY <1>h, WorkersFinite, OneMore
<1>e. worker # "probe" => Held = {} /\ Cardinality(Held) = 0
  BY FS_EmptySet DEF ControlInv, Held, Handling
<1>a. CASE Forget
  <2>1. Held' = {} /\ Total' = 0 /\ files_probed' = 0 /\ worker' = "none"
    BY <1>a DEF Forget, Held, Total, NoItem
  <2> QED BY <2>1, FS_EmptySet DEF PoolInv, Uncut, Scanned
<1>1. CASE Start
  <2>1. Held' = {} /\ Total' = 0 /\ files_probed' = 0 /\ worker' = "discover"
    BY <1>1, <1>e DEF Start, Held, Total, pool
  <2> QED BY <2>1, FS_EmptySet DEF PoolInv, Uncut, Scanned
<1>2. CASE Discover
  <2>1. Held' = {} /\ Total' \in Nat /\ files_probed' = 0 /\ worker' = "discover"
    BY <1>2, <1>e, Found DEF Discover, Held, pool, progress, ControlInv, Scanned
  <2> QED BY <2>1, FS_EmptySet DEF PoolInv, Uncut, Scanned
<1>3. CASE EndDiscovery
  <2>1. /\ Held' = {} /\ Total' = Total /\ files_probed' = 0 /\ next_idx' = 1
        /\ cancel' = cancel
    BY <1>3, <1>e DEF EndDiscovery, Held, pool, Total, ControlInv, Scanned
  <2>2. ~cancel => Resting' = {} /\ worker' = "probe"
    BY <1>3 DEF EndDiscovery, Resting
  <2>3. cancel => worker' = "finish"
    BY <1>3 DEF EndDiscovery, Finish
  <2>4. files_probed' + Cardinality(Held)' = 0
    BY <2>1, FS_EmptySet
  <2>5. Cardinality(Resting') \in Nat
    <3>1. cancel => Resting' = Resting
      BY <1>3 DEF EndDiscovery, pool, Resting
    <3> QED BY <2>2, <3>1, <1>c, FS_EmptySet
  <2> QED BY <1>t, <2>1, <2>2, <2>3, <2>4, <2>5 DEF PoolInv, Uncut, Scanned, HandedOut
<1>4. CASE EndProbing
  <2>1. /\ item' = item /\ next_idx' = next_idx /\ Total' = Total /\ files_probed' = files_probed
        /\ cancel' = cancel /\ Held' = Held /\ worker' \notin {"none", "discover", "probe"}
        /\ worker = "probe" /\ (cancel => worker' = "finish")
    BY <1>4 DEF EndProbing, Held, Total, Finish
  <2>2. Resting # {}
    BY <1>4, WorkersFinite DEF EndProbing, PoolJoined, Resting
  <2> QED BY <2>1, <2>2 DEF PoolInv, Uncut, Scanned, HandedOut
<1>5. CASE Group \/ EndGrouping \/ EndPipeline
  <2>1. /\ item' = item /\ next_idx' = next_idx /\ Total' = Total /\ files_probed' = files_probed
        /\ cancel' = cancel /\ Held' = Held
        /\ {worker, worker'} \cap {"none", "discover", "probe"} = {}
        /\ worker' = "group" => worker = "group"
    BY <1>5 DEF Group, EndGrouping, EndPipeline, progress, pool, Held, Total, Finish
  <2> QED BY <2>1 DEF PoolInv, Uncut, Scanned, HandedOut
<1>6. ASSUME NEW w \in Workers, Take(w) PROVE PoolInv'
  <2>1. /\ worker = "probe" /\ worker' = "probe" /\ w \notin Held /\ w \notin Resting
        /\ cancel' = cancel /\ Total' = Total /\ next_idx' = next_idx + 1
        /\ files_probed' = files_probed
    BY <1>6 DEF Take, ControlInv, Handling, Held, Resting, NextIdx, progress, Total
  <2>2. CASE next_idx > Total \/ cancel
    <3>1. item' = item /\ Held' = Held /\ Resting' = Resting \cup {w}
      BY <1>6, <1>t, <2>2 DEF Take, Held, Resting
    <3>2. Cardinality(Resting') = Cardinality(Resting) + 1
      BY <1>h, <2>1, <3>1, OneMore
    <3> HIDE DEF Held, Resting
    <3>3. \A v \in Held' : item'[v] < next_idx'
      <4> SUFFICES ASSUME NEW v \in Held PROVE item[v] < next_idx + 1
        BY <2>1, <3>1
      <4> QED BY <1>t, <1>h DEF PoolInv
    <3>4. HandedOut' = HandedOut \/ cancel
      BY <1>t, <2>1, <2>2 DEF HandedOut
    <3>5. next_idx' <= Total' + 1 + Cardinality(Resting')
      BY <1>t, <1>c, <2>1, <3>2 DEF PoolInv
    <3>6. ~cancel => next_idx' > Total'
      BY <1>t, <2>1, <2>2
    <3> QED BY <2>1, <3>1, <3>3, <3>4, <3>5, <3>6 DEF PoolInv, Uncut, Scanned
  <2>3. CASE ~(next_idx > Total \/ cancel)
    <3>1. /\ item' = [item EXCEPT ![w] = next_idx] /\ Held' = Held \cup {w}
          /\ Resting' = Resting
      BY <1>6, <1>t, <2>1, <2>3 DEF Take, Held, Resting, NoItem
    <3>2. Cardinality(Held') = Cardinality(Held) + 1
      BY <1>h, <2>1, <3>1, OneMore
    <3>3. \A v \in Held : item[v] < next_idx /\ item[v] \in Nat
      BY <1>t, <1>h DEF PoolInv
    <3>4. \A u, v \in Held : item[u] = item[v] => u = v
      BY DEF PoolInv
    <3>5. /\ \A v \in Held' : item'[v] < next_idx'
          /\ \A u, v \in Held' : item'[u] = item'[v] => u = v
      BY <1>t, <1>h, <2>1, <3>1, <3>3, <3>4
    <3>6. Resting = {} /\ HandedOut = next_idx - 1 /\ HandedOut' = next_idx
      BY <1>t, <2>1, <2>3 DEF PoolInv, HandedOut, Uncut, Scanned
    <3>7. /\ files_probed' + Cardinality(Held)' = HandedOut'
          /\ files_probed' + Cardinality(Held)' <= Total'
      BY <1>t, <1>c, <2>1, <2>3, <3>2, <3>6 DEF PoolInv, Uncut, Scanned
    <3>8. next_idx' <= Total' + 1 + Cardinality(Resting')
      BY <1>t, <1>c, <2>1, <2>3, <3>1
    <3> QED BY <2>1, <3>1, <3>5, <3>6, <3>7, <3>8 DEF PoolInv
  <2> QED BY <2>2, <2>3
<1>7. ASSUME NEW w \in Workers, Count(w) PROVE PoolInv'
  <2>1. /\ worker' = worker /\ w \in Held /\ cancel' = cancel /\ Total' = Total
        /\ next_idx' = next_idx /\ files_probed' = files_probed + 1
    BY <1>7, Items DEF Count, Handling, Total
  <2>2. /\ item' = [item EXCEPT ![w] = NoItem] /\ Held' = Held \ {w} /\ Resting' = Resting
    BY <1>7, <1>t DEF Count, Held, Resting, NoItem
  <2>3. Cardinality(Held') = Cardinality(Held) - 1
    BY <1>h, <2>1, <2>2, OneMore
  <2>4. files_probed' + Cardinality(Held') = files_probed + Cardinality(Held)
    BY <1>t, <1>c, <2>1, <2>3
  <2>5. \A v \in Held' : v \in Held /\ item'[v] = item[v]
    BY <1>t, <1>h, <2>2
  <2> QED BY <2>1, <2>2, <2>4, <2>5 DEF PoolInv, Uncut, Scanned, HandedOut
<1>8. CASE /\ UNCHANGED <<item, next_idx, discovered, files_probed, worker>>
           /\ cancel' = cancel \/ cancel'
           /\ Resting' = Resting
  <2>1. Held' = Held /\ Total' = Total
    BY <1>8 DEF Held, Total
  <2> QED BY <1>8, <2>1 DEF PoolInv, Uncut, Scanned, HandedOut
<1>9. ASSUME NEW w \in Workers, Check(w) \/ Read(w) \/ Fingerprint(w) \/ Store(w)
      PROVE  PoolInv'
  <2>1. Resting' = Resting
    BY <1>9, <1>t DEF Check, Read, Fingerprint, Store, Resting
  <2> QED BY <1>8, <1>9, <2>1 DEF Check, Read, Fingerprint, Store, progress
<1>10. CASE pc' = pc => Resting' = Resting
  BY <1>a, <1>1, <1>2, <1>3, <1>4, <1>5, <1>6, <1>7, <1>8, <1>9, <1>10 DEF Next, Pipeline,
     Probe, Modify, Browse, FlushCache, StartAgain, Quit, QuitJoined, Dies, Launch, progress,
     pool, vars
<1> QED BY <1>10 DEF Resting

-----------------------------------------------------------------------------
(* The discovery *)

LEMMA FileTypes ==
  ASSUME NEW s \in Seq([file : Files, mtime : Time]), NEW i \in 1 .. Len(s)
  PROVE  s[i].file \in Files /\ s[i].mtime \in Time
<1>1. s[i] \in [file : Files, mtime : Time]
  BY ElementOfSeq
<1> QED BY <1>1

LEMMA NextDiscovered ==
  ASSUME TypeOK, DiscoveredInv, [Next]_vars
  PROVE  DiscoveredInv'
<1>t. Total \in Nat /\ DOMAIN discovered = 1 .. Total /\ iter \in Nat \ {0}
  BY TotalType DEF TypeOK
<1>f. \A i \in 1 .. Total : discovered[i].file \in Files
  BY FileTypes DEF TypeOK, Total
<1>a. CASE discovered' = <<>>
  BY <1>a DEF DiscoveredInv
<1>1. ASSUME NEW c \in Container, Modify(c) PROVE DiscoveredInv'
  <2>1. discovered' = discovered /\ iter' = iter
    BY <1>1 DEF Modify
  <2>2. ASSUME NEW i \in DOMAIN discovered
        PROVE  Timed(HomeOf(discovered[i].file), discovered[i].mtime)'
    <3>1. HomeOf(discovered[i].file) \in Container
      BY <1>t, <1>f, Homes
    <3>2. Timed(HomeOf(discovered[i].file), discovered[i].mtime)
      BY DEF DiscoveredInv
    <3>3. ASSUME NEW d \in Container, NEW m, Timed(d, m) PROVE Timed(d, m)'
      BY <1>1, <3>3, TimesStay, TypeParts
    <3> QED BY <2>1, <3>1, <3>2, <3>3
  <2> QED BY <2>1, <2>2 DEF DiscoveredInv
<1>2. CASE Discover
  <2> DEFINE c == Containers[iter]
  <2>1. /\ c \in Container /\ iter \in 1 .. Len(Containers) /\ iter' = iter + 1 /\ disk' = disk
        /\ Total' \in Nat /\ Total <= Total' /\ DOMAIN discovered' = 1 .. Total'
        /\ \A i \in 1 .. Total : discovered'[i] = discovered[i]
    BY <1>2, Found, LenProperties DEF Discover, Total
  <2>m. PICK m \in Time :
          /\ Timed(c, m)
          /\ \A i \in Total + 1 .. Total' :
               discovered'[i].mtime = m /\ Holds(c, discovered'[i].file)
    BY <1>2, Found
  <2>2. ASSUME NEW i \in Total + 1 .. Total'
        PROVE  HomeOf(discovered'[i].file) = c /\ discovered'[i].mtime = m
    <3>1. discovered'[i].mtime = m /\ Holds(c, discovered'[i].file)
      BY <2>m
    <3>2. discovered'[i].file \in Files
      <4>1. discovered' \in Seq([file : Files, mtime : Time]) /\ i \in 1 .. Len(discovered')
        BY <1>2, <1>t, <2>1, Found DEF Total
      <4> QED BY <4>1, FileTypes
    <3> QED BY <2>1, <3>1, <3>2, Homes
  <2>3. ASSUME NEW i \in 1 .. Total
        PROVE  /\ \E k \in 1 .. iter - 1 : HomeOf(discovered'[i].file) = Containers[k]
               /\ HomeOf(discovered'[i].file) # c
               /\ Timed(HomeOf(discovered'[i].file), discovered'[i].mtime)
    <3>1. PICK k \in 1 .. iter - 1 : HomeOf(discovered[i].file) = Containers[k]
      BY <1>t DEF DiscoveredInv
    <3>2. DOMAIN Containers = 1 .. Len(Containers) /\ Len(Containers) \in Nat
      BY CatalogAssumption, LenProperties
    <3>3. Containers[k] # c
      <4>1. k \in DOMAIN Containers /\ iter \in DOMAIN Containers /\ k # iter
        BY <1>t, <2>1, <3>1, <3>2
      <4> QED BY <4>1, CatalogAssumption
    <3>4. Timed(HomeOf(discovered[i].file), discovered[i].mtime)
      BY <1>t DEF DiscoveredInv
    <3> QED BY <2>1, <3>1, <3>3, <3>4
  <2>4. ASSUME NEW i \in DOMAIN discovered'
        PROVE  /\ \E k \in 1 .. iter' - 1 : HomeOf(discovered'[i].file) = Containers[k]
               /\ Timed(HomeOf(discovered[i].file), discovered[i].mtime)'
    <3>1. /\ \E k \in 1 .. iter' - 1 : HomeOf(discovered'[i].file) = Containers[k]
          /\ Timed(HomeOf(discovered'[i].file), discovered'[i].mtime)
      <4>1. CASE i \in 1 .. Total
        BY <1>t, <2>1, <2>3, <4>1
      <4>2. CASE i \in Total + 1 .. Total'
        BY <1>t, <2>1, <2>m, <2>2, <4>2
      <4> QED BY <1>t, <2>1, <4>1, <4>2
    <3> QED BY <2>1, <3>1 DEF Timed, Past
  <2>5. ASSUME NEW i \in DOMAIN discovered', NEW j \in DOMAIN discovered',
               discovered'[i].file = discovered'[j].file
        PROVE  discovered'[i].mtime = discovered'[j].mtime
    <3>1. (i \in 1 .. Total \/ i \in Total + 1 .. Total')
            /\ (j \in 1 .. Total \/ j \in Total + 1 .. Total')
      BY <1>t, <2>1
    <3>2. CASE i \in 1 .. Total /\ j \in 1 .. Total
      BY <1>t, <2>1, <2>5, <3>2 DEF DiscoveredInv
    <3>3. CASE i \in 1 .. Total /\ j \in Total + 1 .. Total'
      BY <2>2, <2>3, <2>5, <3>3
    <3>4. CASE i \in Total + 1 .. Total' /\ j \in 1 .. Total
      BY <2>2, <2>3, <2>5, <3>4
    <3>5. CASE i \in Total + 1 .. Total' /\ j \in Total + 1 .. Total'
      BY <2>2, <3>5
    <3> QED BY <3>1, <3>2, <3>3, <3>4, <3>5
  <2> HIDE DEF c
  <2> QED BY <2>4, <2>5 DEF DiscoveredInv
<1>3. CASE UNCHANGED <<disk, iter, discovered>>
  BY <1>3 DEF DiscoveredInv, Timed, Past
<1> QED
  BY <1>a, <1>1, <1>2, <1>3 DEF Next, Pipeline, Probe, Browse, FlushCache, Start, StartAgain,
     Quit, QuitJoined, Dies, Forget, Launch, EndDiscovery, EndProbing, Group, EndGrouping,
     EndPipeline, Take, Check, Read, Fingerprint, Store, Count, vars

LEMMA NextHandled ==
  ASSUME TypeOK, ControlInv, DiscoveredInv, HandledInv, PoolInv, [Next]_vars
  PROVE  HandledInv'
<1>t. /\ pc \in [Workers -> {"idle", "take", "check", "read", "fingerprint", "store",
                             "count", "done"}]
      /\ item \in [Workers -> 0 .. Total] /\ next_idx \in Nat \ {0} /\ Total \in Nat
      /\ DOMAIN discovered = 1 .. Total /\ db \in [Files -> EntryType]
  BY TotalType DEF TypeOK
<1>f. \A i \in 1 .. Total : discovered[i].file \in Files
  BY FileTypes DEF TypeOK, Total
<1>a. CASE worker' \notin {"probe", "group"} \/ (worker' = "probe" /\ cancel')
  BY <1>a DEF HandledInv, Uncut, Scanned
<1>1. CASE EndDiscovery /\ ~cancel
  <2>1. next_idx' = 1 /\ discovered' = discovered
    BY <1>1 DEF EndDiscovery
  <2> QED BY <1>t, <2>1 DEF HandledInv, Uncut, Scanned, Handled
<1>2. CASE EndProbing /\ ~cancel
  <2>1. /\ worker = "probe" /\ UNCHANGED <<db, unwritten, discovered, item, next_idx, cancel>>
        /\ \A w \in Workers : item[w] = NoItem
    BY <1>2 DEF EndProbing, ControlInv, PoolJoined, Handling
  <2>2. ASSUME NEW i \in DOMAIN discovered, Handled(i)' PROVE Handled(i)
    BY <1>t, <2>1, <2>2 DEF Handled, NoItem
  <2> QED BY <1>2, <2>1, <2>2 DEF HandledInv, Uncut, Scanned
<1>3. CASE Group
  <2>1. PICK f \in Titled : Upsert(f, [db[f] EXCEPT !.group = GroupOf(f)])
    BY <1>3 DEF Group
  <2>2. \A g \in Files : db'[g].mtime = db[g].mtime
    BY <1>t, <2>1 DEF Upsert, EntryType
  <2>3. UNCHANGED <<worker, discovered, cancel, next_idx, item, pc>> /\ unwritten \subseteq unwritten'
    BY <1>3, <2>1 DEF Group, pool, Upsert
  <2> QED BY <1>t, <1>f, <2>2, <2>3 DEF HandledInv, Uncut, Scanned, Handled
<1>4. ASSUME NEW w \in Workers, Take(w) PROVE HandledInv'
  <2>1. /\ next_idx' = next_idx + 1 /\ worker = "probe" /\ pc[w] = "take" /\ item[w] = NoItem
        /\ UNCHANGED <<db, unwritten, discovered, worker, cancel>>
    BY <1>4 DEF Take, NextIdx, ControlInv, Handling
  <2> SUFFICES ASSUME ~cancel, NEW i \in DOMAIN discovered, Handled(i)'
               PROVE  \/ discovered[i].file \in unwritten
                      \/ db[discovered[i].file].mtime = discovered[i].mtime
    BY <2>1 DEF HandledInv, Uncut, Scanned
  <2>2. i \in Nat \ {0} /\ i <= Total
    BY <1>t
  <2>3. CASE next_idx > Total
    <3>1. item' = item /\ pc' = [pc EXCEPT ![w] = "done"]
      BY <1>4, <2>3 DEF Take
    <3>2. Handled(i)
      BY <1>t, <2>1, <2>2, <2>3, <3>1 DEF Handled, NoItem
    <3> QED BY <2>1, <3>2 DEF HandledInv, Uncut, Scanned
  <2>4. CASE ~(next_idx > Total)
    <3>1. item' = [item EXCEPT ![w] = next_idx] /\ pc' = [pc EXCEPT ![w] = "check"]
      BY <1>4, <2>4 DEF Take
    <3>2. i # next_idx
      BY <1>t, <3>1 DEF Handled
    <3>3. Handled(i)
      BY <1>t, <2>1, <2>2, <3>1, <3>2 DEF Handled, NoItem
    <3> QED BY <2>1, <3>3 DEF HandledInv, Uncut, Scanned
  <2> QED BY <2>3, <2>4
<1>5. ASSUME NEW w \in Workers, Check(w) PROVE HandledInv'
  <2>1. /\ worker = "probe" /\ UNCHANGED <<db, unwritten, discovered, worker, cancel, item, next_idx>>
        /\ pc' = [pc EXCEPT ![w] = IF NeedsProbe(w) THEN "read" ELSE "count"]
        /\ Item(w) = discovered[item[w]]
    BY <1>5, Items DEF Check, Handling, pool
  <2> SUFFICES ASSUME ~cancel, NEW i \in DOMAIN discovered, Handled(i)'
               PROVE  \/ discovered[i].file \in unwritten
                      \/ db[discovered[i].file].mtime = discovered[i].mtime
    BY <2>1 DEF HandledInv, Uncut, Scanned
  <2>2. CASE item[w] = i
    <3>1. pc'[w] = "count"
      BY <2>1, <2>2 DEF Handled
    <3>2. ~NeedsProbe(w)
      BY <1>t, <2>1, <3>1
    <3> QED BY <2>1, <2>2, <3>2 DEF NeedsProbe
  <2>3. CASE item[w] # i
    <3>1. Handled(i)
      BY <1>t, <2>1, <2>3 DEF Handled
    <3> QED BY <2>1, <3>1 DEF HandledInv, Uncut, Scanned
  <2> QED BY <2>2, <2>3
<1>6. ASSUME NEW w \in Workers, Read(w) \/ Fingerprint(w) PROVE HandledInv'
  <2>1. /\ worker = "probe" /\ UNCHANGED <<db, unwritten, discovered, worker, cancel, item, next_idx>>
        /\ pc[w] # "count" /\ pc' = [pc EXCEPT ![w] = pc'[w]]
    BY <1>6, <1>t, Items DEF Read, Fingerprint, Handling
  <2>2. pc'[w] # "count" /\ pc[w] # "count" /\ \A v \in Workers \ {w} : pc'[v] = pc[v]
    BY <1>6, <1>t DEF Read, Fingerprint
  <2>3. ASSUME NEW i \in DOMAIN discovered, Handled(i)' PROVE Handled(i)
    BY <2>1, <2>2, <2>3 DEF Handled
  <2> QED BY <2>1, <2>3 DEF HandledInv, Uncut, Scanned
<1>7. ASSUME NEW w \in Workers, Store(w) PROVE HandledInv'
  <2> DEFINE x == [mtime |-> StoredMtime(w), content |-> data[w].content,
                   fingerprint |-> data[w].fingerprint, group |-> 0]
  <2>1. /\ worker = "probe" /\ UNCHANGED <<discovered, worker, cancel, item, next_idx>>
        /\ pc' = [pc EXCEPT ![w] = "count"] /\ Upsert(Item(w).file, x)
        /\ Item(w) = discovered[item[w]] /\ item[w] \in DOMAIN discovered
    BY <1>7, Items DEF Store, Handling
  <2>2. x.mtime = Item(w).mtime
    BY DEF StoredMtime
  <2> HIDE DEF x
  <2> SUFFICES ASSUME ~cancel, NEW i \in DOMAIN discovered, Handled(i)'
               PROVE  \/ discovered[i].file \in unwritten'
                      \/ db'[discovered[i].file].mtime = discovered[i].mtime
    BY <2>1 DEF HandledInv, Uncut, Scanned
  <2>3. CASE discovered[i].file = Item(w).file
    <3>1. db'[discovered[i].file] = x \/ discovered[i].file \in unwritten'
      BY <1>t, <1>f, <2>1, <2>3 DEF Upsert
    <3> QED BY <2>1, <2>2, <2>3, <3>1 DEF DiscoveredInv
  <2>4. CASE discovered[i].file # Item(w).file
    <3>1. db'[discovered[i].file] = db[discovered[i].file] /\ unwritten \subseteq unwritten'
      BY <1>t, <1>f, <2>1, <2>4 DEF Upsert
    <3>2. item[w] # i
      BY <2>1, <2>4
    <3>3. Handled(i)
      BY <1>t, <2>1, <3>2 DEF Handled
    <3> QED BY <2>1, <3>1, <3>3 DEF HandledInv, Uncut, Scanned
  <2> QED BY <2>3, <2>4
<1>8. ASSUME NEW w \in Workers, Count(w) PROVE HandledInv'
  <2>1. /\ worker = "probe" /\ UNCHANGED <<db, unwritten, discovered, worker, cancel, next_idx>>
        /\ pc[w] = "count" /\ pc' = [pc EXCEPT ![w] = "take"]
        /\ item' = [item EXCEPT ![w] = NoItem]
    BY <1>8, Items DEF Count, Handling
  <2>2. ASSUME NEW i \in DOMAIN discovered, Handled(i)' PROVE Handled(i)
    BY <1>t, <2>1, <2>2 DEF Handled, NoItem
  <2> QED BY <2>1, <2>2 DEF HandledInv, Uncut, Scanned
<1>9. CASE /\ UNCHANGED <<db, unwritten, worker, discovered, item, pc, next_idx>>
           /\ cancel' = cancel \/ cancel'
  BY <1>9 DEF HandledInv, Uncut, Scanned, Handled
<1> QED
  BY <1>a, <1>1, <1>2, <1>3, <1>4, <1>5, <1>6, <1>7, <1>8, <1>9 DEF Next, Pipeline, Probe,
     Modify, Browse, FlushCache, Start, StartAgain, Quit, QuitJoined, Dies, Forget, Launch,
     Discover, EndDiscovery, EndProbing, EndGrouping, EndPipeline, Finish, pool, vars

-----------------------------------------------------------------------------
(* What was read *)

LEMMA NextRowsCurrent ==
  ASSUME TypeOK, ControlInv, DiscoveredInv, RowsCurrent, \A w \in Workers : InHandCurrent(w),
         [Next]_vars
  PROVE  RowsCurrent'
<1>t. db \in [Files -> EntryType]
  BY DEF TypeOK
<1>i. \A f \in Files : /\ db[f].mtime \in Int /\ db[f].content \in Int
                       /\ db[f].fingerprint \in Int
  <2> SUFFICES ASSUME NEW f \in Files
               PROVE  db[f].mtime \in Int /\ db[f].content \in Int /\ db[f].fingerprint \in Int
    OBVIOUS
  <2>1. db[f] \in EntryType
    BY <1>t
  <2>2. db[f].mtime \in Time \cup {-1} /\ db[f].content \in Seen /\ db[f].fingerprint \in Seen
    BY <2>1 DEF EntryType
  <2>3. Time \subseteq Int /\ -1 \in Int /\ Seen \subseteq Int
    BY Versions, TimesOfDay
  <2> QED BY <2>2, <2>3
<1>1. ASSUME NEW c \in Container, Modify(c) PROVE RowsCurrent'
  <2>1. db' = db /\ Rows' = Rows
    BY <1>1 DEF Modify, Rows
  <2> SUFFICES ASSUME NEW f \in Rows
               PROVE  /\ db[f].mtime # -1
                      /\ HomeOf(f) \notin Archives =>
                           /\ Told(HomeOf(f), db[f].mtime, db[f].content)'
                           /\ Told(HomeOf(f), db[f].mtime, db[f].fingerprint)'
    BY <2>1 DEF RowsCurrent
  <2>2. f \in Files /\ HomeOf(f) \in Container
    BY Homes DEF Rows
  <2>3. ASSUME NEW m, NEW x \in Int, Told(HomeOf(f), m, x) PROVE Told(HomeOf(f), m, x)'
    BY <1>1, <2>2, <2>3, TimesStay, TypeParts
  <2> QED BY <1>i, <2>1, <2>2, <2>3 DEF RowsCurrent
<1>2. ASSUME NEW w \in Workers, Store(w) PROVE RowsCurrent'
  <2> DEFINE x == [mtime |-> StoredMtime(w), content |-> data[w].content,
                   fingerprint |-> data[w].fingerprint, group |-> 0]
             g == Item(w).file
  <2>1. disk' = disk /\ Upsert(g, x) /\ pc[w] = "store"
    BY <1>2 DEF Store
  <2>2. /\ item[w] # NoItem /\ g \in Files /\ Item(w).mtime \in Time
    BY <1>2, Items DEF Store, Handling, Held
  <2>3. x.mtime = Item(w).mtime /\ Item(w).mtime # -1
    BY <2>2, TimesOfDay DEF StoredMtime
  <2>4. HomeOf(g) \notin Archives => /\ Told(HomeOf(g), Item(w).mtime, data[w].content)
                                     /\ Told(HomeOf(g), Item(w).mtime, data[w].fingerprint)
    BY <2>1, <2>2 DEF InHandCurrent
  <2>5. x.content = data[w].content /\ x.fingerprint = data[w].fingerprint
    OBVIOUS
  <2> HIDE DEF x, g
  <2>6. ASSUME NEW f \in Rows'
        PROVE  \/ f = g /\ db'[f] = x
               \/ f \in Rows /\ db'[f] = db[f]
    BY <1>t, <2>1, <2>2 DEF Rows, Upsert
  <2> QED BY <2>1, <2>3, <2>4, <2>5, <2>6 DEF RowsCurrent, Told, Past
<1>3. CASE Group
  <2>1. PICK f \in Titled : Upsert(f, [db[f] EXCEPT !.group = GroupOf(f)])
    BY <1>3 DEF Group
  <2>2. disk' = disk /\ f \in Rows
    BY <1>3 DEF Group, Titled
  <2>3. \A g \in Files : db'[g].mtime = db[g].mtime /\ db'[g].content = db[g].content
                           /\ db'[g].fingerprint = db[g].fingerprint
    BY <1>t, <2>1 DEF EntryType, Upsert
  <2>4. Rows' \subseteq Rows /\ Rows' \subseteq Files
    BY <1>t, <2>1, <2>2 DEF Rows, Upsert
  <2> QED BY <2>2, <2>3, <2>4 DEF RowsCurrent, Told, Past
<1>4. CASE UNCHANGED <<disk, db>>
  BY <1>4 DEF RowsCurrent, Rows, Told, Past
<1> QED
  BY <1>1, <1>2, <1>3, <1>4 DEF Next, Pipeline, Probe, Browse, FlushCache, Start, StartAgain,
     Quit, QuitJoined, Dies, Forget, Launch, Discover, EndDiscovery, EndProbing, EndGrouping,
     EndPipeline, Take, Check, Read, Fingerprint, Count, vars

\* What is read of a plain file goes with a time the file has had.
LEMMA JustRead ==
  ASSUME TypeOK, ControlInv, DiscoveredInv, NEW w \in Workers, pc[w] \in Handling,
         NEW x \in Readings(HomeOf(Item(w).file)), HomeOf(Item(w).file) \notin Archives
  PROVE  Told(HomeOf(Item(w).file), Item(w).mtime, x.found)
<1>1. /\ HomeOf(Item(w).file) \in Container
      /\ Item(w) = discovered[item[w]] /\ item[w] \in DOMAIN discovered
  BY Items
<1>2. Timed(HomeOf(Item(w).file), Item(w).mtime)
  BY <1>1 DEF DiscoveredInv
<1>3. x.found \in {Unread, Len(disk[HomeOf(Item(w).file)])}
  BY <1>1, ReadingTypes, TypeParts
<1> QED BY <1>2, <1>3 DEF Timed, Told

LEMMA NextInHandCurrent ==
  ASSUME TypeOK, ControlInv, ControlInv', DiscoveredInv, [Next]_vars,
         NEW w \in Workers, InHandCurrent(w)
  PROVE  InHandCurrent(w)'
<1>t. /\ pc \in [Workers -> {"idle", "take", "check", "read", "fingerprint", "store",
                             "count", "done"}]
      /\ item \in [Workers -> 0 .. Total]
      /\ data \in [Workers -> [content : Seen, fingerprint : Seen]]
  BY DEF TypeOK
<1>a. CASE pc'[w] \notin {"fingerprint", "store"}
  BY <1>a DEF InHandCurrent
<1>1. ASSUME NEW c \in Container, Modify(c) PROVE InHandCurrent(w)'
  <2>1. UNCHANGED <<discovered, item, pc, data>> /\ Item(w)' = Item(w)
    BY <1>1 DEF Modify, pool, Item
  <2>2. CASE pc[w] \in Handling
    <3>1. HomeOf(Item(w).file) \in Container
      BY <2>2, Items
    <3>2. data[w].content \in Int /\ data[w].fingerprint \in Int
      BY <1>t, Versions
    <3>3. ASSUME NEW m, NEW x \in Int, Told(HomeOf(Item(w).file), m, x)
          PROVE  Told(HomeOf(Item(w).file), m, x)'
      <4>1. ASSUME NEW d \in Container, Told(d, m, x) PROVE Told(d, m, x)'
        BY <1>1, <4>1, TimesStay, TypeParts
      <4> QED BY <2>1, <3>1, <3>3, <4>1
    <3> QED BY <2>1, <3>1, <3>2, <3>3 DEF InHandCurrent
  <2>3. CASE pc[w] \notin Handling
    BY <2>1, <2>3 DEF InHandCurrent, Handling
  <2> QED BY <2>2, <2>3
<1>2. ASSUME NEW v \in Workers \ {w}, Probe(v) PROVE InHandCurrent(w)'
  <2>1. UNCHANGED <<disk, discovered>> /\ item'[w] = item[w] /\ pc'[w] = pc[w]
          /\ data'[w] = data[w]
    BY <1>2, <1>t DEF Probe, Take, Check, Read, Fingerprint, Store, Count
  <2> QED BY <2>1 DEF InHandCurrent, Item, Told, Past
<1>3. CASE Read(w)
  <2>1. /\ UNCHANGED <<disk, discovered, item>> /\ pc'[w] = "fingerprint"
        /\ Item(w)' = Item(w) /\ pc[w] \in Handling
    BY <1>3, <1>t DEF Read, Handling, Item
  <2>2. PICK x \in Readings(HomeOf(Item(w).file)) : data' = [data EXCEPT ![w].content = x.found]
    BY <1>3 DEF Read
  <2>3. data'[w].content = x.found
    BY <1>t, <2>2
  <2>4. HomeOf(Item(w).file) \notin Archives =>
          Told(HomeOf(Item(w).file), Item(w).mtime, data'[w].content)
    BY <2>1, <2>3, JustRead
  <2> QED BY <2>1, <2>4 DEF InHandCurrent, Told, Past
<1>4. CASE Fingerprint(w)
  <2>1. /\ UNCHANGED <<disk, discovered, item>> /\ pc'[w] = "store"
        /\ Item(w)' = Item(w) /\ pc[w] \in Handling /\ pc[w] = "fingerprint"
    BY <1>4, <1>t DEF Fingerprint, Handling, Item
  <2>2. PICK x \in Readings(HomeOf(Item(w).file)) :
          data' = [data EXCEPT ![w].fingerprint = x.found]
    BY <1>4 DEF Fingerprint
  <2>3. data'[w].fingerprint = x.found /\ data'[w].content = data[w].content
    BY <1>t, <2>2
  <2>4. HomeOf(Item(w).file) \notin Archives =>
          Told(HomeOf(Item(w).file), Item(w).mtime, data'[w].fingerprint)
    BY <2>1, <2>3, JustRead
  <2> QED BY <2>1, <2>3, <2>4 DEF InHandCurrent, Told, Past
<1>5. CASE Take(w) \/ Check(w) \/ Store(w) \/ Count(w)
  BY <1>5, <1>t, <1>a DEF Take, Check, Store, Count
<1>6. CASE worker' # "probe"
  BY <1>6, <1>a DEF ControlInv
<1>7. CASE EndDiscovery
  BY <1>6, <1>7, <1>a DEF EndDiscovery, Finish
<1>8. CASE UNCHANGED <<disk, discovered, item, pc, data>>
  BY <1>8 DEF InHandCurrent, Item, Told, Past
<1> QED
  BY <1>1, <1>2, <1>3, <1>4, <1>5, <1>6, <1>7, <1>8 DEF Next, Pipeline, Probe, Browse,
     FlushCache, Start, StartAgain, Quit, QuitJoined, Dies, Forget, Launch, Discover,
     EndProbing, Group, EndGrouping, EndPipeline, Finish, pool, vars

-----------------------------------------------------------------------------
(* The groups *)

LEMMA NextGroups ==
  ASSUME TypeOK, ControlInv, ControlInv', RowsCurrent, GroupInv, [Next]_vars
  PROVE  GroupInv'
<1> DEFINE Plain == \A f \in Rows \ Titled : db[f].group = 0
<1>t. db \in [Files -> EntryType]
  BY DEF TypeOK
<1>p. Plain
  BY DEF GroupInv
<1>u. ASSUME UNCHANGED db PROVE Plain' /\ Titled' = Titled /\ \A f : GroupOf(f)' = GroupOf(f)
  BY <1>p, <1>u DEF Rows, Titled, GroupOf
<1>1. CASE EndProbing
  <2>1. Plain'
    BY <1>1, <1>u DEF EndProbing
  <2>2. CASE cancel
    BY <1>1, <2>1, <2>2 DEF EndProbing, Finish, GroupInv
  <2>3. CASE ~cancel
    BY <1>1, <2>1, <2>3 DEF EndProbing, GroupInv
  <2> QED BY <2>2, <2>3
<1>2. CASE EndDiscovery
  <2>1. Plain' /\ cancel' = cancel
    BY <1>2, <1>u DEF EndDiscovery
  <2>2. worker' = "probe" \/ (worker' = "finish" /\ cancel)
    BY <1>2 DEF EndDiscovery, Finish
  <2> QED BY <2>1, <2>2 DEF ControlInv, PhaseOf, GroupInv
<1>3. CASE Group
  <2>1. PICK f \in Titled \ grouped : /\ Upsert(f, [db[f] EXCEPT !.group = GroupOf(f)])
                                      /\ grouped' = grouped \cup {f}
    BY <1>3 DEF Group
  <2>2. worker' = "group" /\ worker = "group" /\ phase' # "Done"
    BY <1>3 DEF Group, progress, ControlInv, PhaseOf
  <2>3. /\ f \in Files /\ db'[f].mtime = db[f].mtime
        /\ \A g \in Files \ {f} : db'[g] = db[g]
        /\ db'[f].group = GroupOf(f) \/ f \in unwritten'
        /\ unwritten \subseteq unwritten'
    BY <1>t, <2>1 DEF EntryType, Rows, Titled, Upsert
  <2>4. Rows' = Rows
    <3>1. db'[f] # NoEntry
      <4>1. db[f].mtime # -1
        BY <2>1 DEF RowsCurrent, Titled
      <4>2. NoEntry.mtime = -1
        BY DEF NoEntry
      <4> QED BY <2>3, <4>1, <4>2
    <3> QED BY <2>1, <2>3, <3>1 DEF Rows, Titled
  <2>5. Titled' = Titled /\ \A g \in Files : GroupOf(g)' = GroupOf(g)
    BY <2>4 DEF Titled, GroupOf
  <2>6. grouped \subseteq Titled /\ Titled \subseteq Rows /\ Rows \subseteq Files
    BY <2>2 DEF GroupInv, Rows, Titled
  <2>7. \A g \in grouped' \ unwritten' : db'[g].group = GroupOf(g)'
    <3>1. \A g \in grouped \ unwritten : db[g].group = GroupOf(g)
      BY <2>2 DEF GroupInv
    <3>2. \A g \in grouped : g # f /\ g \in Files
      BY <2>1, <2>6
    <3> QED BY <2>1, <2>3, <2>5, <3>1, <3>2
  <2>8. Plain'
    BY <1>p, <2>1, <2>3, <2>4, <2>5, <2>6
  <2> QED BY <2>1, <2>2, <2>5, <2>6, <2>7, <2>8 DEF GroupInv
<1>4. CASE EndGrouping
  <2>1. Plain' /\ Titled' = Titled /\ (\A f : GroupOf(f)' = GroupOf(f)) /\ worker' = "finish"
    BY <1>4, <1>u DEF EndGrouping, Finish
  <2> QED BY <1>4, <2>1 DEF EndGrouping, GroupInv
<1>5. CASE /\ UNCHANGED <<db, phase, grouped, unwritten>>
           /\ worker' = worker \/ worker' = "finished"
           /\ cancel' = cancel \/ cancel'
  <2>1. Plain' /\ Titled' = Titled /\ \A f : GroupOf(f)' = GroupOf(f)
    BY <1>5, <1>u
  <2> QED BY <1>5, <2>1 DEF GroupInv
<1>6. ASSUME NEW w \in Workers, Probe(w) PROVE GroupInv'
  <2>1. worker' = worker /\ (pc[w] \in Handling \/ pc[w] = "take")
    BY <1>6 DEF Probe, Take, Check, Read, Fingerprint, Store, Count, Handling
  <2>2. worker' = "probe" /\ phase' = "Probing"
    BY <2>1 DEF ControlInv, Handling, PhaseOf
  <2>3. Plain'
    <3>1. CASE Store(w)
      <4> DEFINE x == [mtime |-> StoredMtime(w), content |-> data[w].content,
                       fingerprint |-> data[w].fingerprint, group |-> 0]
      <4>1. Upsert(Item(w).file, x) /\ x.group = 0
        BY <3>1 DEF Store
      <4> HIDE DEF x
      <4>2. \A g \in Files : db'[g] = db[g] \/ db'[g] = x
        BY <1>t, <4>1 DEF Upsert
      <4> QED BY <1>p, <4>1, <4>2 DEF Rows, Titled
    <3>2. CASE ~Store(w)
      BY <1>6, <1>u, <3>2 DEF Probe, Take, Check, Read, Fingerprint, Count
    <3> QED BY <3>1, <3>2
  <2> QED BY <2>2, <2>3 DEF GroupInv
<1>7. CASE UNCHANGED db /\ worker' \in {"none", "discover"}
  <2>1. Plain'
    BY <1>7, <1>u
  <2> QED BY <1>7, <2>1 DEF ControlInv, GroupInv, PhaseOf
<1> QED
  BY <1>1, <1>2, <1>3, <1>4, <1>5, <1>6, <1>7 DEF Next, Pipeline, Modify, Browse,
     FlushCache, Start, StartAgain, Quit, QuitJoined, Dies, Forget, Launch, Discover,
     EndPipeline, progress, vars

-----------------------------------------------------------------------------
(* The theorems *)

LEMMA InitInv == Init => Inv
<1> SUFFICES ASSUME Init PROVE Inv
  OBVIOUS
<1>1. ControlInv
  BY DEF Init, ControlInv, Alive, PhaseOf, Handling, Scanned
<1>2. Held = {} /\ Rows = {} /\ Total = 0 /\ ~Scanned
  BY DEF Init, Held, Rows, Total, Scanned
<1>3. PoolInv
  BY <1>2, FS_EmptySet DEF Init, PoolInv, Uncut, Scanned
<1>4. DiscoveredInv /\ HandledInv
  BY DEF Init, DiscoveredInv, HandledInv
<1>5. RowsCurrent /\ (\A w \in Workers : InHandCurrent(w)) /\ GroupInv
  BY <1>2 DEF Init, Titled, RowsCurrent, InHandCurrent, GroupInv
<1> QED BY <1>1, <1>3, <1>4, <1>5, InitTypes DEF Inv

LEMMA NextInv == Inv /\ [Next]_vars => Inv'
<1> SUFFICES ASSUME Inv, [Next]_vars PROVE Inv'
  OBVIOUS
<1>1. TypeOK /\ ControlInv /\ PoolInv /\ DiscoveredInv /\ HandledInv /\ RowsCurrent /\ GroupInv
        /\ \A w \in Workers : InHandCurrent(w)
  BY DEF Inv
<1>2. TypeOK'
  BY <1>1, NextTableType, NextScanType, NextCountType, NextPoolType, TypeParts
<1>3. ControlInv' /\ PoolInv' /\ DiscoveredInv' /\ HandledInv' /\ RowsCurrent'
  BY <1>1, NextControl, NextPool, NextDiscovered, NextHandled, NextRowsCurrent
<1>4. (\A w \in Workers : InHandCurrent(w))' /\ GroupInv'
  BY <1>1, <1>3, NextInHandCurrent, NextGroups
<1> QED BY <1>2, <1>3, <1>4 DEF Inv

\* The variables keep their types: no thread of the pool indexes past the list it
\* probes, and the progress bar never counts beyond it.
THEOREM TypeCorrect == Spec => []TypeOK
<1>1. Inv => TypeOK
  BY DEF Inv
<1> QED BY <1>1, InitInv, NextInv, PTL DEF Spec

\* However many threads share next_idx_, each file is probed once, and the
\* grouping begins with every discovered file in the table that it did not refuse.
THEOREM FilesProbedOnce == Spec => []EachFileOnce
<1>1. Inv => EachFileOnce
  <2> SUFFICES ASSUME Inv PROVE EachFileOnce
    OBVIOUS
  <2>t. TypeOK /\ ControlInv /\ PoolInv /\ HandledInv
    BY DEF Inv
  <2>1. /\ \A v, w \in Held : item[v] = item[w] => v = w
        /\ worker = "probe" /\ ~cancel =>
             files_probed + Cardinality(Held)
               = IF next_idx > Total THEN Total ELSE next_idx - 1
    BY <2>t DEF PoolInv, HandedOut, Uncut, Scanned
  <2>2. ASSUME phase = "Grouping"
        PROVE  /\ files_probed = files_total
               /\ \A i \in DOMAIN discovered : discovered[i].file \notin unwritten =>
                    db[discovered[i].file].mtime = discovered[i].mtime
    <3>1. worker = "group" /\ Held = {} /\ files_total = Total
      BY <2>t, <2>2 DEF ControlInv, PhaseOf, Scanned, Held, Handling, TypeOK
    <3>2. next_idx > Total /\ files_probed + Cardinality(Held) = Total
      BY <2>t, <3>1 DEF PoolInv, HandedOut, Uncut
    <3>3. files_probed = Total
      BY <2>t, <3>1, <3>2, FS_EmptySet, TotalType DEF TypeOK
    <3>4. ASSUME NEW i \in DOMAIN discovered PROVE Handled(i)
      BY <2>t, <3>1, <3>2, TotalType DEF Handled, Held, TypeOK, NoItem
    <3> QED BY <2>t, <3>1, <3>3, <3>4 DEF HandledInv, Uncut
  <2> QED BY <2>1, <2>2 DEF EachFileOnce
<1> QED BY <1>1, InitInv, NextInv, PTL DEF Spec

\* A row that will not be probed again was made from the plain file's present contents,
\* or from none, whatever changed between the discovery, the two reads and the upsert,
\* unless the contents changed within a second.
THEOREM PlainRowsCurrent == Spec => []PlainFilesCurrent
<1>1. Inv => PlainFilesCurrent
  <2> SUFFICES ASSUME Inv, NEW f \in Files, HomeOf(f) \notin Archives, There(HomeOf(f)),
                      db[f].mtime = Mtime(HomeOf(f)), Tells(HomeOf(f))
               PROVE  {db[f].content, db[f].fingerprint} \subseteq {Unread, Len(disk[HomeOf(f)])}
    BY DEF PlainFilesCurrent
  <2> DEFINE n == Len(disk[HomeOf(f)])
  <2>1. /\ disk[HomeOf(f)] \in Seq(Time \ {NoTime}) /\ n \in Nat
        /\ DOMAIN disk[HomeOf(f)] = 1 .. n /\ db[f] \in EntryType
    BY Homes, Lengths, TypeParts DEF Inv, TypeOK
  <2>2. n \in 1 .. n
    BY <2>1, EmptySeq DEF There
  <2>3. db[f].mtime \in Time \ {NoTime} /\ db[f].mtime # -1
    <3>1. disk[HomeOf(f)][n] \in Time \ {NoTime}
      BY <2>1, <2>2, ElementOfSeq
    <3> QED BY <3>1, TimesOfDay DEF Mtime
  <2>4. f \in Rows
    BY <2>3 DEF Rows, NoEntry
  <2>5. ASSUME NEW x \in Int, Told(HomeOf(f), db[f].mtime, x) PROVE x \in {Unread, n}
    <3>1. CASE x = Unread
      BY <3>1
    <3>2. CASE Past(HomeOf(f), db[f].mtime, x)
      <4>1. x <= n /\ \E v \in 1 .. x : disk[HomeOf(f)][v] = Mtime(HomeOf(f))
        BY <3>2 DEF Past
      <4>2. PICK v \in 1 .. x : disk[HomeOf(f)][v] = Mtime(HomeOf(f))
        BY <4>1
      <4>3. v \notin 1 .. n - 1
        BY <4>2 DEF Tells
      <4>4. v \in Int /\ 1 <= v /\ v <= x
        BY <2>5, <4>2
      <4> HIDE DEF n
      <4> QED BY <2>1, <2>5, <4>1, <4>3, <4>4
    <3> QED BY <2>3, <2>5, <3>1, <3>2 DEF Told
  <2>6. db[f].content \in Int /\ db[f].fingerprint \in Int
    BY <2>1, Versions DEF EntryType
  <2>7. /\ Told(HomeOf(f), db[f].mtime, db[f].content)
        /\ Told(HomeOf(f), db[f].mtime, db[f].fingerprint)
    BY <2>4 DEF Inv, RowsCurrent
  <2> QED BY <2>5, <2>6, <2>7
<1> QED BY <1>1, InitInv, NextInv, PTL DEF Spec

\* After a complete scan the numbers in the table say which rows share a title, and which
\* have none, whatever a scan that died left there.
THEOREM GroupsTellTitles == Spec => []GroupsAreTitles
<1>1. Inv => GroupsAreTitles
  <2> SUFFICES ASSUME Inv, phase = "Done", ~cancel
               PROVE  /\ \A f \in Rows \ unwritten : db[f].group > 0 <=> Key[f] # 0
                      /\ \A f, g \in Rows \ unwritten :
                           Key[f] = Key[g] <=> db[f].group = db[g].group
    BY DEF GroupsAreTitles
  <2>1. \A f \in Titled \ unwritten : db[f].group = Cardinality(KeysUpTo(Titled, f))
    BY DEF Inv, GroupInv, GroupOf, KeysUpTo
  <2>2. Titled \in SUBSET Files
    BY DEF Titled, Rows
  <2>3. \A f \in Titled \ unwritten : db[f].group \in 1 .. Cardinality(Files)
    BY <2>1, <2>2, Ranks
  <2>4. \A f, g \in Titled \ unwritten : Key[f] = Key[g] <=> db[f].group = db[g].group
    BY <2>1, <2>2, Ranks
  <2>5. Cardinality(Files) \in Nat
    BY CatalogAssumption, FS_CardinalityType
  <2>6. \A f \in Titled \ unwritten : db[f].group > 0 /\ db[f].group # 0 /\ Key[f] # 0
    BY <2>3, <2>5 DEF Titled
  <2>7. \A f \in Rows \ Titled : db[f].group = 0 /\ Key[f] = 0
    BY DEF Inv, GroupInv, Titled
  <2> QED BY <2>4, <2>6, <2>7
<1> QED BY <1>1, InitInv, NextInv, PTL DEF Spec
=============================================================================
