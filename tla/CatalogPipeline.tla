--------------------------- MODULE CatalogPipeline ---------------------------
(***************************************************************************)
(* The ROM catalogue: a scan discovers the files under the roots, a pool   *)
(* of threads probes those whose modification time is new and upserts them *)
(* into an SQLite table, and a last pass numbers the groups of titles.     *)
(* Files in archives are read through the single-slot archive cache of the *)
(* virtual file system, which the GUI fills by browsing.  Meanwhile files  *)
(* change on disk, the user quits, and the program may die at any point:   *)
(* the table survives, all else does not.                                  *)
(*                                                                         *)
(* A container is a plain file or an archive, and is known by the          *)
(* modification times, in whole seconds, of the versions of its contents   *)
(* so far: several may share a second, and a copy may bring an old time.   *)
(* What a probe finds out about a file is known by the version of the data *)
(* it read, or as Unread: a file that cannot be read is stored without.    *)
(* Every operation of the store and of the cache is one critical section.  *)
(***************************************************************************)
EXTENDS Integers, Sequences, FiniteSets

CONSTANTS
  Containers,    \* Seq: what the directory iterator returns, in order
  FilesOf,       \* FilesOf[c]: Seq of the ROM files of container c
  Archives,      \* the containers that are archives
  Key,           \* Key[f]: normalize_title of the file's name; 0 if nothing is left
  Pool,          \* the extra probing threads
  AtFirst,       \* AtFirst[c]: the times of container c's versions at first
  Seconds,       \* Seconds[c]: the modification times container c may bear
  Locked,        \* the containers that cannot be read at times
  Untimed,       \* the containers whose modification time cannot be had at times
  Refused,       \* the files whose row the table may refuse to take
  MaxVersion     \* bound: MaxVersion[c], the last version of container c

Main     == "main"                           \* run_pipeline's own thread
Workers  == Pool \cup {Main}
Container == {Containers[i] : i \in DOMAIN Containers}
Files    == DOMAIN Key
Holds(c, f) == \E i \in DOMAIN FilesOf[c] : FilesOf[c][i] = f
HomeOf(f) == CHOOSE c \in Container : Holds(c, f)

(* A path has one container, and roots that do not overlap list it once.   *)
ASSUME CatalogAssumption ==
  /\ Main \notin Pool /\ IsFiniteSet(Pool) /\ IsFiniteSet(Files)
  /\ Archives \subseteq Container
  /\ Locked \cup Untimed \subseteq Container /\ Refused \subseteq Files
  /\ Containers \in Seq(DOMAIN FilesOf)
  /\ \A i, j \in DOMAIN Containers : Containers[i] = Containers[j] => i = j
  /\ \A c \in Container : /\ FilesOf[c] \in Seq(Files) /\ MaxVersion[c] \in Nat \ {0}
                          /\ Seconds[c] \subseteq Nat \ {0}
                          /\ AtFirst[c] \in Seq(Seconds[c]) /\ Len(AtFirst[c]) <= MaxVersion[c]
  /\ \A f \in Files : Key[f] \in Nat /\ \E c \in Container : Holds(c, f)
  /\ \A c, d \in Container, f \in Files : Holds(c, f) /\ Holds(d, f) => c = d

VARIABLES
  disk,                       \* the times of every container's versions so far
  db,                         \* the table entries
  cache,                      \* ArchiveCache: archive_path and raw_data
  program,                    \* "running", "quitting", "closed", "terminated"
  worker,                     \* worker_: where run_pipeline is; "none": not joinable
  running, cancel, phase, files_probed, files_total,
  iter, discovered,           \* locals of run_pipeline and discover_files
  next_idx,                   \* of run_pipeline, shared with the pool
  pc, item, data, grouped,    \* the probing threads; assign_groups' loop
  unwritten                   \* history: files whose row this scan failed to write

pool     == <<next_idx, pc, item, data>>
progress == <<running, phase, files_probed, files_total>>
vars == <<disk, db, cache, program, worker, progress, cancel, iter,
          discovered, pool, grouped, unwritten>>

NoEntry == [mtime |-> -1, content |-> -1, fingerprint |-> -1, group |-> 0]
NoArchive == [path |-> "none", raw |-> -1]
NoItem  == 0
NoData  == [content |-> -1, fingerprint |-> -1]
Unread  == 0
NoTime  == 0
Total   == Len(discovered)
There(c) == disk[c] # <<>>
Mtime(c) == disk[c][Len(disk[c])]

Init ==
  /\ disk = [c \in Container |-> AtFirst[c]]
  /\ db = [f \in Files |-> NoEntry]
  /\ cache = NoArchive
  /\ program = "running"
  /\ worker = "none" /\ running = FALSE /\ cancel = FALSE /\ phase = "Idle"
  /\ files_probed = 0 /\ files_total = 0
  /\ iter = 1 /\ discovered = <<>> /\ next_idx = 1
  /\ pc = [w \in Workers |-> "idle"]
  /\ item = [w \in Workers |-> NoItem] /\ data = [w \in Workers |-> NoData]
  /\ grouped = {} /\ unwritten = {}

(* A program that ends leaves the table and the files. *)
Forget ==
  /\ cache' = NoArchive
  /\ worker' = "none" /\ running' = FALSE /\ cancel' = FALSE /\ phase' = "Idle"
  /\ files_probed' = 0 /\ files_total' = 0
  /\ iter' = 1 /\ discovered' = <<>> /\ next_idx' = 1
  /\ pc' = [w \in Workers |-> "idle"]
  /\ item' = [w \in Workers |-> NoItem] /\ data' = [w \in Workers |-> NoData]
  /\ grouped' = {} /\ unwritten' = {}
  /\ UNCHANGED <<disk, db>>

------------------------------------------------------------------------------
(* Reading: what a file yields; ArchiveCache::ensure, which forgets what   *)
(* it has before it reads; and vfs_read_file, which goes to the disk when  *)
(* the cache could not be filled or the file not be extracted from it.     *)
FileData(c) == {Len(disk[c])} \cup (IF c \in Locked THEN {Unread} ELSE {})

Ensured(c) ==
  IF cache.path = c THEN {cache}
  ELSE {IF v = Unread THEN NoArchive ELSE [path |-> c, raw |-> v] : v \in FileData(c)}

Readings(c) ==
  IF c \notin Archives THEN {[cache |-> cache, found |-> v] : v \in FileData(c)}
  ELSE {[cache |-> k, found |-> k.raw] : k \in Ensured(c) \ {NoArchive}}
         \cup {[cache |-> k, found |-> v] : k \in Ensured(c), v \in FileData(c)}

------------------------------------------------------------------------------
(* GUI thread and environment *)

Modify(c) ==
  /\ Len(disk[c]) < MaxVersion[c]
  /\ \E s \in Seconds[c] : disk' = [disk EXCEPT ![c] = Append(@, s)]
  /\ UNCHANGED <<db, cache, program, worker, progress, cancel, iter,
                 discovered, pool, grouped, unwritten>>

(* A file browser or a loader looks into an archive. *)
Browse(c) ==
  /\ program = "running" /\ c \in Archives /\ There(c)
  /\ cache' \in Ensured(c)
  /\ UNCHANGED <<disk, db, program, worker, progress, cancel, iter,
                 discovered, pool, grouped, unwritten>>

(* A system switch flushes the cache. *)
FlushCache ==
  /\ program = "running" /\ cache # NoArchive
  /\ cache' = NoArchive
  /\ UNCHANGED <<disk, db, program, worker, progress, cancel, iter,
                 discovered, pool, grouped, unwritten>>

(* Assigning a thread to worker_ while worker_ is joinable terminates the  *)
(* program.                                                                *)
Start ==
  /\ program = "running" /\ ~running /\ worker = "none"
  /\ running' = TRUE /\ phase' = "Discovery"
  /\ files_probed' = 0 /\ files_total' = 0
  /\ worker' = "discover" /\ iter' = 1 /\ discovered' = <<>> /\ unwritten' = {}
  /\ UNCHANGED <<disk, db, cache, program, cancel, pool, grouped>>

StartAgain ==
  /\ program = "running" /\ ~running /\ worker # "none"
  /\ program' = "terminated"
  /\ Forget

Quit ==
  /\ program = "running"
  /\ program' = "quitting"
  /\ cancel' = TRUE
  /\ UNCHANGED <<disk, db, cache, worker, progress, iter, discovered, pool,
                 grouped, unwritten>>

JoinedUnchecked == worker = "finished"
Joined == worker \in {"none", "finished"}

(* stop() joined worker_. *)
QuitJoined ==
  /\ program = "quitting" /\ Joined
  /\ program' = "closed"
  /\ Forget

Dies ==
  /\ program \in {"running", "quitting"}
  /\ program' = "terminated"
  /\ Forget

Launch ==
  /\ program \in {"closed", "terminated"}
  /\ program' = "running"
  /\ UNCHANGED <<disk, db, cache, worker, progress, cancel, iter, discovered,
                 pool, grouped, unwritten>>

------------------------------------------------------------------------------
(* run_pipeline *)

Alive == program \in {"running", "quitting"}

Finish == phase' = "Done" /\ worker' = "finish"

(* One directory entry: a file, or the contents of an archive, with the    *)
(* modification time read before anything else is.  A time that cannot be  *)
(* had is 0, and an archive that cannot be read has no contents.           *)
Times(c) == {Mtime(c)} \cup (IF c \in Untimed THEN {NoTime} ELSE {})
Listed(c) == IF c \in Locked \cap Archives THEN {<<>>, FilesOf[c]} ELSE {FilesOf[c]}

Discover ==
  /\ Alive /\ worker = "discover" /\ ~cancel /\ iter <= Len(Containers)
  /\ LET c == Containers[iter] IN
     IF There(c)
       THEN \E m \in Times(c), files \in Listed(c) :
              discovered' = discovered \o [j \in DOMAIN files |->
                                             [file |-> files[j], mtime |-> m]]
       ELSE UNCHANGED discovered
  /\ iter' = iter + 1
  /\ UNCHANGED <<disk, db, cache, program, worker, progress, cancel, pool,
                 grouped, unwritten>>

EndDiscovery ==
  /\ Alive /\ worker = "discover" /\ (cancel \/ iter > Len(Containers))
  /\ files_total' = Total
  /\ IF cancel
       THEN Finish /\ UNCHANGED pool
       ELSE /\ phase' = "Probing" /\ worker' = "probe"
            /\ next_idx' = 1
            /\ pc' = [w \in Workers |-> "take"]
            /\ UNCHANGED <<item, data>>
  /\ UNCHANGED <<disk, db, cache, program, running, files_probed, cancel, iter,
                 discovered, grouped, unwritten>>

(* Joining the pool, after its own share of the work. *)
PoolJoined == \A w \in Workers : pc[w] = "done"

EndProbing ==
  /\ Alive /\ worker = "probe" /\ PoolJoined
  /\ IF cancel
       THEN Finish /\ UNCHANGED grouped
       ELSE phase' = "Grouping" /\ worker' = "group" /\ grouped' = {}
  /\ pc' = [w \in Workers |-> "idle"]
  /\ UNCHANGED <<disk, db, cache, program, running, files_probed, files_total,
                 cancel, iter, discovered, next_idx, item, data, unwritten>>

(* assign_groups: the rows that have a title, ordered by it, numbered from *)
(* 1 and written back one by one.                                          *)
Rows   == {f \in Files : db[f] # NoEntry}
Titled == {f \in Rows : Key[f] # 0}

GroupKept(f) == IF db[f].group > 0 THEN db[f].group
                ELSE Cardinality({Key[g] : g \in {h \in Titled : Key[h] <= Key[f]}})
GroupOf(f) == Cardinality({Key[g] : g \in {h \in Titled : Key[h] <= Key[f]}})

(* upsert_entry says whether it wrote the row, and nobody listens. *)
Upsert(f, entry) ==
  \/ db' = [db EXCEPT ![f] = entry] /\ UNCHANGED unwritten
  \/ f \in Refused /\ unwritten' = unwritten \cup {f} /\ UNCHANGED db

Group ==
  /\ Alive /\ worker = "group"
  /\ \E f \in Titled \ grouped :
       /\ \A g \in Titled \ grouped : Key[f] <= Key[g]
       /\ Upsert(f, [db[f] EXCEPT !.group = GroupOf(f)])
       /\ grouped' = grouped \cup {f}
  /\ UNCHANGED <<disk, cache, program, worker, progress, cancel, iter,
                 discovered, pool>>

EndGrouping ==
  /\ Alive /\ worker = "group" /\ grouped = Titled
  /\ Finish
  /\ UNCHANGED <<disk, db, cache, program, running, files_probed, files_total,
                 cancel, iter, discovered, pool, grouped, unwritten>>

(* finish() ends with running_; the thread stays joinable. *)
RunningAtEnd == FALSE

EndPipeline ==
  /\ Alive /\ worker = "finish"
  /\ running' = RunningAtEnd
  /\ worker' = "finished"
  /\ UNCHANGED <<disk, db, cache, program, phase, files_probed, files_total,
                 cancel, iter, discovered, pool, grouped, unwritten>>

------------------------------------------------------------------------------
(* The probing threads *)

NextIdxTwice == next_idx + 2
NextIdx == next_idx + 1

Take(w) ==
  /\ Alive /\ pc[w] = "take"
  /\ next_idx' = NextIdx
  /\ IF next_idx > Total \/ cancel
       THEN pc' = [pc EXCEPT ![w] = "done"] /\ UNCHANGED item
       ELSE pc' = [pc EXCEPT ![w] = "check"] /\ item' = [item EXCEPT ![w] = next_idx]
  /\ UNCHANGED <<disk, db, cache, program, worker, progress, cancel, iter,
                 discovered, data, grouped, unwritten>>

Item(w) == discovered[item[w]]

(* needs_probe: not in the table, or another modification time. *)
NeedsProbe(w) == db[Item(w).file].mtime # Item(w).mtime

Check(w) ==
  /\ Alive /\ pc[w] = "check"
  /\ pc' = [pc EXCEPT ![w] = IF NeedsProbe(w) THEN "read" ELSE "count"]
  /\ UNCHANGED <<disk, db, cache, program, worker, progress, cancel, iter,
                 discovered, next_idx, item, data, grouped, unwritten>>

(* Reading the file to identify it. *)
Read(w) ==
  /\ Alive /\ pc[w] = "read"
  /\ \E x \in Readings(HomeOf(Item(w).file)) :
       /\ data' = [data EXCEPT ![w].content = x.found]
       /\ cache' = x.cache
  /\ pc' = [pc EXCEPT ![w] = "fingerprint"]
  /\ UNCHANGED <<disk, db, program, worker, progress, cancel, iter, discovered,
                 next_idx, item, grouped, unwritten>>

(* compute_fingerprint reads it again. *)
Fingerprint(w) ==
  /\ Alive /\ pc[w] = "fingerprint"
  /\ \E x \in Readings(HomeOf(Item(w).file)) :
       /\ data' = [data EXCEPT ![w].fingerprint = x.found]
       /\ cache' = x.cache
  /\ pc' = [pc EXCEPT ![w] = "store"]
  /\ UNCHANGED <<disk, db, program, worker, progress, cancel, iter, discovered,
                 next_idx, item, grouped, unwritten>>

(* The whole row is written, its group number as in a new entry. *)
MtimeWhenStored(w) == Mtime(HomeOf(Item(w).file))
StoredMtime(w) == Item(w).mtime

Store(w) ==
  /\ Alive /\ pc[w] = "store"
  /\ Upsert(Item(w).file,
            [mtime |-> StoredMtime(w), content |-> data[w].content,
             fingerprint |-> data[w].fingerprint, group |-> 0])
  /\ data' = [data EXCEPT ![w] = NoData]
  /\ pc' = [pc EXCEPT ![w] = "count"]
  /\ UNCHANGED <<disk, cache, program, worker, progress, cancel, iter,
                 discovered, next_idx, item, grouped>>

Count(w) ==
  /\ Alive /\ pc[w] = "count"
  /\ files_probed' = files_probed + 1
  /\ item' = [item EXCEPT ![w] = NoItem]
  /\ pc' = [pc EXCEPT ![w] = "take"]
  /\ UNCHANGED <<disk, db, cache, program, worker, running, phase, files_total,
                 cancel, iter, discovered, next_idx, data, grouped, unwritten>>

------------------------------------------------------------------------------
Probe(w) == \/ Take(w) \/ Check(w) \/ Read(w) \/ Fingerprint(w) \/ Store(w)
            \/ Count(w)

Pipeline == \/ Discover \/ EndDiscovery \/ EndProbing \/ Group \/ EndGrouping
            \/ EndPipeline

Next == \/ \E c \in Container : Modify(c) \/ Browse(c)
        \/ FlushCache \/ Start \/ StartAgain \/ Quit \/ QuitJoined \/ Dies \/ Launch
        \/ Pipeline
        \/ \E w \in Workers : Probe(w)

Spec == Init /\ [][Next]_vars

(* Threads are scheduled. *)
FairSpec == /\ Spec
            /\ WF_vars(Pipeline) /\ WF_vars(QuitJoined)
            /\ \A w \in Workers : WF_vars(Probe(w))

------------------------------------------------------------------------------
Version == UNION {0 .. MaxVersion[c] : c \in Container}
Seen    == Version \cup {-1}
Time    == {NoTime} \cup UNION {Seconds[c] : c \in Container}
EntryType == [mtime : Time \cup {-1}, content : Seen, fingerprint : Seen,
              group : 0 .. Cardinality(Files)]

TypeOK ==
  /\ disk \in [Container -> Seq(Time \ {NoTime})]
  /\ \A c \in Container : Len(disk[c]) <= MaxVersion[c]
  /\ db \in [Files -> EntryType]
  /\ cache \in [path : Archives, raw : Version] \cup {NoArchive}
  /\ program \in {"running", "quitting", "closed", "terminated"}
  /\ worker \in {"none", "discover", "probe", "group", "finish", "finished"}
  /\ running \in BOOLEAN /\ cancel \in BOOLEAN
  /\ phase \in {"Idle", "Discovery", "Probing", "Grouping", "Done"}
  /\ files_probed \in 0 .. Total /\ files_total \in 0 .. Total
  /\ iter \in 1 .. Len(Containers) + 1
  /\ discovered \in Seq([file : Files, mtime : Time])
  /\ next_idx \in 1 .. Total + Cardinality(Workers) + 1
  /\ pc \in [Workers -> {"idle", "take", "check", "read", "fingerprint",
                         "store", "count", "done"}]
  /\ item \in [Workers -> 0 .. Total]
  /\ data \in [Workers -> [content : Seen, fingerprint : Seen]]
  /\ grouped \subseteq Files /\ unwritten \subseteq Refused

(* The pool probes every discovered file once: what was handed out is what *)
(* has been counted and what the threads have in hand, no index twice, and *)
(* when grouping begins every file is counted and its row, unless the      *)
(* table refused it, has the time the discovery saw (the shared next_idx   *)
(* of run_pipeline).                                                       *)
Held == {w \in Workers : item[w] # NoItem}

EachFileOnce ==
  /\ \A v, w \in Held : item[v] = item[w] => v = w
  /\ worker = "probe" /\ ~cancel =>
       files_probed + Cardinality(Held)
         = IF next_idx > Total THEN Total ELSE next_idx - 1
  /\ phase = "Grouping" =>
       /\ files_probed = files_total
       /\ \A i \in DOMAIN discovered : discovered[i].file \notin unwritten =>
            db[discovered[i].file].mtime = discovered[i].mtime

(* A row whose modification time is the file's, and tells the file's       *)
(* present contents from all it had before, was made from the present      *)
(* contents, both times they were read, or is without them: if not,        *)
(* needs_probe would skip it for ever.  Of plain files, which no cache     *)
(* stands in front of (discover_files before probe_and_store).             *)
Tells(c) == \A v \in 1 .. Len(disk[c]) - 1 : disk[c][v] # Mtime(c)

PlainFilesCurrent ==
  \A f \in Files : LET c == HomeOf(f) IN
     c \notin Archives /\ There(c) /\ db[f].mtime = Mtime(c) /\ Tells(c) =>
       {db[f].content, db[f].fingerprint} \subseteq {Unread, Len(disk[c])}

(* After a scan that was not cancelled two rows share a group exactly if   *)
(* they share a title, those left without a title the group 0, whatever    *)
(* numbers earlier scans, dead or complete, left in the table, unless it   *)
(* refused a row (assign_groups).                                          *)
GroupsAreTitles ==
  phase = "Done" /\ ~cancel =>
    /\ \A f \in Rows \ unwritten : db[f].group > 0 <=> Key[f] # 0
    /\ \A f, g \in Rows \ unwritten : Key[f] = Key[g] <=> db[f].group = db[g].group

(* A scan ends: the pool runs out of files, or is cancelled, or dies with  *)
(* the program.  And quitting ends: stop() cancels whatever the scan is    *)
(* doing and joins, unless the program dies first.                         *)
ScansAndQuitsEnd ==
  /\ running ~> ~running \/ ~Alive
  /\ program = "quitting" ~> program \in {"closed", "terminated"}

(* The program ends only by quitting: a rescan does not end it (the Rescan *)
(* button, session_gui.cpp).                                               *)
RescanIsSafe == [][~StartAgain]_vars
==============================================================================
