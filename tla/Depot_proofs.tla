---------------------------- MODULE Depot_proofs ----------------------------
(***************************************************************************)
(* Proofs about Depot.  The type invariant is proved for every value of    *)
(* the constants; what a run leaves on disk, what is journaled and what is *)
(* fetched, for a directory that nobody else writes to, builds that are    *)
(* each installed before another is asked for, and crashes anywhere but in *)
(* the sweep, if old versions are moved aside when they are first met or   *)
(* no run is killed in its work (Retried below; the runs MCDepotAside,     *)
(* MCDepotBack, MCDepotStale and MCDepotCrash show why).  The last section *)
(* does without the first two and asks for runs that end by themselves     *)
(* (Orderly).                                                              *)
(***************************************************************************)
EXTENDS Depot, TLAPS

----------------------------------------------------------------------------
(***************************************************************************)
(* The inductive invariant.                                                *)
(***************************************************************************)
\* What the loops have before and behind them; with it TypeOK is inductive.
Shape ==
  /\ pc = "stale" =>
       IF prev = NoBuild THEN files = {}
                         ELSE files \subseteq FilesOf(prev) \ FilesOf(gid)
  /\ pc \in {"prepare", "create"} =>
       /\ files \subseteq FilesOf(gid) \ rewrite
       /\ current # NoFile => current \in FilesOf(gid) \ (rewrite \cup files)
  /\ pc \notin {"stale", "prepare", "create"} => files = {}
  /\ pc \in {"idle", "stale"} => rewrite = {}
  /\ rewrite # {} => /\ rewrite \subseteq FilesOf(gid)
                     /\ \A f \in rewrite : SizeIs(disk[f], Len(Manifest[gid][f]))
  /\ order # {} => pc = "classify"
  /\ todo # {} => pc \notin {"idle", "stale", "prepare", "create"}
  /\ memory # {} => pc \notin {"idle", "stale", "prepare", "create"}
  /\ fetching # {} => pc = "work"
  /\ writing # {} => pc \in {"classify", "work"}
  /\ left # {} => pc \in {"classify", "work"}
  /\ \A t \in left :
       t \in Places(gid) /\ t[1] \in rewrite /\ ChunkAt(gid, t) \in writing

Typed == TypeOK /\ Shape

\* What stashOld can tell a half-written file from an old version by: a file
\* that changes was not empty, and one that keeps its size can be moved.  The
\* old version of a file is then moved aside by the first run that meets it, if
\* it ever is.
MovedAtOnce ==
  \A f \in Files, b, d \in Builds :
    Manifest[b][f] # Absent /\ Manifest[d][f] # Absent /\ Manifest[b][f] # Manifest[d][f] =>
      /\ Manifest[b][f] # <<>>
      /\ f \in MoveCanFail => Len(Manifest[b][f]) # Len(Manifest[d][f])

\* Every run that touches a file of its build lives to save its journal.
NoneKilled == CrashAt \subseteq {"stale", "save"} /\ ~SaveCanFail

\* The retry discipline: nobody writes to the directory between two runs, a
\* build that was begun is brought to its end, the process does not die in the
\* sweep; and a resumed run moves no half-written file aside, or lives to tell.
Retried ==
  /\ ~MaySwitch /\ ~MayTamper
  /\ "sweep" \notin CrashAt /\ "clear" \notin CrashAt
  /\ MovedAtOnce \/ NoneKilled

\* Which build is being installed, from which, and whose the journal is.
Ledger ==
  /\ wanted = NoBuild =>
       /\ pc = "idle" /\ journal = NoJournal
       /\ \A f \in Files : stash[f] = Absent
       /\ saved # NoBuild => \A f \in FilesOf(saved) : disk[f] = Manifest[saved][f]
  /\ pc # "idle" => wanted = gid /\ prev = saved
  /\ journal.gid \in {NoBuild, wanted}
  /\ pc \in {"stale", "prepare", "create", "classify"} =>
       IF resuming THEN journal.gid = gid /\ journal.done = done
                   ELSE journal.gid = NoBuild /\ done = {}
  /\ pc = "save" => journal = NoJournal
  /\ snapshot # NoJournal => pc \in {"work", "stopping"} /\ snapshot.gid = gid

HadBefore(f) == saved # NoBuild /\ Manifest[saved][f] # Absent

\* A file the build does not change keeps its content throughout.
Kept ==
  wanted # NoBuild =>
    \A f \in FilesOf(wanted) :
      HadBefore(f) /\ Manifest[saved][f] = Manifest[wanted][f] =>
        disk[f] = Manifest[wanted][f]

\* A file that changes without changing its size, and can be moved, has been
\* moved aside before it was first written to, and its old version stays there.
Aside ==
  wanted # NoBuild =>
    \A f \in FilesOf(wanted) :
      /\ HadBefore(f) /\ f \notin MoveCanFail
      /\ Manifest[saved][f] # Manifest[wanted][f]
      /\ Len(Manifest[saved][f]) = Len(Manifest[wanted][f])
      => /\ stash[f] # Absent \/ SizeIs(disk[f], Len(Manifest[wanted][f]))
         /\ pc \notin {"sweep", "clear", "save"}
              /\ (journal.gid # NoBuild \/ f \in rewrite \/ f = current)
            => stash[f] # Absent

\* Behind the loop over the files of the build, each has its size, and is
\* written to unless it did not change.
Prepared ==
  pc \notin {"idle", "stale"} =>
    \A f \in FilesOf(gid) :
      \/ f \in files \/ f = current
      \/ /\ f \in rewrite \/ (HadBefore(f) /\ Manifest[saved][f] = Manifest[gid][f])
         /\ SizeIs(disk[f], Len(Manifest[gid][f]))

\* With a journal saved every file has its size, so none is moved aside.
Sizes ==
  MovedAtOnce /\ journal.gid # NoBuild =>
    \A f \in FilesOf(journal.gid) :
      SizeIs(disk[f], Len(Manifest[journal.gid][f]))

\* In d, block t has its chunk of build b; chunk c is everywhere b has it.
Holds(d, b, t) == BlockAt(d[t[1]], t[2]) = ChunkAt(b, t)
OnDisk(d, b, c) == \A t \in Places(b) : ChunkAt(b, t) = c => Holds(d, b, t)

\* Files that are not as the interrupted run left them.
FreshFiles ==
  MovedAtOnce \/ ~resuming \/ pc \in {"idle", "stale"} => fresh = {}

\* Chunks the journal names, saved, in memory or on their way to the file.
Journaled ==
  /\ journal.gid # NoBuild =>
       \A t \in Places(journal.gid) :
         ChunkAt(journal.gid, t) \in journal.done =>
           t[1] \in fresh \/ Holds(disk, journal.gid, t)
  /\ snapshot.gid # NoBuild => \A c \in snapshot.done : OnDisk(disk, snapshot.gid, c)
  /\ \A c \in memory : OnDisk(disk, gid, c)
  /\ \A c \in writing : \A t \in Targets(c) : t \in left \/ Holds(disk, gid, t)

\* Unless a worker failed, no chunk of a file to write is forgotten.
Accounted ==
  /\ pc \notin {"idle", "stale", "prepare", "create"} /\ ~cancelled =>
       \A c \in Chunks : Targets(c) # {} =>
         c \in order \cup todo \cup fetching \cup writing \cup memory
  /\ pc \in {"stopping", "lastFlush", "sweep", "clear", "save"} =>
       cancelled \/ todo = {}
  /\ pc \in {"sweep", "clear", "save"} => ~cancelled

\* A file that goes away is never in two places, and behind the first loop
\* it is not at its path.
Gone ==
  wanted # NoBuild =>
    \A f \in Files :
      HadBefore(f) /\ Manifest[wanted][f] = Absent =>
        /\ stash[f] # Absent => disk[f] = Absent
        /\ pc # "idle" /\ (pc = "stale" => f \notin files) => disk[f] = Absent

\* The old versions are all gone when the journal goes.
SweptClean ==
  pc \in {"clear", "save"} => \A f \in Files : stash[f] = Absent

Inv ==
  /\ Typed /\ Ledger /\ Kept /\ Aside /\ Prepared /\ Sizes /\ FreshFiles
  /\ Journaled /\ Accounted /\ Gone /\ SweptClean

----------------------------------------------------------------------------
(***************************************************************************)
(* Places, and the type invariant.                                         *)
(***************************************************************************)
LEMMA FilesOfBuild ==
  ASSUME NEW b \in Builds, NEW f \in FilesOf(b)
  PROVE  /\ f \in Files /\ Manifest[b][f] \in Seq(Chunks)
         /\ DOMAIN Manifest[b][f] = 1..Len(Manifest[b][f])
         /\ Len(Manifest[b][f]) \in Nat
BY ConstantsAssumption DEF ConstantsAssumption, FilesOf

LEMMA PlaceOf ==
  ASSUME NEW b \in Builds, NEW t \in Places(b)
  PROVE  /\ t = <<t[1], t[2]>> /\ t[1] \in FilesOf(b)
         /\ t[2] \in 1..Len(Manifest[b][t[1]]) /\ t[2] \in Nat
         /\ ChunkAt(b, t) \in Chunks
<1>1. PICK f \in FilesOf(b) : t \in {f} \X DOMAIN Manifest[b][f]
  BY DEF Places
<1>2. t = <<f, t[2]>> /\ t[1] = f /\ t[2] \in DOMAIN Manifest[b][f]
  BY <1>1
<1>3. t[2] \in 1..Len(Manifest[b][f]) /\ Manifest[b][f] \in Seq(Chunks)
  BY <1>2, FilesOfBuild
<1>4. t[2] \in Nat /\ Manifest[b][f][t[2]] \in Chunks
  BY <1>3, FilesOfBuild
<1> QED
  BY <1>1, <1>2, <1>3, <1>4 DEF ChunkAt

LEMMA PlaceIn ==
  ASSUME NEW b \in Builds, NEW f \in FilesOf(b),
         NEW i \in 1..Len(Manifest[b][f])
  PROVE  /\ <<f, i>> \in Places(b) /\ <<f, i>>[1] = f /\ <<f, i>>[2] = i
         /\ ChunkAt(b, <<f, i>>) = Manifest[b][f][i]
BY FilesOfBuild DEF Places, ChunkAt

LEMMA TruncateType ==
  ASSUME NEW s \in Content \cup {Absent}, NEW n \in Nat
  PROVE  /\ Truncate(s, n) \in Content /\ SizeIs(Truncate(s, n), n)
         /\ SizeIs(s, n) => Truncate(s, n) = s
         /\ Truncate(s, n) # Absent
<1>1. \A i \in 1..n : s # Absent /\ i <= Len(s) => s[i] \in Chunks \cup {Zero}
  BY DEF Content
<1>2. Truncate(s, n) \in [1..n -> Chunks \cup {Zero}]
  BY <1>1 DEF Truncate
<1>3. Truncate(s, n) \in Content /\ Len(Truncate(s, n)) = n
  BY <1>2 DEF Content
<1>4. Truncate(s, n) # Absent
  BY <1>3, ConstantsAssumption DEF ConstantsAssumption
<1>5. ASSUME SizeIs(s, n) PROVE Truncate(s, n) = s
  <2>1. s \in Seq(Chunks \cup {Zero}) /\ Len(s) = n /\ s # Absent
    BY <1>5 DEF SizeIs, Content
  <2>2. s = [i \in 1..n |-> s[i]]
    BY <2>1
  <2>3. \A i \in 1..n : i <= Len(s)
    BY <2>1
  <2> QED BY <2>1, <2>2, <2>3 DEF Truncate
<1> QED
  BY <1>3, <1>4, <1>5 DEF SizeIs

LEMMA TypedInit == Init => Typed
<1> SUFFICES ASSUME Init PROVE Typed
  OBVIOUS
<1> USE DEF Init, ProcessInit
<1>1. resuming \in BOOLEAN /\ cancelled \in BOOLEAN
  BY Zenon
<1>2. disk \in [Files -> Content \cup {Absent}]
  <2>1. CASE disk \in [Files -> Leftovers]
    BY <2>1, ConstantsAssumption DEF ConstantsAssumption
  <2>2. CASE saved \in Builds /\ disk = Manifest[saved]
    <3>1. Manifest[saved] \in [Files -> Seq(Chunks) \cup {Absent}]
      BY <2>2, ConstantsAssumption DEF ConstantsAssumption
    <3>2. Seq(Chunks) \subseteq Seq(Chunks \cup {Zero})
      OBVIOUS
    <3> QED BY <2>2, <3>1, <3>2 DEF Content
  <2> QED BY <2>1, <2>2
<1>3. /\ journal \in Journal /\ snapshot \in Journal /\ runs \in 0..MaxRuns
  BY ConstantsAssumption DEF ConstantsAssumption, Journal, NoJournal
<1>4. /\ stash \in [Files -> Content \cup {Absent}]
      /\ saved \in Builds \cup {NoBuild}
  OBVIOUS
<1>5. TypeOK
  BY <1>1, <1>2, <1>3, <1>4 DEF TypeOK
<1>6. Shape
  BY DEF Shape
<1> QED
  BY <1>5, <1>6 DEF Typed
LEMMA Running ==
  ASSUME TypeOK, pc # "idle"
  PROVE  gid \in Builds
<1>1. gid \in Builds \cup {NoBuild} /\ ((gid = NoBuild) <=> (pc = "idle"))
  BY DEF TypeOK
<1> QED BY <1>1

LEMMA TypedEnds ==
  ASSUME ProcessEnds,
         disk' \in [Files -> Content \cup {Absent}],
         stash' \in [Files -> Content \cup {Absent}],
         saved' \in Builds \cup {NoBuild}, journal' \in Journal,
         wanted' \in Builds \cup {NoBuild}, runs' \in 0..MaxRuns
  PROVE  Typed'
<1> USE DEF ProcessEnds
<1>1. resuming' \in BOOLEAN /\ cancelled' \in BOOLEAN
  BY Zenon
<1>2. snapshot' \in Journal
  BY DEF Journal, NoJournal
<1>3. TypeOK'
  BY <1>1, <1>2 DEF TypeOK
<1>4. Shape'
  BY DEF Shape
<1> QED
  BY <1>3, <1>4 DEF Typed

LEMMA TypedStart ==
  ASSUME Typed, NEW b \in Builds, Start(b)
  PROVE  Typed'
<1> USE ConstantsAssumption DEF ConstantsAssumption, Start, Stale, Typed, TypeOK, durable,
        workers
<1>1. resuming' \in BOOLEAN /\ cancelled' \in BOOLEAN
  <2>1. resuming' = (journal.gid = b) /\ cancelled' = cancelled
    BY DEF JournalMatches
  <2> QED BY <2>1, Zenon
<1>2. done' \subseteq Chunks
  BY DEF Journal
<1>3. prev' \in Builds \cup {NoBuild} /\ gid' = b
  BY DEF PreviousFor
<1>4. files' \subseteq Files
  BY DEF FilesOf
<1>5. runs' \in 0..MaxRuns /\ pc' = "stale" /\ pc = "idle"
  OBVIOUS
<1>6. /\ UNCHANGED <<disk, stash, saved, journal, snapshot, current, oldFiles,
                     byName, fresh, rewrite, order, todo, fetching, writing,
                     left, memory>>
      /\ wanted' = b
  OBVIOUS
<1>7. TypeOK'
  BY <1>1, <1>2, <1>3, <1>4, <1>5, <1>6
<1>8. Shape'
  BY <1>3, <1>5, <1>6 DEF Shape
<1> QED
  BY <1>7, <1>8

LEMMA TypedPrepare ==
  ASSUME Typed,
         \/ \E f \in Files : RemoveStale(f) \/ KeepFile(f) \/ MoveAside(f)
         \/ StaleRemoved \/ CreateFile \/ AllPrepared
  PROVE  Typed'
<1> USE DEF Typed, durable, workers, target
<1>1. ASSUME NEW f \in Files, RemoveStale(f) PROVE Typed'
  <2>1. disk' \in [Files -> Content \cup {Absent}] /\ stash' \in [Files -> Content \cup {Absent}]
    BY <1>1 DEF RemoveStale, TypeOK, MoveToStash
  <2>2. TypeOK'
    BY <1>1, <2>1 DEF RemoveStale, TypeOK
  <2>3. Shape'
    BY <1>1 DEF RemoveStale, Shape
  <2> QED BY <2>2, <2>3
<1>2. ASSUME NEW f \in Files, KeepFile(f) PROVE Typed'
  <2>1. TypeOK'
    BY <1>2 DEF KeepFile, TypeOK
  <2>2. Shape'
    BY <1>2 DEF KeepFile, Shape
  <2> QED BY <2>1, <2>2
<1>3. ASSUME NEW f \in Files, MoveAside(f) PROVE Typed'
  <2>1. /\ disk' \in [Files -> Content \cup {Absent}] /\ stash' \in [Files -> Content \cup {Absent}]
        /\ \A g \in Files : g # f => disk'[g] = disk[g]
    BY <1>3 DEF MoveAside, TypeOK, MoveToStash
  <2>2. /\ pc = "prepare" /\ pc' = "create" /\ f \in files /\ files' = files \ {f}
        /\ current' = f /\ oldFiles' \subseteq Files /\ byName' \subseteq Files
        /\ fresh' \subseteq Files
    BY <1>3 DEF MoveAside, TypeOK
  <2>3. UNCHANGED <<saved, journal, wanted, runs, gid, prev, resuming, done, rewrite, order,
                    todo, fetching, writing, left, memory, cancelled, snapshot>>
    BY <1>3 DEF MoveAside
  <2>4. TypeOK'
    BY <2>1, <2>2, <2>3, ConstantsAssumption DEF TypeOK, ConstantsAssumption
  <2>5. Shape'
    BY <2>1, <2>2, <2>3 DEF Shape, TypeOK
  <2> QED BY <2>4, <2>5
<1>4. CASE StaleRemoved
  <2>1. TypeOK'
    BY <1>4 DEF StaleRemoved, TypeOK, FilesOf
  <2>2. Shape'
    BY <1>4 DEF StaleRemoved, Shape, TypeOK
  <2> QED BY <2>1, <2>2
<1>5. CASE CreateFile
  <2>1. /\ pc = "create" /\ pc' = "prepare" /\ current # NoFile /\ current \in Files
        /\ gid \in Builds /\ current \in FilesOf(gid) \ (rewrite \cup files)
    <3>1. pc = "create" /\ pc' = "prepare"
      BY <1>5 DEF CreateFile
    <3>2. gid \in Builds
      BY <3>1, Running
    <3>3. ((current # NoFile) <=> (pc = "create")) /\ current \in Files \cup {NoFile}
      BY DEF TypeOK
    <3> QED BY <3>1, <3>2, <3>3 DEF Shape
  <2> DEFINE new == Truncate(disk[current], Len(Manifest[gid][current]))
  <2>2. new \in Content /\ SizeIs(new, Len(Manifest[gid][current]))
    BY <2>1, FilesOfBuild, TruncateType DEF TypeOK
  <2>3. disk' = [disk EXCEPT ![current] = new]
    BY <1>5 DEF CreateFile
  <2> HIDE DEF new
  <2>4. /\ disk' \in [Files -> Content \cup {Absent}]
        /\ disk'[current] = new /\ \A g \in Files : g # current => disk'[g] = disk[g]
    BY <2>1, <2>2, <2>3 DEF TypeOK
  <2>5. /\ rewrite' = rewrite \cup {current} /\ current' = NoFile
        /\ UNCHANGED <<stash, saved, journal, wanted, runs, gid, prev, resuming, done,
                       files, oldFiles, byName, fresh, order, todo, fetching, writing,
                       left, memory, cancelled, snapshot>>
    BY <1>5 DEF CreateFile
  <2>6. TypeOK'
    BY <2>1, <2>4, <2>5 DEF TypeOK
  <2>7. Shape'
    BY <2>1, <2>2, <2>4, <2>5 DEF Shape, TypeOK
  <2> QED BY <2>6, <2>7
<1>6. CASE AllPrepared
  <2>1. order' \subseteq Chunks
    <3>1. pc = "prepare" /\ gid \in Builds
      BY <1>6, Running DEF AllPrepared
    <3> QED BY <1>6, <3>1, PlaceOf DEF AllPrepared
  <2>2. TypeOK'
    BY <1>6, <2>1 DEF AllPrepared, TypeOK
  <2>3. Shape'
    BY <1>6 DEF AllPrepared, Shape, TypeOK
  <2> QED BY <2>2, <2>3
<1> QED
  BY <1>1, <1>2, <1>3, <1>4, <1>5, <1>6
LEMMA TargetsOf ==
  ASSUME TypeOK, pc # "idle", NEW c \in Chunks, NEW t \in Targets(c)
  PROVE  /\ t \in Places(gid) /\ t[1] \in rewrite /\ ChunkAt(gid, t) = c
         /\ t \in Files \X Nat /\ gid \in Builds /\ t = <<t[1], t[2]>>
         /\ t[1] \in FilesOf(gid) /\ t[2] \in 1..Len(Manifest[gid][t[1]])
<1>1. t \in Places(gid) /\ t[1] \in rewrite /\ ChunkAt(gid, t) = c
  BY DEF Targets
<1>2. gid \in Builds
  BY Running
<1>3. /\ t = <<t[1], t[2]>> /\ t[1] \in FilesOf(gid)
      /\ t[2] \in 1..Len(Manifest[gid][t[1]]) /\ t[2] \in Nat
  BY <1>1, <1>2, PlaceOf
<1>4. t[1] \in Files
  BY <1>3 DEF FilesOf
<1>5. t \in Files \X Nat
  BY <1>3, <1>4
<1> QED
  BY <1>1, <1>2, <1>3, <1>5

LEMMA TypedClassify ==
  ASSUME Typed,
         \/ \E c \in Chunks : SkipChunk(c) \/ ReuseChunk(c) \/ LeaveToFetch(c)
         \/ AllClassified
  PROVE  Typed'
<1> USE DEF Typed, durable, workers, target, loops, Turn
<1>1. ASSUME NEW c \in Chunks, SkipChunk(c) PROVE Typed'
  <2>1. TypeOK'
    BY <1>1 DEF SkipChunk, TypeOK
  <2>2. Shape'
    BY <1>1 DEF SkipChunk, Shape
  <2> QED BY <2>1, <2>2
<1>2. ASSUME NEW c \in Chunks, ReuseChunk(c) PROVE Typed'
  <2>1. pc = "classify"
    BY <1>2 DEF ReuseChunk
  <2>2. \A t \in Targets(c) : t \in Places(gid) /\ t[1] \in rewrite /\ t \in Files \X Nat
                           /\ ChunkAt(gid, t) = c
    BY <2>1, TargetsOf
  <2>3. left' = Targets(c) /\ writing' = {c}
    BY <1>2 DEF ReuseChunk
  <2>4. TypeOK'
    BY <1>2, <2>2, <2>3 DEF ReuseChunk, TypeOK
  <2>5. Shape'
    BY <1>2, <2>1, <2>2, <2>3 DEF ReuseChunk, Shape
  <2> QED BY <2>4, <2>5
<1>3. ASSUME NEW c \in Chunks, LeaveToFetch(c) PROVE Typed'
  <2>1. TypeOK'
    BY <1>3 DEF LeaveToFetch, TypeOK
  <2>2. Shape'
    BY <1>3 DEF LeaveToFetch, Shape
  <2> QED BY <2>1, <2>2
<1>4. CASE AllClassified
  <2>1. TypeOK'
    BY <1>4 DEF AllClassified, TypeOK
  <2>2. Shape'
    BY <1>4 DEF AllClassified, Shape, TypeOK
  <2> QED BY <2>1, <2>2
<1> QED
  BY <1>1, <1>2, <1>3, <1>4

LEMMA TypedWorker ==
  ASSUME Typed, NEW c \in Chunks, StartFetch(c) \/ Worker(c)
  PROVE  Typed'
<1> USE DEF Typed, durable, workers, target, loops
<1>1. CASE StartFetch(c)
  <2>1. TypeOK'
    BY <1>1 DEF StartFetch, TypeOK
  <2>2. Shape'
    BY <1>1 DEF StartFetch, Shape
  <2> QED BY <2>1, <2>2
<1>2. CASE FetchSucceeds(c)
  <2>1. pc = "work"
    BY <1>2 DEF FetchSucceeds, Shape
  <2>2. \A t \in Targets(c) : t \in Places(gid) /\ t[1] \in rewrite /\ t \in Files \X Nat
                           /\ ChunkAt(gid, t) = c
    BY <2>1, TargetsOf
  <2>3. left' = left \cup Targets(c)
    BY <1>2 DEF FetchSucceeds
  <2>4. TypeOK'
    BY <1>2, <2>2, <2>3 DEF FetchSucceeds, TypeOK
  <2>5. Shape'
    BY <1>2, <2>1, <2>2, <2>3 DEF FetchSucceeds, Shape
  <2> QED BY <2>4, <2>5
<1>3. CASE FetchFails(c)
  <2>1. TypeOK'
    BY <1>3 DEF FetchFails, TypeOK
  <2>2. Shape'
    BY <1>3 DEF FetchFails, Shape
  <2> QED BY <2>1, <2>2
<1>4. CASE WriteFails(c)
  <2>1. TypeOK'
    BY <1>4 DEF WriteFails, TypeOK
  <2>2. Shape'
    <3>1. \A t \in left : t \notin Targets(c) => ChunkAt(gid, t) # c
      BY DEF Shape, Targets
    <3> QED BY <1>4, <3>1 DEF WriteFails, Shape
  <2> QED BY <2>1, <2>2
<1>5. CASE Record(c)
  <2>1. TypeOK'
    BY <1>5 DEF Record, TypeOK
  <2>2. Shape'
    <3>1. \A t \in left : ChunkAt(gid, t) # c
      BY <1>5 DEF Shape, Targets, Record, Written
    <3> QED BY <1>5, <3>1 DEF Record, Shape
  <2> QED BY <2>1, <2>2
<1>6. ASSUME c \in writing, NEW t \in Targets(c), WriteTarget(t) PROVE Typed'
  <2>1. pc \in {"classify", "work"}
    BY <1>6 DEF Shape
  <2>2. /\ t[1] \in rewrite /\ ChunkAt(gid, t) = c /\ gid \in Builds /\ t[1] \in Files
        /\ t[1] \in FilesOf(gid) /\ t[2] \in 1..Len(Manifest[gid][t[1]])
    BY <2>1, TargetsOf DEF TypeOK
  <2> DEFINE s == [disk[t[1]] EXCEPT ![t[2]] = c]
  <2>3. disk' = [disk EXCEPT ![t[1]] = s]
    BY <1>6, <2>2 DEF WriteTarget
  <2>4. SizeIs(disk[t[1]], Len(Manifest[gid][t[1]])) /\ disk[t[1]] \in Content
    BY <2>2 DEF Shape, SizeIs, TypeOK
  <2>5. s \in Content /\ Len(s) = Len(disk[t[1]]) /\ s # Absent
    <3>1. s \in Content /\ Len(s) = Len(disk[t[1]])
      BY <2>2, <2>4 DEF Content, SizeIs
    <3> QED BY <3>1, ConstantsAssumption DEF ConstantsAssumption
  <2> HIDE DEF s
  <2>6. /\ disk' \in [Files -> Content \cup {Absent}]
        /\ SizeIs(disk'[t[1]], Len(Manifest[gid][t[1]]))
        /\ \A g \in Files : g # t[1] => disk'[g] = disk[g]
    BY <2>2, <2>3, <2>4, <2>5 DEF SizeIs, TypeOK
  <2>7. /\ left' = left \ {t}
        /\ UNCHANGED <<stash, saved, journal, wanted, runs, pc, gid, prev, resuming,
                       done, files, current, oldFiles, byName, fresh, rewrite, order,
                       todo, fetching, writing, memory, cancelled, snapshot>>
    BY <1>6 DEF WriteTarget
  <2>8. TypeOK'
    BY <2>6, <2>7 DEF TypeOK
  <2>9. Shape'
    BY <2>6, <2>7 DEF Shape, TypeOK
  <2> QED BY <2>8, <2>9
<1> QED
  BY <1>1, <1>2, <1>3, <1>4, <1>5, <1>6 DEF Worker

LEMMA TypedEnd ==
  ASSUME Typed,
         \/ FlushTick \/ FlushEnds \/ FlusherStops \/ WorkersDone
         \/ LastFlush \/ Swept \/ ClearJournal \/ Save \/ Crash \/ Forget
         \/ \E f \in Files : Sweep(f) \/ Tamper(f)
  PROVE  Typed'
<1> USE DEF Typed, durable, workers, target, loops
<1>1. CASE FlushTick
  <2>1. snapshot' \in Journal
    BY <1>1 DEF FlushTick, Journal, TypeOK
  <2>2. TypeOK'
    BY <1>1, <2>1 DEF FlushTick, TypeOK
  <2>3. Shape'
    BY <1>1 DEF FlushTick, Shape
  <2> QED BY <2>2, <2>3
<1>2. CASE FlushEnds
  <2>1. snapshot' \in Journal /\ journal' \in Journal
    BY <1>2 DEF FlushEnds, SavesJournal, Journal, NoJournal, TypeOK
  <2>2. TypeOK'
    BY <1>2, <2>1 DEF FlushEnds, TypeOK
  <2>3. Shape'
    BY <1>2 DEF FlushEnds, Shape
  <2> QED BY <2>2, <2>3
<1>3. CASE FlusherStops
  <2>1. TypeOK'
    BY <1>3 DEF FlusherStops, TypeOK
  <2>2. Shape'
    BY <1>3 DEF FlusherStops, Shape
  <2> QED BY <2>1, <2>2
<1>4. CASE WorkersDone
  <2>1. TypeOK'
    BY <1>4 DEF WorkersDone, TypeOK
  <2>2. writing = {} /\ fetching = {}
    BY <1>4 DEF WorkersDone, AllReturned
  <2>3. left = {}
    BY <2>2 DEF Shape
  <2>4. Shape'
    BY <1>4, <2>2, <2>3 DEF WorkersDone, Shape
  <2> QED BY <2>1, <2>4
<1>5. CASE LastFlush
  <2>1. journal' \in Journal
    BY <1>5 DEF LastFlush, SavesJournal, Journal, TypeOK
  <2> QED BY <1>5, <2>1, TypedEnds DEF LastFlush, TypeOK
<1>6. CASE Swept
  <2>1. TypeOK'
    BY <1>6 DEF Swept, TypeOK
  <2>2. Shape'
    BY <1>6 DEF Swept, Shape
  <2> QED BY <2>1, <2>2
<1>7. CASE ClearJournal
  <2>1. TypeOK'
    BY <1>7 DEF ClearJournal, TypeOK, Journal, NoJournal
  <2>2. Shape'
    BY <1>7 DEF ClearJournal, Shape
  <2> QED BY <2>1, <2>2
<1>8. CASE Save
  BY <1>8, TypedEnds DEF Save, TypeOK
<1>9. CASE Crash
  BY <1>9, TypedEnds DEF Crash, TypeOK
<1>10. ASSUME NEW f \in Files, Sweep(f) PROVE Typed'
  <2>1. TypeOK'
    BY <1>10 DEF Sweep, TypeOK
  <2>2. Shape'
    BY <1>10 DEF Sweep, Shape
  <2> QED BY <2>1, <2>2
<1>11. ASSUME NEW f \in Files, Tamper(f) PROVE Typed'
  <2>1. disk' \in [Files -> Content \cup {Absent}]
    BY <1>11, ConstantsAssumption DEF Tamper, TypeOK, ConstantsAssumption
  <2>2. TypeOK'
    BY <1>11, <2>1 DEF Tamper, TypeOK
  <2>3. rewrite = {} /\ pc = "idle"
    BY <1>11 DEF Tamper, Shape
  <2>4. Shape'
    BY <1>11, <2>3 DEF Tamper, Shape
  <2> QED BY <2>2, <2>4
<1>12. CASE Forget
  <2>1. TypeOK'
    BY <1>12 DEF Forget, TypeOK
  <2>2. Shape'
    BY <1>12 DEF Forget, Shape
  <2> QED BY <2>1, <2>2
<1> QED
  BY <1>1, <1>2, <1>3, <1>4, <1>5, <1>6, <1>7, <1>8, <1>9, <1>10, <1>11, <1>12
LEMMA TypedNext == Typed /\ [Next]_vars => Typed'
<1> SUFFICES ASSUME Typed, [Next]_vars PROVE Typed'
  OBVIOUS
<1>1. CASE \E b \in Builds : Start(b)
  BY <1>1, TypedStart
<1>2. CASE Main
  BY <1>2, TypedPrepare, TypedClassify, TypedWorker, TypedEnd DEF Main
<1>3. CASE \E c \in Chunks : Worker(c)
  BY <1>3, TypedWorker
<1>4. CASE \/ FlushTick \/ FlushEnds \/ FlusherStops \/ Crash \/ Forget
           \/ \E f \in Files : Tamper(f)
  BY <1>4, TypedEnd
<1>5. CASE UNCHANGED vars
  <2>1. TypeOK'
    BY <1>5 DEF Typed, TypeOK, vars, durable, loops, workers, target
  <2>2. Shape'
    BY <1>5 DEF Typed, Shape, vars, durable, loops, workers, target
  <2> QED BY <2>1, <2>2 DEF Typed
<1> QED
  BY <1>1, <1>2, <1>3, <1>4, <1>5 DEF Next

\* Every variable always holds a value of its kind, whatever the builds, the
\* crashes and the changes made between runs.
THEOREM TypeCorrect == Spec => []TypeOK
<1>1. Typed => TypeOK
  BY DEF Typed
<1> QED
  BY <1>1, TypedInit, TypedNext, PTL DEF Spec

----------------------------------------------------------------------------
(***************************************************************************)
(* What a step does to the files of the build being installed.             *)
(***************************************************************************)
\* A file of b that had its size or a chunk in its place still does.
Preserves(b) ==
  \A f \in FilesOf(b) :
    /\ SizeIs(disk[f], Len(Manifest[b][f])) => SizeIs(disk'[f], Len(Manifest[b][f]))
    /\ \A i \in 1..Len(Manifest[b][f]) :
         BlockAt(disk[f], i) = Manifest[b][f][i] =>
           BlockAt(disk'[f], i) = Manifest[b][f][i]

LEMMA PreservesHolds ==
  ASSUME NEW b \in Builds, Preserves(b), NEW t \in Places(b), Holds(disk, b, t)
  PROVE  Holds(disk', b, t)
<1>1. t[1] \in FilesOf(b) /\ t[2] \in 1..Len(Manifest[b][t[1]])
  BY PlaceOf
<1> QED
  BY <1>1 DEF Holds, ChunkAt, Preserves

LEMMA PreservesOnDisk ==
  ASSUME NEW b \in Builds, Preserves(b), NEW c, OnDisk(disk, b, c)
  PROVE  OnDisk(disk', b, c)
<1> SUFFICES ASSUME NEW t \in Places(b), ChunkAt(b, t) = c PROVE Holds(disk', b, t)
  BY DEF OnDisk
<1> QED
  BY PreservesHolds DEF OnDisk

\* Writing a chunk where the build has it disturbs nothing that is in place.
LEMMA WritePreserves ==
  ASSUME Typed, NEW c \in Chunks, c \in writing, NEW t \in Targets(c), WriteTarget(t)
  PROVE  /\ Preserves(gid) /\ Holds(disk', gid, t)
         /\ t[1] \in rewrite /\ t[1] \in FilesOf(gid) /\ gid \in Builds
         /\ t[1] \in Files /\ disk[t[1]] # Absent
         /\ \A g \in Files : g # t[1] => disk'[g] = disk[g]
<1>1. pc \in {"classify", "work"}
  BY DEF Typed, Shape
<1>2. /\ t[1] \in rewrite /\ ChunkAt(gid, t) = c /\ gid \in Builds /\ t[1] \in Files
      /\ t[1] \in FilesOf(gid) /\ t[2] \in 1..Len(Manifest[gid][t[1]])
  BY <1>1, TargetsOf DEF Typed, TypeOK
<1> DEFINE n == Len(Manifest[gid][t[1]])
           s == [disk[t[1]] EXCEPT ![t[2]] = c]
<1>3. SizeIs(disk[t[1]], n) /\ disk[t[1]] \in Content /\ n \in Nat
  BY <1>2, FilesOfBuild DEF Typed, Shape, SizeIs, TypeOK
<1>4. /\ Len(s) = n /\ s[t[2]] = c /\ s \in Content
      /\ \A i \in 1..n : i # t[2] => s[i] = disk[t[1]][i]
  BY <1>2, <1>3 DEF Content, SizeIs
<1>5. s # Absent
  BY <1>4, ConstantsAssumption DEF ConstantsAssumption
<1>6. disk' = [disk EXCEPT ![t[1]] = s]
  BY <1>2 DEF WriteTarget
<1> HIDE DEF s
<1>7. disk'[t[1]] = s /\ \A g \in Files : g # t[1] => disk'[g] = disk[g]
  BY <1>2, <1>6 DEF Typed, TypeOK
<1>8. \A i \in 1..n : /\ i <= Len(s) /\ i <= Len(disk[t[1]])
                      /\ BlockAt(s, i) = s[i] /\ BlockAt(disk[t[1]], i) = disk[t[1]][i]
  BY <1>3, <1>4, <1>5 DEF BlockAt, SizeIs
<1>9. s[t[2]] = Manifest[gid][t[1]][t[2]]
  BY <1>2, <1>4 DEF ChunkAt
<1>10. ASSUME NEW f \in FilesOf(gid), f # t[1] PROVE disk'[f] = disk[f]
  BY <1>7, <1>10 DEF FilesOf
<1>11. \A i \in 1..n : BlockAt(disk[t[1]], i) = Manifest[gid][t[1]][i] =>
                        BlockAt(s, i) = Manifest[gid][t[1]][i]
  <2> TAKE i \in 1..n
  <2> QED BY <1>4, <1>8, <1>9
<1>12. SizeIs(s, n)
  BY <1>4, <1>5 DEF SizeIs
<1>13. Preserves(gid)
  BY <1>7, <1>10, <1>11, <1>12 DEF Preserves
<1>14. Holds(disk', gid, t)
  BY <1>2, <1>4, <1>7, <1>8 DEF Holds
<1> QED
  BY <1>2, <1>3, <1>7, <1>13, <1>14 DEF SizeIs
\* With a journal saved, no file of the build is moved aside any more.
LEMMA NotMoved ==
  ASSUME MovedAtOnce, Inv, NEW f \in Files, MoveAside(f), journal.gid # NoBuild
  PROVE  disk' = disk
<1>1. /\ pc = "prepare" /\ f \in files /\ ~Unchanged(f)
  BY DEF MoveAside
<1>2. gid \in Builds
  BY <1>1, Running DEF Inv, Typed
<1>3. f \in FilesOf(gid) /\ wanted = gid /\ prev = saved /\ journal.gid = gid /\ resuming
  BY <1>1 DEF Inv, Typed, Shape, Ledger
<1>4. SizeIs(disk[f], Len(Manifest[gid][f]))
  BY <1>3 DEF Inv, Sizes
<1>5. CASE Old(f) = Absent
  BY <1>3, <1>5 DEF MoveAside
<1>6. CASE Old(f) # Absent /\ ~CanStash(f, Len(Old(f)))
  BY <1>6 DEF MoveAside
<1>7. CASE Old(f) # Absent /\ CanStash(f, Len(Old(f)))
  <2>1. saved \in Builds /\ Old(f) = Manifest[saved][f] /\ HadBefore(f)
    BY <1>3, <1>7 DEF Old, HadBefore, Inv, Typed, TypeOK
  <2>2. Manifest[saved][f] # Manifest[gid][f]
    BY <1>1, <1>4, <2>1 DEF Unchanged
  <2>3. stash[f] # Absent
    <3> SUFFICES ASSUME stash[f] = Absent PROVE FALSE
      OBVIOUS
    <3>1. Len(Manifest[saved][f]) = 0 \/ Len(disk[f]) = Len(Manifest[saved][f])
      BY <1>7, <2>1 DEF CanStash
    <3>2. CASE Len(Manifest[saved][f]) = 0
      <4>1. f \in FilesOf(saved)
        BY <2>1 DEF FilesOf, HadBefore
      <4>2. Manifest[saved][f] = <<>>
        BY <2>1, <3>2, <4>1, FilesOfBuild
      <4>3. Manifest[gid][f] # Absent /\ Manifest[saved][f] # Absent
        BY <1>3, <4>1 DEF FilesOf
      <4> QED BY <1>2, <2>1, <2>2, <4>2, <4>3 DEF MovedAtOnce
    <3>3. CASE Len(disk[f]) = Len(Manifest[saved][f])
      <4>1. Len(Manifest[saved][f]) = Len(Manifest[gid][f])
        BY <1>4, <3>3 DEF SizeIs
      <4>2. f \notin MoveCanFail
        BY <1>2, <1>3, <2>1, <2>2, <4>1 DEF MovedAtOnce, FilesOf, HadBefore
      <4> QED BY <1>1, <1>2, <1>3, <2>1, <2>2, <4>1, <4>2, ConstantsAssumption
              DEF Inv, Aside, ConstantsAssumption
    <3> QED BY <3>1, <3>2, <3>3
  <2> QED BY <2>3 DEF MoveAside, MoveToStash
<1> QED
  BY <1>5, <1>6, <1>7

LEMMA NotTruncated ==
  ASSUME Inv, CreateFile, SizeIs(disk[current], Len(Manifest[gid][current]))
  PROVE  disk' = disk
<1>1. current \in FilesOf(gid) /\ gid \in Builds
  <2>1. pc = "create"
    BY DEF CreateFile
  <2>2. current # NoFile
    BY <2>1 DEF Inv, Typed, TypeOK
  <2> QED BY <2>1, <2>2, Running DEF Inv, Typed, Shape
<1>2. current \in Files /\ disk[current] \in Content \cup {Absent}
      /\ Len(Manifest[gid][current]) \in Nat
  BY <1>1, FilesOfBuild DEF Inv, Typed, TypeOK
<1>3. Truncate(disk[current], Len(Manifest[gid][current])) = disk[current]
  BY <1>2, TruncateType
<1> QED
  BY <1>2, <1>3 DEF CreateFile, Inv, Typed, TypeOK

LEMMA SamePreserves == ASSUME NEW b, disk' = disk PROVE Preserves(b)
BY DEF Preserves

Moves == CreateFile \/ \E f \in Files : MoveAside(f)

\* In every step but the two that move a file aside and create it anew, and in
\* those too once a journal is saved, if old versions are moved at once.
LEMMA DiskKept ==
  ASSUME Retried, Inv, Next, wanted # NoBuild,
         (MovedAtOnce /\ journal.gid # NoBuild) \/ ~Moves
  PROVE  Preserves(wanted)
<1> USE DEF durable, workers, target, loops
<1>1. ASSUME NEW f \in Files, RemoveStale(f) PROVE Preserves(wanted)
  <2>1. f \notin FilesOf(wanted)
    BY <1>1 DEF RemoveStale, Inv, Typed, Shape, Ledger
  <2>2. \A g \in Files : g # f => disk'[g] = disk[g]
    BY <1>1 DEF RemoveStale, MoveToStash, Inv, Typed, TypeOK
  <2>3. \A g \in FilesOf(wanted) : disk'[g] = disk[g]
    BY <2>1, <2>2 DEF FilesOf
  <2> QED BY <2>3 DEF Preserves
<1>2. ASSUME NEW f \in Files, MoveAside(f) PROVE Preserves(wanted)
  <2>1. MovedAtOnce /\ journal.gid # NoBuild
    BY <1>2 DEF Moves
  <2> QED BY <1>2, <2>1, NotMoved, SamePreserves
<1>3. CASE CreateFile
  <2>1. MovedAtOnce /\ journal.gid # NoBuild /\ pc = "create"
    BY <1>3 DEF CreateFile, Moves
  <2>2. current \in FilesOf(gid) /\ journal.gid = gid
    BY <2>1 DEF Inv, Typed, TypeOK, Shape, Ledger
  <2>3. SizeIs(disk[current], Len(Manifest[gid][current]))
    BY <2>1, <2>2 DEF Inv, Sizes
  <2> QED BY <1>3, <2>3, NotTruncated, SamePreserves
<1>4. ASSUME NEW c \in Chunks, Worker(c) PROVE Preserves(wanted)
  <2>1. ASSUME c \in writing, NEW t \in Targets(c), WriteTarget(t) PROVE Preserves(wanted)
    <3>1. pc # "idle"
      BY <2>1 DEF Inv, Typed, Shape
    <3>2. wanted = gid
      BY <3>1 DEF Inv, Ledger
    <3> QED BY <2>1, <3>2, WritePreserves DEF Inv
  <2>2. CASE FetchSucceeds(c) \/ FetchFails(c) \/ WriteFails(c) \/ Record(c)
    BY <2>2, SamePreserves DEF FetchSucceeds, FetchFails, WriteFails, Record
  <2> QED BY <1>4, <2>1, <2>2 DEF Worker
<1>5. ASSUME NEW f \in Files, KeepFile(f) \/ Sweep(f) PROVE Preserves(wanted)
  BY <1>5, SamePreserves DEF KeepFile, Sweep
<1>6. ASSUME NEW c \in Chunks, SkipChunk(c) \/ ReuseChunk(c) \/ LeaveToFetch(c) \/ StartFetch(c)
      PROVE  Preserves(wanted)
  BY <1>6, SamePreserves DEF SkipChunk, ReuseChunk, LeaveToFetch, StartFetch
<1>7. CASE StaleRemoved \/ AllPrepared \/ AllClassified \/ WorkersDone \/ Swept
           \/ LastFlush \/ ClearJournal \/ Save
  BY <1>7, SamePreserves
     DEF StaleRemoved, AllPrepared, AllClassified, WorkersDone, Swept, LastFlush,
         ClearJournal, Save
<1>8. CASE FlushTick \/ FlushEnds \/ FlusherStops \/ Crash \/ Forget
  BY <1>8, SamePreserves DEF FlushTick, FlushEnds, FlusherStops, Crash, Forget
<1>9. ASSUME NEW f \in Files, Tamper(f) PROVE FALSE
  BY <1>9 DEF Tamper, Retried
<1>10. ASSUME NEW b \in Builds, Start(b) PROVE Preserves(wanted)
  BY <1>10, SamePreserves DEF Start
<1> QED
  BY <1>1, <1>2, <1>3, <1>4, <1>5, <1>6, <1>7, <1>8, <1>9, <1>10 DEF Next, Main
----------------------------------------------------------------------------
(***************************************************************************)
(* The parts of the invariant, one by one.                                 *)
(***************************************************************************)
LEMMA FileRight ==
  ASSUME NEW b \in Builds, NEW f \in FilesOf(b), NEW s \in Content \cup {Absent}
  PROVE  s = Manifest[b][f] <=>
           /\ SizeIs(s, Len(Manifest[b][f]))
           /\ \A i \in 1..Len(Manifest[b][f]) : BlockAt(s, i) = Manifest[b][f][i]
<1> DEFINE m == Manifest[b][f]
<1>1. m \in Seq(Chunks) /\ m # Absent /\ Len(m) \in Nat
  BY FilesOfBuild DEF FilesOf
<1> HIDE DEF m
<1>2. ASSUME s = m PROVE SizeIs(s, Len(m)) /\ \A i \in 1..Len(m) : BlockAt(s, i) = m[i]
  BY <1>1, <1>2 DEF SizeIs, BlockAt
<1>3. ASSUME SizeIs(s, Len(m)), \A i \in 1..Len(m) : BlockAt(s, i) = m[i]
      PROVE  s = m
  <2>1. s \in Seq(Chunks \cup {Zero}) /\ s # Absent /\ Len(s) = Len(m)
    BY <1>3 DEF SizeIs, Content
  <2>2. \A i \in 1..Len(m) : s[i] = m[i]
    BY <1>3, <2>1 DEF BlockAt
  <2> QED BY <1>1, <2>1, <2>2
<1> QED
  BY <1>2, <1>3 DEF m

\* A run that swept has the build on disk.
LEMMA MaterializedAtEnd ==
  ASSUME Inv, pc \in {"sweep", "clear", "save"}
  PROVE  \A f \in FilesOf(gid) : disk[f] = Manifest[gid][f]
<1>1. gid \in Builds /\ wanted = gid /\ prev = saved /\ gid # NoBuild
  BY Running, ConstantsAssumption DEF Inv, Typed, Ledger, ConstantsAssumption
<1>2. /\ ~cancelled /\ todo = {} /\ order = {} /\ fetching = {} /\ writing = {}
      /\ files = {}
  BY DEF Inv, Typed, Shape, Accounted
<1>3. current = NoFile
  <2>1. (current # NoFile) <=> (pc = "create")
    BY DEF Inv, Typed, TypeOK
  <2> QED BY <2>1
<1> SUFFICES ASSUME NEW f \in FilesOf(gid) PROVE disk[f] = Manifest[gid][f]
  OBVIOUS
<1>4. f \in Files /\ f # NoFile /\ disk[f] \in Content \cup {Absent}
  BY ConstantsAssumption DEF ConstantsAssumption, FilesOf, Inv, Typed, TypeOK
<1>5. /\ f \in rewrite \/ (HadBefore(f) /\ Manifest[saved][f] = Manifest[gid][f])
      /\ SizeIs(disk[f], Len(Manifest[gid][f]))
  BY <1>2, <1>3, <1>4 DEF Inv, Prepared
<1>6. CASE HadBefore(f) /\ Manifest[saved][f] = Manifest[gid][f]
  BY <1>1, <1>6 DEF Inv, Kept
<1>7. CASE f \in rewrite
  <2>1. ASSUME NEW i \in 1..Len(Manifest[gid][f])
        PROVE  BlockAt(disk[f], i) = Manifest[gid][f][i]
    <3> DEFINE t == <<f, i>>
               c == Manifest[gid][f][i]
    <3>1. t \in Places(gid) /\ ChunkAt(gid, t) = c /\ t[1] = f /\ t[2] = i
      BY <1>1, PlaceIn
    <3>2. c \in Chunks
      BY <1>1, <3>1, PlaceOf
    <3> HIDE DEF t, c
    <3>3. t \in Targets(c)
      BY <1>7, <3>1 DEF Targets
    <3>4. c \in memory
      BY <1>2, <3>2, <3>3 DEF Inv, Accounted
    <3>5. Holds(disk, gid, t)
      BY <3>1, <3>4 DEF Inv, Journaled, OnDisk
    <3> QED BY <3>1, <3>5 DEF Holds, c
  <2> QED BY <1>1, <1>4, <1>5, <2>1, FileRight
<1> QED
  BY <1>5, <1>6, <1>7

LEMMA InvInit == Init => Inv
<1> SUFFICES ASSUME Init PROVE Inv
  OBVIOUS
<1> USE DEF Init, ProcessInit
<1>1. Typed
  BY TypedInit
<1>2. journal.gid = NoBuild /\ snapshot.gid = NoBuild
  BY DEF NoJournal
<1>3. Ledger
  <2>1. ASSUME saved # NoBuild PROVE \A f \in FilesOf(saved) : disk[f] = Manifest[saved][f]
    BY <2>1
  <2> QED BY <1>2, <2>1 DEF Ledger
<1>4. Kept /\ Aside /\ Prepared /\ Sizes /\ FreshFiles /\ Gone /\ SweptClean
  BY <1>2 DEF Kept, Aside, Prepared, Sizes, FreshFiles, Gone, SweptClean
<1>5. Journaled /\ Accounted
  BY <1>2 DEF Journaled, Accounted
<1> QED
  BY <1>1, <1>3, <1>4, <1>5 DEF Inv
\* The build, its predecessor and the journal's, step by step.
LEMMA LedgerNext ==
  ASSUME Retried, Inv, Next
  PROVE  Ledger'
<1> USE DEF durable, workers, target, loops
<1>1. Ledger /\ ((gid = NoBuild) <=> (pc = "idle")) /\ Shape
  BY DEF Inv, Typed, TypeOK
<1>2. ASSUME NEW b \in Builds, Start(b) PROVE Ledger'
  <2>1. pc = "idle" /\ wanted \in {NoBuild, b} /\ wanted' = b /\ gid' = b /\ pc' = "stale"
        /\ UNCHANGED <<disk, stash, saved, journal, snapshot>>
    BY <1>2 DEF Start, Retried
  <2>2. b # NoBuild /\ journal.gid \in {NoBuild, b} /\ snapshot = NoJournal
    BY <1>1, <2>1, ConstantsAssumption DEF Ledger, ConstantsAssumption, NoJournal
  <2>3. prev' = saved
    BY <1>2, <2>2 DEF Start, PreviousFor
  <2>4. IF resuming' THEN journal.gid = b /\ journal.done = done'
                     ELSE journal.gid = NoBuild /\ done' = {}
    BY <1>2, <2>2 DEF Start, JournalMatches
  <2> QED BY <2>1, <2>2, <2>3, <2>4 DEF Ledger
<1>3. ASSUME ProcessEnds, UNCHANGED <<disk, stash, saved, wanted>>, wanted # NoBuild,
             journal'.gid \in {NoBuild, wanted}
      PROVE  Ledger'
  BY <1>3 DEF ProcessEnds, Ledger, NoJournal
<1>4. CASE Crash
  BY <1>1, <1>3, <1>4 DEF Crash, Ledger
<1>5. CASE LastFlush
  BY <1>1, <1>3, <1>5 DEF LastFlush, Ledger, SavesJournal
<1>6. CASE Save
  <2>1. \A f \in FilesOf(gid) : disk[f] = Manifest[gid][f]
    BY <1>6, MaterializedAtEnd DEF Save
  <2>2. \A f \in Files : stash[f] = Absent
    BY <1>6 DEF Save, Inv, SweptClean
  <2>3. journal = NoJournal
    BY <1>1, <1>6 DEF Save, Ledger
  <2> QED BY <1>6, <2>1, <2>2, <2>3 DEF Save, ProcessEnds, Ledger, NoJournal
<1>7. ASSUME NEW f \in Files, RemoveStale(f) \/ KeepFile(f) \/ MoveAside(f) \/ Sweep(f)
      PROVE Ledger'
  BY <1>1, <1>7 DEF RemoveStale, KeepFile, MoveAside, Sweep, Ledger
<1>8. ASSUME NEW c \in Chunks,
             \/ SkipChunk(c) \/ ReuseChunk(c) \/ LeaveToFetch(c) \/ StartFetch(c)
             \/ Worker(c)
      PROVE Ledger'
  <2>1. pc \notin {"idle"}
    BY <1>1, <1>8 DEF SkipChunk, ReuseChunk, LeaveToFetch, StartFetch, Worker, Turn, Shape,
       FetchSucceeds, FetchFails, WriteFails, Record
  <2>2. UNCHANGED <<stash, saved, journal, wanted, pc, gid, prev, resuming, done, snapshot>>
    BY <1>8 DEF SkipChunk, ReuseChunk, LeaveToFetch, StartFetch, Worker,
       FetchSucceeds, FetchFails, WriteFails, WriteTarget, Record
  <2> QED BY <1>1, <2>1, <2>2 DEF Ledger
<1>9. CASE StaleRemoved \/ CreateFile \/ AllPrepared \/ AllClassified \/ WorkersDone \/ Swept
  BY <1>1, <1>9
     DEF StaleRemoved, CreateFile, AllPrepared, AllClassified, WorkersDone, Swept, Ledger
<1>10. CASE ClearJournal
  BY <1>1, <1>10 DEF ClearJournal, Ledger, NoJournal
<1>11. CASE FlushTick
  BY <1>1, <1>11 DEF FlushTick, Ledger, FlusherRunning
<1>12. CASE FlushEnds
  <2>1. snapshot.gid \in Builds \cup {NoBuild}
    BY DEF Inv, Typed, TypeOK, Journal
  <2> QED BY <1>1, <1>12 DEF FlushEnds, Ledger, SavesJournal, NoJournal
<1>13. CASE FlusherStops
  BY <1>1, <1>13 DEF FlusherStops, Ledger, NoJournal
<1>14. ASSUME NEW f \in Files, Tamper(f) PROVE FALSE
  BY <1>14 DEF Tamper, Retried
<1>15. CASE Forget
  BY <1>1, <1>15 DEF Forget, Ledger
<1> QED
  BY <1>2, <1>4, <1>5, <1>6, <1>7, <1>8, <1>9, <1>10, <1>11, <1>12, <1>13, <1>14,
     <1>15
     DEF Next, Main
\* Steps within one run leave the build and its predecessor as they are.
LEMMA BuildKept ==
  ASSUME Retried, Inv, Next
  PROVE  \/ \E b \in Builds : Start(b)
         \/ Save
         \/ Forget
         \/ wanted' = wanted /\ saved' = saved
<1> USE DEF durable, workers, target, loops
<1>1. ASSUME NEW f \in Files, RemoveStale(f) \/ KeepFile(f) \/ MoveAside(f) \/ Sweep(f)
      PROVE wanted' = wanted /\ saved' = saved
  BY <1>1 DEF RemoveStale, KeepFile, MoveAside, Sweep
<1>2. ASSUME NEW c \in Chunks,
             \/ SkipChunk(c) \/ ReuseChunk(c) \/ LeaveToFetch(c) \/ StartFetch(c)
             \/ Worker(c)
      PROVE wanted' = wanted /\ saved' = saved
  BY <1>2 DEF SkipChunk, ReuseChunk, LeaveToFetch, StartFetch, Worker,
     FetchSucceeds, FetchFails, WriteFails, WriteTarget, Record
<1>3. CASE StaleRemoved \/ CreateFile \/ AllPrepared \/ AllClassified \/ WorkersDone \/ Swept
           \/ ClearJournal \/ LastFlush \/ FlushTick \/ FlushEnds \/ FlusherStops \/ Crash
  BY <1>3
     DEF StaleRemoved, CreateFile, AllPrepared, AllClassified, WorkersDone, Swept,
         ClearJournal, LastFlush, FlushTick, FlushEnds, FlusherStops, Crash
<1>4. ASSUME NEW f \in Files, Tamper(f) PROVE FALSE
  BY <1>4 DEF Tamper, Retried
<1> QED
  BY <1>1, <1>2, <1>3, <1>4 DEF Next, Main

LEMMA MovesPc == ASSUME Inv, Moves
                 PROVE  /\ pc \in {"prepare", "create"} /\ gid \in Builds /\ wanted = gid
                        /\ prev = saved /\ wanted' = wanted /\ saved' = saved
                        /\ gid' = gid /\ journal' = journal /\ rewrite \subseteq FilesOf(gid)
<1>1. /\ pc \in {"prepare", "create"} /\ wanted' = wanted /\ saved' = saved
      /\ gid' = gid /\ journal' = journal
  BY DEF Moves, CreateFile, MoveAside, target
<1> QED
  BY <1>1, Running DEF Inv, Typed, Ledger, Shape

LEMMA KeptNext ==
  ASSUME Retried, Inv, Next
  PROVE  Kept'
<1>1. CASE Save
  BY <1>1 DEF Save, Kept
<1>2. ASSUME NEW b \in Builds, Start(b) PROVE Kept'
  <2>1. wanted' = b /\ wanted \in {NoBuild, b} /\ UNCHANGED <<disk, saved>>
    BY <1>2 DEF Start, Retried, durable
  <2>2. CASE wanted = b
    BY <2>1, <2>2 DEF Inv, Kept, HadBefore
  <2>3. CASE wanted = NoBuild
    <3>1. saved # NoBuild => \A f \in FilesOf(saved) : disk[f] = Manifest[saved][f]
      BY <2>3 DEF Inv, Ledger
    <3> QED BY <2>1, <3>1 DEF Kept, HadBefore, FilesOf
  <2> QED BY <2>1, <2>2, <2>3
<1>3. CASE wanted' = wanted /\ saved' = saved
  <2> SUFFICES ASSUME wanted # NoBuild, NEW f \in FilesOf(wanted), HadBefore(f),
                      Manifest[saved][f] = Manifest[wanted][f]
               PROVE  disk'[f] = Manifest[wanted][f]
    BY <1>3 DEF Kept, HadBefore
  <2>1. disk[f] = Manifest[wanted][f] /\ wanted \in Builds /\ f \in Files
    BY DEF Inv, Kept, Typed, TypeOK, FilesOf
  <2>2. /\ disk[f] \in Content \cup {Absent} /\ disk'[f] \in Content \cup {Absent}
    BY <2>1, TypedNext DEF Inv, Typed, TypeOK
  <2>3. /\ SizeIs(disk[f], Len(Manifest[wanted][f]))
        /\ \A i \in 1..Len(Manifest[wanted][f]) : BlockAt(disk[f], i) = Manifest[wanted][f][i]
    BY <2>1, <2>2, FileRight
  <2>4. CASE ~Moves
    <3>1. Preserves(wanted)
      BY <2>4, DiskKept
    <3>2. /\ SizeIs(disk'[f], Len(Manifest[wanted][f]))
          /\ \A i \in 1..Len(Manifest[wanted][f]) : BlockAt(disk'[f], i) = Manifest[wanted][f][i]
      BY <2>3, <3>1 DEF Preserves
    <3> QED BY <2>1, <2>2, <3>2, FileRight
  <2>5. CASE CreateFile
    <3>1. CASE f = current
      <4>1. gid = wanted
        BY <2>5, MovesPc DEF Moves
      <4> QED BY <2>1, <2>3, <2>5, <3>1, <4>1, NotTruncated
    <3>2. CASE f # current
      BY <2>1, <2>5, <3>2 DEF CreateFile, Inv, Typed, TypeOK
    <3> QED BY <3>1, <3>2
  <2>6. ASSUME NEW g \in Files, MoveAside(g) PROVE disk'[f] = disk[f]
    <3>1. gid = wanted /\ prev = saved
      BY <2>6, MovesPc DEF Moves
    <3>2. Old(f) = Manifest[gid][f] /\ SizeIs(disk[f], Len(Old(f)))
      BY <2>3, <3>1 DEF Old, HadBefore
    <3>3. f # g
      BY <2>6, <3>2 DEF MoveAside, Unchanged
    <3> QED BY <2>1, <2>6, <3>3 DEF MoveAside, MoveToStash, Inv, Typed, TypeOK
  <2> QED BY <2>1, <2>4, <2>5, <2>6 DEF Moves
<1>4. CASE Forget
  BY <1>4 DEF Forget, Kept, HadBefore
<1> QED
  BY <1>1, <1>2, <1>3, <1>4, BuildKept

LEMMA PreparedNext ==
  ASSUME Retried, Inv, Next
  PROVE  Prepared'
<1> USE DEF durable, workers, target, loops
<1> DEFINE Done(f) == /\ f \in rewrite \/ (HadBefore(f) /\ Manifest[saved][f] = Manifest[gid][f])
                      /\ SizeIs(disk[f], Len(Manifest[gid][f]))
<1>1. CASE pc' \in {"idle", "stale"}
  BY <1>1 DEF Prepared
<1>2. CASE StaleRemoved
  BY <1>2 DEF StaleRemoved, Prepared
<1>3. ASSUME NEW g \in Files, KeepFile(g) PROVE Prepared'
  <2>1. /\ pc = "prepare" /\ pc' = pc /\ Unchanged(g) /\ files' = files \ {g}
        /\ UNCHANGED <<disk, rewrite, saved, gid, current>>
    BY <1>3 DEF KeepFile
  <2>2. prev = saved
    BY <2>1 DEF Inv, Ledger
  <2>3. g \in FilesOf(gid) => Done(g)
    BY <2>1, <2>2 DEF Unchanged, Old, HadBefore, FilesOf
  <2> QED BY <2>1, <2>3 DEF Inv, Prepared, HadBefore
<1>4. ASSUME NEW g \in Files, MoveAside(g) PROVE Prepared'
  <2>1. /\ pc = "prepare" /\ files' = files \ {g} /\ current' = g
        /\ UNCHANGED <<rewrite, saved, gid>>
    BY <1>4 DEF MoveAside
  <2>2. \A f \in Files : f # g => disk'[f] = disk[f]
    BY <1>4 DEF MoveAside, MoveToStash, Inv, Typed, TypeOK
  <2>3. current = NoFile
    BY <2>1 DEF Inv, Typed, TypeOK
  <2>4. \A f \in FilesOf(gid) : f \in Files /\ f # NoFile
    BY ConstantsAssumption DEF ConstantsAssumption, FilesOf
  <2> QED BY <2>1, <2>2, <2>3, <2>4 DEF Inv, Prepared, HadBefore
<1>5. CASE CreateFile
  <2>1. /\ pc = "create" /\ current' = NoFile /\ rewrite' = rewrite \cup {current}
        /\ UNCHANGED <<files, saved, gid>>
        /\ disk' = [disk EXCEPT ![current] =
                      Truncate(disk[current], Len(Manifest[gid][current]))]
    BY <1>5 DEF CreateFile
  <2>2. gid \in Builds /\ current \in FilesOf(gid) /\ current \in Files
    <3>1. current # NoFile
      BY <2>1 DEF Inv, Typed, TypeOK
    <3> QED BY <2>1, <3>1, Running DEF Inv, Typed, TypeOK, Shape
  <2>3. SizeIs(disk'[current], Len(Manifest[gid][current]))
    <3>1. disk[current] \in Content \cup {Absent} /\ Len(Manifest[gid][current]) \in Nat
      BY <2>2, FilesOfBuild DEF Inv, Typed, TypeOK
    <3>2. SizeIs(Truncate(disk[current], Len(Manifest[gid][current])),
                 Len(Manifest[gid][current]))
      BY <3>1, TruncateType
    <3> QED BY <2>1, <2>2, <3>2 DEF Inv, Typed, TypeOK
  <2>4. \A f \in Files : f # current => disk'[f] = disk[f]
    BY <2>1 DEF Inv, Typed, TypeOK
  <2>5. \A f \in FilesOf(gid) : f \in Files
    BY DEF FilesOf
  <2> QED BY <2>1, <2>2, <2>3, <2>4, <2>5 DEF Inv, Prepared, HadBefore
<1>6. CASE /\ pc \notin {"idle", "stale"} /\ ~Moves
           /\ UNCHANGED <<files, current, rewrite, saved, gid>>
  <2>1. wanted = gid /\ gid # NoBuild
    BY <1>6, ConstantsAssumption, Running DEF Inv, Typed, Ledger, ConstantsAssumption
  <2>2. Preserves(gid)
    BY <1>6, <2>1, DiskKept
  <2> QED BY <1>6, <2>2 DEF Inv, Prepared, Preserves, HadBefore
<1> DEFINE Alternatives ==
             \/ pc' \in {"idle", "stale"} \/ StaleRemoved \/ Moves
             \/ \E g \in Files : KeepFile(g)
             \/ /\ pc \notin {"idle", "stale"}
                /\ UNCHANGED <<files, current, rewrite, saved, gid>>
<1>7. Alternatives
  <2>1. ASSUME NEW f \in Files, RemoveStale(f) \/ Sweep(f) PROVE Alternatives
    BY <2>1 DEF RemoveStale, Sweep
  <2>2. ASSUME NEW c \in Chunks,
               \/ SkipChunk(c) \/ ReuseChunk(c) \/ LeaveToFetch(c) \/ StartFetch(c)
               \/ Worker(c)
        PROVE Alternatives
    BY <2>2 DEF SkipChunk, ReuseChunk, LeaveToFetch, StartFetch, Worker, Turn,
       FetchSucceeds, FetchFails, WriteFails, WriteTarget, Record, Inv, Typed, Shape
  <2>3. CASE AllPrepared \/ AllClassified \/ WorkersDone \/ Swept \/ ClearJournal
    BY <2>3 DEF AllPrepared, AllClassified, WorkersDone, Swept, ClearJournal
  <2>4. CASE Save \/ LastFlush \/ Crash \/ Forget \/ \E b \in Builds : Start(b)
    BY <2>4 DEF Save, LastFlush, Crash, Forget, Start, ProcessEnds
  <2>5. CASE FlushTick \/ FlushEnds \/ FlusherStops
    BY <2>5 DEF FlushTick, FlushEnds, FlusherStops, FlusherRunning, Inv, Ledger
  <2>6. ASSUME NEW f \in Files, Tamper(f) PROVE FALSE
    BY <2>6 DEF Tamper, Retried
  <2> QED BY <2>1, <2>2, <2>3, <2>4, <2>5, <2>6 DEF Next, Main, Moves
<1> QED
  BY <1>1, <1>2, <1>3, <1>4, <1>5, <1>6, <1>7 DEF Moves
\* In the sweep and after it there is only the rest of the run.
LEMMA LateStep ==
  ASSUME Retried, Inv, Next, pc \in {"sweep", "clear", "save"}
  PROVE  \/ pc = "sweep" /\ pc' \in {"sweep", "clear"}
         \/ pc = "clear" /\ ClearJournal
         \/ pc = "save" /\ (Save \/ Crash)
<1> USE DEF durable, workers, target, loops
<1>1. ASSUME NEW g \in Files, RemoveStale(g) \/ KeepFile(g) \/ MoveAside(g) \/ Sweep(g)
      PROVE  pc = "sweep" /\ pc' = "sweep"
  BY <1>1 DEF RemoveStale, KeepFile, MoveAside, Sweep
<1>2. ASSUME NEW c \in Chunks,
             \/ SkipChunk(c) \/ ReuseChunk(c) \/ LeaveToFetch(c) \/ StartFetch(c)
             \/ Worker(c)
      PROVE FALSE
  BY <1>2 DEF SkipChunk, ReuseChunk, LeaveToFetch, StartFetch, Worker, Turn,
     FetchSucceeds, FetchFails, WriteFails, WriteTarget, Record, Inv, Typed, Shape
<1>3. CASE FlushTick \/ FlushEnds \/ FlusherStops \/ \E b \in Builds : Start(b)
  BY <1>3 DEF FlushTick, FlushEnds, FlusherStops, FlusherRunning, Start, Inv, Ledger
<1>4. CASE StaleRemoved \/ CreateFile \/ AllPrepared \/ AllClassified \/ WorkersDone
           \/ LastFlush
  BY <1>4 DEF StaleRemoved, CreateFile, AllPrepared, AllClassified, WorkersDone, LastFlush
<1>5. CASE Swept \/ ClearJournal \/ Save \/ Crash \/ Forget
  BY <1>5 DEF Swept, ClearJournal, Save, Crash, Forget, Retried
<1>6. ASSUME NEW g \in Files, Tamper(g) PROVE FALSE
  BY <1>6 DEF Tamper, Retried
<1> QED
  BY <1>1, <1>2, <1>3, <1>4, <1>5, <1>6 DEF Next, Main

\* The stash of a file of the build is only ever filled, but for the sweep.
LEMMA StashKept ==
  ASSUME Retried, Inv, Next, NEW f \in FilesOf(wanted), wanted # NoBuild,
         stash[f] # Absent, pc # "sweep"
  PROVE  stash'[f] # Absent
<1> USE DEF durable, workers, target, loops
<1>1. f \in Files
  BY DEF FilesOf
<1>2. ASSUME NEW g \in Files, RemoveStale(g) \/ MoveAside(g) PROVE stash'[f] # Absent
  BY <1>1, <1>2 DEF RemoveStale, MoveAside, MoveToStash, Inv, Typed, TypeOK
<1>3. ASSUME NEW g \in Files, KeepFile(g) \/ Sweep(g) PROVE stash'[f] # Absent
  BY <1>3 DEF KeepFile, Sweep
<1>4. ASSUME NEW c \in Chunks,
             \/ SkipChunk(c) \/ ReuseChunk(c) \/ LeaveToFetch(c) \/ StartFetch(c)
             \/ Worker(c)
      PROVE stash'[f] # Absent
  BY <1>4 DEF SkipChunk, ReuseChunk, LeaveToFetch, StartFetch, Worker,
     FetchSucceeds, FetchFails, WriteFails, WriteTarget, Record
<1>5. CASE StaleRemoved \/ CreateFile \/ AllPrepared \/ AllClassified \/ WorkersDone \/ Swept
           \/ ClearJournal \/ LastFlush \/ FlushTick \/ FlushEnds \/ FlusherStops \/ Crash
           \/ Save \/ Forget
  BY <1>5
     DEF StaleRemoved, CreateFile, AllPrepared, AllClassified, WorkersDone, Swept,
         ClearJournal, LastFlush, FlushTick, FlushEnds, FlusherStops, Crash, Save, Forget
<1>6. ASSUME NEW b \in Builds, Start(b) PROVE stash'[f] # Absent
  BY <1>6 DEF Start
<1>7. ASSUME NEW g \in Files, Tamper(g) PROVE FALSE
  BY <1>7 DEF Tamper, Retried
<1> QED
  BY <1>2, <1>3, <1>4, <1>5, <1>6, <1>7 DEF Next, Main

\* A journal is saved when the files of its build are prepared.
LEMMA JournalSaved ==
  ASSUME Retried, Inv, Next, journal' # journal, journal'.gid # NoBuild
  PROVE  /\ FlushEnds \/ LastFlush
         /\ journal'.gid = gid /\ disk' = disk /\ stash' = stash
         /\ pc \in {"work", "stopping", "lastFlush"}
         /\ FlushEnds => journal' = snapshot
         /\ LastFlush => journal'.done = memory
<1> USE DEF durable, workers, target, loops
<1>1. ASSUME NEW f \in Files, RemoveStale(f) \/ KeepFile(f) \/ MoveAside(f) \/ Sweep(f)
      PROVE FALSE
  BY <1>1 DEF RemoveStale, KeepFile, MoveAside, Sweep
<1>2. ASSUME NEW c \in Chunks,
             \/ SkipChunk(c) \/ ReuseChunk(c) \/ LeaveToFetch(c) \/ StartFetch(c)
             \/ Worker(c)
      PROVE FALSE
  BY <1>2 DEF SkipChunk, ReuseChunk, LeaveToFetch, StartFetch, Worker,
     FetchSucceeds, FetchFails, WriteFails, WriteTarget, Record
<1>3. CASE StaleRemoved \/ CreateFile \/ AllPrepared \/ AllClassified \/ WorkersDone \/ Swept
           \/ ClearJournal \/ FlushTick \/ FlusherStops \/ Crash \/ Save \/ Forget
  BY <1>3
     DEF StaleRemoved, CreateFile, AllPrepared, AllClassified, WorkersDone, Swept,
         ClearJournal, FlushTick, FlusherStops, Crash, Save, Forget, NoJournal
<1>4. ASSUME NEW b \in Builds, Start(b) PROVE FALSE
  BY <1>4 DEF Start
<1>5. ASSUME NEW g \in Files, Tamper(g) PROVE FALSE
  BY <1>5 DEF Tamper, Retried
<1>6. CASE FlushEnds
  BY <1>6 DEF FlushEnds, LastFlush, SavesJournal, Inv, Ledger
<1>7. CASE LastFlush
  BY <1>7 DEF FlushEnds, LastFlush, SavesJournal, Inv, Ledger
<1> QED
  BY <1>1, <1>2, <1>3, <1>4, <1>5, <1>6, <1>7 DEF Next, Main, FlushEnds, LastFlush

\* Once the loops are over, a file of the build has its size, and was written
\* to or did not change.
LEMMA AllArePrepared ==
  ASSUME Inv, pc \notin {"idle", "stale", "prepare", "create"}, NEW f \in FilesOf(gid)
  PROVE  /\ f \in rewrite \/ (HadBefore(f) /\ Manifest[saved][f] = Manifest[gid][f])
         /\ SizeIs(disk[f], Len(Manifest[gid][f]))
<1>1. files = {} /\ current = NoFile /\ f # NoFile
  BY ConstantsAssumption
     DEF ConstantsAssumption, FilesOf, Inv, Typed, TypeOK, Shape
<1> QED
  BY <1>1 DEF Inv, Prepared

LEMMA JournalOfBuild ==
  ASSUME Retried, Inv, Next, journal.gid # NoBuild
  PROVE  /\ wanted \in Builds /\ journal.gid = wanted
         /\ MovedAtOnce \/ ~Moves => Preserves(wanted)
         /\ journal'.gid \in {NoBuild, journal.gid}
<1>1. wanted # NoBuild /\ journal.gid = wanted /\ wanted \in Builds
  BY DEF Inv, Ledger, NoJournal, Typed, TypeOK
<1>2. wanted' = wanted \/ Save
  BY <1>1, BuildKept DEF Start, Forget, Retried
<1>3. ~Save
  BY DEF Save, Inv, Ledger, NoJournal
<1>4. journal'.gid \in {NoBuild, wanted'}
  BY LedgerNext DEF Ledger
<1> QED
  BY <1>1, <1>2, <1>3, <1>4, DiskKept

LEMMA SizesNext ==
  ASSUME Retried, Inv, Next
  PROVE  Sizes'
<1> SUFFICES ASSUME MovedAtOnce, journal'.gid # NoBuild, NEW f \in FilesOf(journal'.gid)
             PROVE  SizeIs(disk'[f], Len(Manifest[journal'.gid][f]))
  BY DEF Sizes
<1>1. CASE journal.gid = NoBuild
  BY <1>1, JournalSaved, AllArePrepared
<1>2. CASE journal.gid # NoBuild
  BY <1>2, JournalOfBuild DEF Inv, Sizes, Preserves
<1> QED
  BY <1>1, <1>2

LEMMA FreshFilesNext ==
  ASSUME Retried, Inv, Next
  PROVE  FreshFiles'
<1> USE DEF durable, workers, target, loops
<1>1. ASSUME NEW f \in Files, MoveAside(f) PROVE FreshFiles'
  <2>1. pc = "prepare" /\ pc' = "create" /\ resuming' = resuming /\ f \in files
    BY <1>1 DEF MoveAside
  <2>2. CASE resuming /\ MovedAtOnce
    <3>1. gid \in Builds /\ f \in FilesOf(gid) /\ journal.gid = gid /\ journal.gid # NoBuild
      BY <2>1, <2>2, Running, ConstantsAssumption
         DEF ConstantsAssumption, Inv, Typed, Shape, Ledger
    <3>2. disk' = disk /\ SizeIs(disk[f], Len(Manifest[gid][f]))
      BY <1>1, <2>2, <3>1, NotMoved DEF Inv, Sizes
    <3>3. fresh' = fresh
      BY <1>1, <3>2 DEF MoveAside
    <3> QED BY <2>1, <2>2, <3>3 DEF Inv, FreshFiles
  <2>3. CASE ~resuming
    <3>1. fresh' = fresh
      BY <1>1, <2>3 DEF MoveAside
    <3> QED BY <2>1, <2>3, <3>1 DEF Inv, FreshFiles
  <2> QED BY <2>1, <2>2, <2>3 DEF FreshFiles
<1>2. ASSUME NEW f \in Files, RemoveStale(f) \/ KeepFile(f) \/ Sweep(f) PROVE FreshFiles'
  BY <1>2 DEF RemoveStale, KeepFile, Sweep, Inv, FreshFiles
<1>3. ASSUME NEW c \in Chunks,
             \/ SkipChunk(c) \/ ReuseChunk(c) \/ LeaveToFetch(c) \/ StartFetch(c)
             \/ Worker(c)
      PROVE FreshFiles'
  BY <1>3 DEF SkipChunk, ReuseChunk, LeaveToFetch, StartFetch, Worker,
     FetchSucceeds, FetchFails, WriteFails, WriteTarget, Record, Inv, FreshFiles
<1>4. CASE StaleRemoved \/ CreateFile \/ AllPrepared \/ AllClassified \/ WorkersDone \/ Swept
           \/ ClearJournal \/ FlushTick \/ FlushEnds \/ FlusherStops \/ Forget
  BY <1>4 DEF StaleRemoved, CreateFile, AllPrepared, AllClassified, WorkersDone, Swept,
     ClearJournal, FlushTick, FlushEnds, FlusherStops, Forget, Inv, FreshFiles
<1>5. CASE Crash \/ Save \/ LastFlush
  BY <1>5 DEF Crash, Save, LastFlush, ProcessEnds, FreshFiles
<1>6. ASSUME NEW b \in Builds, Start(b) PROVE FreshFiles'
  BY <1>6 DEF Start, Inv, FreshFiles
<1>7. ASSUME NEW g \in Files, Tamper(g) PROVE FALSE
  BY <1>7 DEF Tamper, Retried
<1> QED
  BY <1>1, <1>2, <1>3, <1>4, <1>5, <1>6, <1>7 DEF Next, Main

LEMMA NotRewritten ==
  ASSUME Retried, Inv, Next, ~Moves
  PROVE  rewrite' \subseteq rewrite /\ current' \in {current, NoFile}
<1> USE DEF durable, workers, target, loops
<1>1. ASSUME NEW f \in Files, RemoveStale(f) \/ KeepFile(f) \/ MoveAside(f) \/ Sweep(f)
      PROVE rewrite' \subseteq rewrite /\ current' \in {current, NoFile}
  BY <1>1 DEF RemoveStale, KeepFile, Moves, Sweep
<1>2. ASSUME NEW c \in Chunks,
             \/ SkipChunk(c) \/ ReuseChunk(c) \/ LeaveToFetch(c) \/ StartFetch(c)
             \/ Worker(c)
      PROVE rewrite' \subseteq rewrite /\ current' \in {current, NoFile}
  BY <1>2 DEF SkipChunk, ReuseChunk, LeaveToFetch, StartFetch, Worker,
     FetchSucceeds, FetchFails, WriteFails, WriteTarget, Record
<1>3. CASE StaleRemoved \/ CreateFile \/ AllPrepared \/ AllClassified \/ WorkersDone \/ Swept
           \/ ClearJournal \/ FlushTick \/ FlushEnds \/ FlusherStops \/ Forget
  BY <1>3
     DEF StaleRemoved, Moves, AllPrepared, AllClassified, WorkersDone, Swept,
         ClearJournal, FlushTick, FlushEnds, FlusherStops, Forget
<1>4. CASE Crash \/ Save \/ LastFlush
  BY <1>4 DEF Crash, Save, LastFlush, ProcessEnds
<1>5. ASSUME NEW b \in Builds, Start(b)
      PROVE rewrite' \subseteq rewrite /\ current' \in {current, NoFile}
  BY <1>5 DEF Start
<1>6. ASSUME NEW g \in Files, Tamper(g) PROVE FALSE
  BY <1>6 DEF Tamper, Retried
<1> QED
  BY <1>1, <1>2, <1>3, <1>4, <1>5, <1>6 DEF Next, Main

LEMMA AsideNext ==
  ASSUME Retried, Inv, Next
  PROVE  Aside'
<1> USE DEF durable, workers, target, loops
<1>1. CASE Save
  BY <1>1 DEF Save, Aside
<1>2. ASSUME NEW b \in Builds, Start(b) PROVE Aside'
  <2>1. /\ wanted' = b /\ wanted \in {NoBuild, b} /\ pc = "idle" /\ pc' = "stale"
        /\ UNCHANGED <<disk, stash, saved, journal, rewrite, current>>
    BY <1>2 DEF Start, Retried
  <2>2. CASE wanted = b
    BY <2>1, <2>2 DEF Inv, Aside, HadBefore
  <2>3. CASE wanted = NoBuild
    <3>1. /\ saved # NoBuild => \A f \in FilesOf(saved) : disk[f] = Manifest[saved][f]
          /\ journal.gid = NoBuild /\ rewrite = {} /\ current = NoFile
      BY <2>1, <2>3 DEF Inv, Ledger, NoJournal, Typed, TypeOK, Shape
    <3>2. \A f \in FilesOf(b) : f # NoFile /\ f \in Files
      BY ConstantsAssumption DEF ConstantsAssumption, FilesOf
    <3> QED BY <2>1, <3>1, <3>2 DEF Aside, HadBefore, FilesOf, SizeIs
  <2> QED BY <2>1, <2>2, <2>3
<1>3. CASE wanted' = wanted /\ saved' = saved
  <2> SUFFICES ASSUME wanted # NoBuild, NEW f \in FilesOf(wanted), HadBefore(f),
                      f \notin MoveCanFail,
                      Manifest[saved][f] # Manifest[wanted][f],
                      Len(Manifest[saved][f]) = Len(Manifest[wanted][f])
               PROVE  /\ stash'[f] # Absent \/ SizeIs(disk'[f], Len(Manifest[wanted][f]))
                      /\ pc' \notin {"sweep", "clear", "save"}
                           /\ (journal'.gid # NoBuild \/ f \in rewrite' \/ f = current')
                         => stash'[f] # Absent
    BY <1>3 DEF Aside, HadBefore
  <2>1. /\ stash[f] # Absent \/ SizeIs(disk[f], Len(Manifest[wanted][f]))
        /\ pc \notin {"sweep", "clear", "save"}
             /\ (journal.gid # NoBuild \/ f \in rewrite \/ f = current)
           => stash[f] # Absent
        /\ wanted \in Builds /\ f \in Files /\ saved \in Builds
    BY DEF Inv, Aside, Typed, TypeOK, FilesOf, HadBefore
  <2>2. CASE pc = "sweep"
    <3>1. wanted = gid
      BY <2>2 DEF Inv, Ledger
    <3>2. SizeIs(disk[f], Len(Manifest[wanted][f]))
      BY <2>2, <3>1, AllArePrepared
    <3>3. Preserves(wanted)
      BY <2>2, DiskKept DEF Moves, CreateFile, MoveAside
    <3>4. pc' \in {"sweep", "clear"}
      BY <2>2, LateStep
    <3> QED BY <3>2, <3>3, <3>4 DEF Preserves
  <2>3. CASE pc # "sweep" /\ stash[f] # Absent
    BY <2>3, StashKept
  <2>4. CASE pc # "sweep" /\ stash[f] = Absent /\ ~Moves
    <3>1. SizeIs(disk'[f], Len(Manifest[wanted][f]))
      BY <2>1, <2>4, DiskKept DEF Preserves
    <3>2. ASSUME pc' \notin {"sweep", "clear", "save"},
                 journal'.gid # NoBuild \/ f \in rewrite' \/ f = current'
          PROVE  FALSE
      <4>1. f # NoFile /\ (current # NoFile <=> pc = "create")
        BY <2>1, ConstantsAssumption DEF ConstantsAssumption, Inv, Typed, TypeOK
      <4>2. f \in rewrite' => f \in rewrite
        BY <2>4, NotRewritten
      <4>3. f = current' => f = current
        BY <2>4, <4>1, NotRewritten
      <4>4. pc # "clear"
        BY <3>2, LateStep DEF ClearJournal
      <4>5. pc = "save" => rewrite' = {} /\ current' = NoFile /\ journal'.gid = NoBuild
        <5> SUFFICES ASSUME pc = "save"
                     PROVE  rewrite' = {} /\ current' = NoFile /\ journal'.gid = NoBuild
          OBVIOUS
        <5>1. Save \/ Crash
          BY LateStep
        <5>2. journal' = journal /\ ProcessEnds
          BY <5>1 DEF Save, Crash
        <5>3. journal.gid = NoBuild
          BY DEF Inv, Ledger, NoJournal
        <5> QED BY <5>2, <5>3 DEF ProcessEnds
      <4>6. pc \notin {"sweep", "clear", "save"}
        BY <2>4, <3>2, <4>1, <4>4, <4>5
      <4>7. journal.gid = NoBuild /\ f \notin rewrite /\ f # current
        BY <2>1, <2>4, <4>6
      <4>8. journal'.gid # NoBuild
        BY <3>2, <4>2, <4>3, <4>7
      <4>9. pc \in {"work", "stopping", "lastFlush"} /\ gid = wanted
        BY <4>7, <4>8, JournalSaved DEF Inv, Ledger
      <4> QED BY <4>7, <4>9, AllArePrepared
    <3> QED BY <3>1, <3>2
  <2>5. ASSUME NEW g \in Files, MoveAside(g), stash[f] = Absent, pc # "sweep"
        PROVE  /\ stash'[f] # Absent \/ SizeIs(disk'[f], Len(Manifest[wanted][f]))
               /\ (journal'.gid # NoBuild \/ f \in rewrite' \/ f = current')
                  => stash'[f] # Absent
    <3>1. /\ wanted = gid /\ prev = saved /\ pc = "prepare" /\ current' = g
          /\ journal' = journal /\ rewrite' = rewrite
      BY <2>5, MovesPc DEF Moves, MoveAside
    <3>2. SizeIs(disk[f], Len(Manifest[wanted][f])) /\ journal.gid = NoBuild /\ f \notin rewrite
      BY <2>1, <2>5, <3>1
    <3>3. CASE f = g
      <4>1. Old(f) = Manifest[saved][f] /\ Old(f) # Absent
        BY <2>1, <3>1 DEF Old, HadBefore
      <4>2. disk[f] # <<>>
        <5>1. Manifest[saved][f] \in Seq(Chunks) /\ Manifest[wanted][f] \in Seq(Chunks)
          BY <2>1, FilesOfBuild DEF FilesOf, HadBefore
        <5>2. Len(Manifest[wanted][f]) # 0
          BY <5>1
        <5> QED BY <3>2, <5>2 DEF SizeIs
      <4>3. CanStash(f, Len(Old(f))) /\ disk[f] # Absent
        BY <3>2, <4>1, <4>2 DEF CanStash, SizeIs
      <4>4. stash'[f] = disk[f]
        BY <2>1, <2>5, <3>3, <4>1, <4>3
           DEF MoveAside, MoveFails, MoveToStash, Inv, Typed, TypeOK
      <4> QED BY <4>3, <4>4
    <3>4. CASE f # g
      <4>1. disk'[f] = disk[f]
        BY <2>1, <2>5, <3>4 DEF MoveAside, MoveToStash, Inv, Typed, TypeOK
      <4> QED BY <3>1, <3>2, <3>4, <4>1
    <3> QED BY <3>3, <3>4
  <2>6. ASSUME CreateFile, stash[f] = Absent
        PROVE  /\ SizeIs(disk'[f], Len(Manifest[wanted][f]))
               /\ ~(journal'.gid # NoBuild \/ f \in rewrite' \/ f = current')
    <3>1. /\ pc = "create" /\ current' = NoFile /\ rewrite' = rewrite \cup {current}
          /\ journal' = journal /\ f # NoFile
      BY <2>1, <2>6, ConstantsAssumption DEF ConstantsAssumption, CreateFile
    <3>2. f # current /\ journal.gid = NoBuild /\ f \notin rewrite
          /\ SizeIs(disk[f], Len(Manifest[wanted][f]))
      BY <2>1, <2>6, <3>1
    <3>3. disk'[f] = disk[f]
      BY <2>1, <2>6, <3>2 DEF CreateFile, Inv, Typed, TypeOK
    <3> QED BY <3>1, <3>2, <3>3
  <2> QED BY <2>2, <2>3, <2>4, <2>5, <2>6 DEF Moves, CreateFile, MoveAside
<1>4. CASE Forget
  BY <1>4 DEF Forget, Aside, HadBefore
<1> QED
  BY <1>1, <1>2, <1>3, <1>4, BuildKept
\* From the loop over the chunks on, what is in place in a file stays.
LEMMA LateKept ==
  ASSUME Retried, Inv, Next, pc \notin {"idle", "stale", "prepare", "create"}
  PROVE  gid \in Builds /\ wanted = gid /\ prev = saved /\ Preserves(gid)
<1>1. gid \in Builds /\ wanted = gid /\ prev = saved /\ gid # NoBuild
  BY Running, ConstantsAssumption DEF ConstantsAssumption, Inv, Typed, Ledger
<1> QED
  BY <1>1, DiskKept DEF Moves, CreateFile, MoveAside

LEMMA TruncateBlocks ==
  ASSUME NEW s, NEW n \in Nat, NEW i \in 1..n, Truncate(s, n) # Absent
  PROVE  BlockAt(Truncate(s, n), i) = BlockAt(s, i)
<1>1. Len(Truncate(s, n)) = n /\ Truncate(s, n)[i] = BlockAt(s, i)
  BY DEF Truncate, BlockAt
<1> QED
  BY <1>1 DEF BlockAt

\* Creating a file leaves its blocks as they are, up to its size.
LEMMA CreateKeepsBlocks ==
  ASSUME Typed, CreateFile, NEW t \in Places(gid), Holds(disk, gid, t)
  PROVE  Holds(disk', gid, t)
<1> DEFINE n == Len(Manifest[gid][current])
<1>1. pc = "create" /\ disk' = [disk EXCEPT ![current] = Truncate(disk[current], n)]
  BY DEF CreateFile
<1>2. /\ gid \in Builds /\ current \in FilesOf(gid) /\ current \in Files
      /\ n \in Nat /\ disk[current] \in Content \cup {Absent}
  <2>1. current # NoFile
    BY <1>1 DEF Typed, TypeOK
  <2> QED BY <1>1, <2>1, Running, FilesOfBuild DEF Typed, TypeOK, Shape
<1>3. /\ disk'[current] = Truncate(disk[current], n)
      /\ \A g \in Files : g # current => disk'[g] = disk[g]
  BY <1>1, <1>2 DEF Typed, TypeOK
<1>4. t[1] \in FilesOf(gid) /\ t[1] \in Files /\ t[2] \in 1..Len(Manifest[gid][t[1]])
  BY <1>2, PlaceOf DEF FilesOf
<1>5. CASE t[1] = current
  <2>1. Truncate(disk[current], n) # Absent
    BY <1>2, TruncateType
  <2>2. BlockAt(disk'[current], t[2]) = BlockAt(disk[current], t[2])
    BY <1>2, <1>3, <1>4, <1>5, <2>1, TruncateBlocks
  <2> QED BY <1>5, <2>2 DEF Holds
<1>6. CASE t[1] # current
  BY <1>3, <1>4, <1>6 DEF Holds
<1> QED
  BY <1>5, <1>6

\* What the saved journal names stays in place, but in a file that is moved
\* aside, which the run then knows not to trust.
LEMMA JournaledStays ==
  ASSUME Retried, Inv, Next, journal.gid # NoBuild, NEW t \in Places(journal.gid),
         t[1] \in fresh \/ Holds(disk, journal.gid, t)
  PROVE  t[1] \in fresh \cup fresh' \/ Holds(disk', journal.gid, t)
<1>1. journal.gid = wanted /\ wanted \in Builds /\ (~Moves => Preserves(wanted))
  BY JournalOfBuild
<1> SUFFICES ASSUME Holds(disk, journal.gid, t)
             PROVE  t[1] \in fresh' \/ Holds(disk', journal.gid, t)
  OBVIOUS
<1>2. CASE ~Moves
  BY <1>1, <1>2, PreservesHolds
<1>3. CASE CreateFile
  <2>1. gid = wanted
    BY <1>3, MovesPc DEF Moves
  <2> QED BY <1>1, <1>3, <2>1, CreateKeepsBlocks DEF Inv
<1>4. ASSUME NEW f \in Files, MoveAside(f), disk' # disk, t[1] = f PROVE f \in fresh'
  <2>1. pc = "prepare" /\ gid = wanted
    BY <1>4, MovesPc DEF Moves, MoveAside
  <2>2. resuming
    BY <1>1, <2>1 DEF Inv, Ledger
  <2>3. disk'[f] = Absent
    BY <1>4 DEF MoveAside, MoveToStash, Inv, Typed, TypeOK
  <2> QED BY <1>4, <2>2, <2>3 DEF MoveAside, SizeIs
<1>5. ASSUME NEW f \in Files, MoveAside(f), t[1] # f PROVE Holds(disk', journal.gid, t)
  <2>1. t[1] \in Files
    BY <1>1, PlaceOf DEF FilesOf
  <2>2. disk'[t[1]] = disk[t[1]]
    BY <1>5, <2>1 DEF MoveAside, MoveToStash, Inv, Typed, TypeOK
  <2> QED BY <2>2 DEF Holds
<1> QED
  BY <1>2, <1>3, <1>4, <1>5 DEF Moves

\* The run forgets which files not to trust when it ends; it ends with none, or
\* with a journal of its own.
LEMMA FreshKept ==
  ASSUME Retried, Inv, Next, journal.gid # NoBuild, journal' = journal, NEW f \in fresh
  PROVE  f \in fresh' \/ (LastFlush /\ journal.gid = gid /\ journal.done = memory)
<1> USE DEF durable, workers, target, loops
<1>1. NoneKilled /\ pc \notin {"idle", "stale"} /\ resuming
  BY DEF Inv, FreshFiles, Retried
<1>2. ASSUME NEW g \in Files, RemoveStale(g) \/ KeepFile(g) \/ MoveAside(g) \/ Sweep(g)
      PROVE  f \in fresh'
  BY <1>2 DEF RemoveStale, KeepFile, MoveAside, Sweep
<1>3. ASSUME NEW c \in Chunks,
             \/ SkipChunk(c) \/ ReuseChunk(c) \/ LeaveToFetch(c) \/ StartFetch(c)
             \/ Worker(c)
      PROVE f \in fresh'
  BY <1>3 DEF SkipChunk, ReuseChunk, LeaveToFetch, StartFetch, Worker,
     FetchSucceeds, FetchFails, WriteFails, WriteTarget, Record
<1>4. CASE StaleRemoved \/ CreateFile \/ AllPrepared \/ AllClassified \/ WorkersDone \/ Swept
           \/ ClearJournal \/ FlushTick \/ FlushEnds \/ FlusherStops \/ Forget
  BY <1>4 DEF StaleRemoved, CreateFile, AllPrepared, AllClassified, WorkersDone, Swept,
     ClearJournal, FlushTick, FlushEnds, FlusherStops, Forget
<1>5. ~Crash /\ ~Save
  <2>1. pc # "save"
    BY DEF Inv, Ledger, NoJournal
  <2> QED BY <1>1, <2>1 DEF Crash, Save, NoneKilled
<1>6. CASE LastFlush
  <2>1. journal' = [gid |-> gid, done |-> memory]
    BY <1>1, <1>6 DEF LastFlush, SavesJournal, NoneKilled
  <2> QED BY <1>6, <2>1
<1>7. ASSUME NEW b \in Builds, Start(b) PROVE FALSE
  BY <1>1, <1>7 DEF Start
<1>8. ASSUME NEW g \in Files, Tamper(g) PROVE FALSE
  BY <1>8 DEF Tamper, Retried
<1> QED
  BY <1>2, <1>3, <1>4, <1>5, <1>6, <1>7, <1>8 DEF Next, Main

LEMMA JournaledSaved ==
  ASSUME Retried, Inv, Next, journal'.gid # NoBuild, NEW t \in Places(journal'.gid),
         ChunkAt(journal'.gid, t) \in journal'.done
  PROVE  t[1] \in fresh' \/ Holds(disk', journal'.gid, t)
<1>1. CASE journal' # journal
  <2>1. /\ FlushEnds \/ LastFlush
        /\ journal'.gid = gid /\ disk' = disk
        /\ FlushEnds => journal' = snapshot
        /\ LastFlush => journal'.done = memory
    BY <1>1, JournalSaved
  <2> QED BY <2>1 DEF Inv, Journaled, OnDisk
<1>2. CASE journal' = journal
  <2>1. t[1] \in fresh \/ Holds(disk, journal.gid, t)
    BY <1>2 DEF Inv, Journaled
  <2>2. CASE t[1] \in fresh
    <3>1. CASE LastFlush /\ journal.gid = gid /\ journal.done = memory
      <4>1. disk' = disk
        BY <3>1 DEF LastFlush
      <4> QED BY <1>2, <3>1, <4>1 DEF Inv, Journaled, OnDisk
    <3> QED BY <1>2, <2>2, <3>1, FreshKept
  <2>3. CASE t[1] \notin fresh
    BY <1>2, <2>1, <2>3, JournaledStays
  <2> QED BY <2>2, <2>3
<1> QED
  BY <1>1, <1>2

\* A chunk is in the files of the build that are not written to.
LEMMA UnwrittenHolds ==
  ASSUME Inv, pc \in {"classify", "work"}, NEW t \in Places(gid), t[1] \notin rewrite
  PROVE  Holds(disk, gid, t)
<1>1. gid \in Builds /\ wanted = gid /\ gid # NoBuild
  BY Running, ConstantsAssumption DEF ConstantsAssumption, Inv, Typed, Ledger
<1>2. t[1] \in FilesOf(gid) /\ t[2] \in 1..Len(Manifest[gid][t[1]])
  BY <1>1, PlaceOf
<1>3. HadBefore(t[1]) /\ Manifest[saved][t[1]] = Manifest[gid][t[1]]
  BY <1>1, <1>2, AllArePrepared
<1>4. disk[t[1]] = Manifest[gid][t[1]]
  BY <1>1, <1>2, <1>3 DEF Inv, Kept
<1>5. disk[t[1]] \in Content \cup {Absent}
  BY <1>2 DEF FilesOf, Inv, Typed, TypeOK
<1>6. BlockAt(disk[t[1]], t[2]) = Manifest[gid][t[1]][t[2]]
  BY <1>1, <1>2, <1>4, <1>5, FileRight
<1> QED
  BY <1>6 DEF Holds, ChunkAt

\* A chunk with nothing left to be written is in every file of the build,
\* those that are not written to included.
LEMMA WrittenOnDisk ==
  ASSUME Inv, NEW c \in writing, Written(c)
  PROVE  OnDisk(disk, gid, c)
<1>1. pc \in {"classify", "work"}
  BY DEF Inv, Typed, Shape
<1> SUFFICES ASSUME NEW t \in Places(gid), ChunkAt(gid, t) = c PROVE Holds(disk, gid, t)
  BY DEF OnDisk
<1>2. CASE t[1] \in rewrite
  BY <1>2 DEF Targets, Written, Inv, Journaled
<1>3. CASE t[1] \notin rewrite
  BY <1>1, <1>3, UnwrittenHolds
<1> QED
  BY <1>2, <1>3

LEMMA JournaledNext ==
  ASSUME Retried, Inv, Next
  PROVE  Journaled'
<1> USE DEF durable, workers, target, loops
<1>1. ASSUME journal'.gid # NoBuild, NEW t \in Places(journal'.gid),
             ChunkAt(journal'.gid, t) \in journal'.done
      PROVE  t[1] \in fresh' \/ Holds(disk', journal'.gid, t)
  BY <1>1, JournaledSaved
<1> DEFINE Rest ==
      /\ snapshot'.gid # NoBuild => \A c \in snapshot'.done : OnDisk(disk', snapshot'.gid, c)
      /\ \A c \in memory' : OnDisk(disk', gid', c)
      /\ \A c \in writing' : \A t \in Targets(c)' : t \in left' \/ Holds(disk', gid', t)
<1>2. SUFFICES Rest
  BY <1>1, <1>2 DEF Journaled
<1>3. CASE writing' = {} /\ memory' = {} /\ snapshot' = NoJournal
  BY <1>3 DEF NoJournal
<1>4. CASE pc \in {"idle", "stale", "prepare", "create"}
  <2>1. writing = {} /\ memory = {} /\ snapshot = NoJournal /\ fetching = {} /\ todo = {}
    BY <1>4 DEF Inv, Typed, Shape, Ledger
  <2>2. ASSUME NEW f \in Files, RemoveStale(f) \/ KeepFile(f) \/ MoveAside(f) \/ Sweep(f)
        PROVE  writing' = {} /\ memory' = {} /\ snapshot' = NoJournal
    BY <2>1, <2>2 DEF RemoveStale, KeepFile, MoveAside, Sweep
  <2>3. ASSUME NEW c \in Chunks,
               \/ SkipChunk(c) \/ ReuseChunk(c) \/ LeaveToFetch(c) \/ StartFetch(c)
               \/ Worker(c)
        PROVE FALSE
    BY <1>4, <2>1, <2>3 DEF SkipChunk, ReuseChunk, LeaveToFetch, StartFetch, Worker, Turn,
       FetchSucceeds, FetchFails, WriteFails, Record
  <2>4. CASE \/ StaleRemoved \/ CreateFile \/ AllPrepared \/ AllClassified \/ WorkersDone
             \/ Swept \/ ClearJournal \/ Forget \/ \E b \in Builds : Start(b)
    BY <1>3, <1>4, <2>1, <2>4
       DEF StaleRemoved, CreateFile, AllPrepared, AllClassified, WorkersDone, Swept,
           ClearJournal, Forget, Start
  <2>7. CASE Save \/ LastFlush \/ Crash
    BY <1>3, <2>7 DEF Save, LastFlush, Crash, ProcessEnds
  <2>5. CASE FlushTick \/ FlushEnds \/ FlusherStops
    BY <1>4, <2>1, <2>5 DEF FlushTick, FlushEnds, FlusherStops, FlusherRunning
  <2>6. ASSUME NEW g \in Files, Tamper(g) PROVE FALSE
    BY <2>6 DEF Tamper, Retried
  <2> QED BY <1>3, <2>2, <2>3, <2>4, <2>5, <2>6, <2>7 DEF Next, Main
<1>5. CASE pc \notin {"idle", "stale", "prepare", "create"}
  <2>1. gid \in Builds /\ wanted = gid /\ prev = saved /\ Preserves(gid)
    BY <1>5, LateKept
  <2>2. \A c \in memory : OnDisk(disk', gid, c)
    BY <2>1, PreservesOnDisk DEF Inv, Journaled
  <2>3. snapshot.gid # NoBuild => \A c \in snapshot.done : OnDisk(disk', snapshot.gid, c)
    BY <2>1, PreservesOnDisk DEF Inv, Journaled, Ledger, NoJournal
  <2>4. \A c \in writing : \A t \in Targets(c) : t \in left \/ Holds(disk', gid, t)
    BY <2>1, PreservesHolds DEF Inv, Journaled, Targets
  <2>5. ASSUME UNCHANGED <<gid, rewrite, snapshot>>,
               memory' \subseteq memory, writing' \subseteq writing,
               \A c \in writing' : \A t \in Targets(c) : t \in left => t \in left'
        PROVE  Rest
    <3>1. \A c : Targets(c)' = Targets(c)
      BY <2>5 DEF Targets, Places, FilesOf, ChunkAt
    <3> QED BY <2>2, <2>3, <2>4, <2>5, <3>1
  <2>6. ASSUME NEW f \in Files, RemoveStale(f) \/ KeepFile(f) \/ MoveAside(f) \/ Sweep(f)
        PROVE  Rest
    BY <1>5, <2>5, <2>6 DEF RemoveStale, KeepFile, MoveAside, Sweep
  <2>7. CASE \/ StaleRemoved \/ CreateFile \/ AllPrepared \/ AllClassified \/ WorkersDone
             \/ Swept \/ ClearJournal \/ FlusherStops \/ Forget
             \/ \E b \in Builds : Start(b)
    BY <1>5, <2>5, <2>7
       DEF StaleRemoved, CreateFile, AllPrepared, AllClassified, WorkersDone, Swept,
           ClearJournal, FlusherStops, Forget, Start
  <2>8. CASE Save \/ LastFlush \/ Crash
    BY <1>3, <2>8 DEF Save, LastFlush, Crash, ProcessEnds
  <2>9. ASSUME NEW g \in Files, Tamper(g) PROVE FALSE
    BY <2>9 DEF Tamper, Retried
  <2>10. CASE FlushTick
    <3>1. /\ UNCHANGED <<gid, rewrite, memory, writing, left>>
          /\ snapshot'.gid = gid /\ snapshot'.done = memory
      BY <2>10 DEF FlushTick
    <3>2. \A c : Targets(c)' = Targets(c)
      BY <3>1 DEF Targets, Places, FilesOf, ChunkAt
    <3> QED BY <2>2, <2>4, <3>1, <3>2
  <2>11. CASE FlushEnds
    <3>1. /\ UNCHANGED <<gid, rewrite, memory, writing, left>>
          /\ snapshot'.gid = NoBuild
      BY <2>11 DEF FlushEnds, NoJournal
    <3>2. \A c : Targets(c)' = Targets(c)
      BY <3>1 DEF Targets, Places, FilesOf, ChunkAt
    <3> QED BY <2>2, <2>4, <3>1, <3>2
  <2>12. ASSUME NEW c \in Chunks, SkipChunk(c) PROVE Rest
    <3>1. /\ UNCHANGED <<gid, rewrite, writing, left, snapshot, disk>>
          /\ memory' = memory \cup {c} /\ c \in done /\ pc = "classify"
          /\ \A t \in Targets(c) : t[1] \notin fresh
      BY <2>12 DEF SkipChunk, Turn, Resumed
    <3>2. OnDisk(disk', gid, c)
      <4>1. journal.gid = gid /\ journal.done = done
        BY <3>1 DEF Inv, Ledger
      <4>2. gid # NoBuild
        BY <2>1, ConstantsAssumption DEF ConstantsAssumption
      <4> SUFFICES ASSUME NEW t \in Places(gid), ChunkAt(gid, t) = c
                   PROVE  Holds(disk, gid, t)
        BY <3>1 DEF OnDisk
      <4>3. CASE t[1] \in rewrite
        BY <3>1, <4>1, <4>2, <4>3 DEF Inv, Journaled, Targets
      <4>4. CASE t[1] \notin rewrite
        BY <3>1, <4>4, UnwrittenHolds
      <4> QED BY <4>3, <4>4
    <3>3. \A d : Targets(d)' = Targets(d)
      BY <3>1 DEF Targets, Places, FilesOf, ChunkAt
    <3> QED BY <2>2, <2>3, <2>4, <3>1, <3>2, <3>3
  <2>13. ASSUME NEW c \in Chunks, ReuseChunk(c) PROVE Rest
    <3>1. /\ UNCHANGED <<gid, rewrite, memory, snapshot>>
          /\ writing' = {c} /\ left' = Targets(c)
      BY <2>13 DEF ReuseChunk
    <3>2. \A d : Targets(d)' = Targets(d)
      BY <3>1 DEF Targets, Places, FilesOf, ChunkAt
    <3> QED BY <2>2, <2>3, <3>1, <3>2
  <2>14. ASSUME NEW c \in Chunks, LeaveToFetch(c) \/ StartFetch(c) \/ FetchFails(c) PROVE Rest
    BY <2>5, <2>14 DEF LeaveToFetch, StartFetch, FetchFails
  <2>15. ASSUME NEW c \in Chunks, FetchSucceeds(c) PROVE Rest
    <3>1. /\ UNCHANGED <<gid, rewrite, memory, snapshot>>
          /\ writing' = writing \cup {c} /\ left' = left \cup Targets(c)
      BY <2>15 DEF FetchSucceeds
    <3>2. \A d : Targets(d)' = Targets(d)
      BY <3>1 DEF Targets, Places, FilesOf, ChunkAt
    <3> QED BY <2>2, <2>3, <2>4, <3>1, <3>2
  <2>16. ASSUME NEW c \in Chunks, WriteFails(c) PROVE Rest
    <3>1. /\ UNCHANGED <<gid, rewrite, memory, snapshot>>
          /\ writing' = writing \ {c} /\ left' = left \ Targets(c)
      BY <2>16 DEF WriteFails
    <3>2. \A d \in writing' : \A t \in Targets(d) : t \notin Targets(c)
      BY <3>1 DEF Targets
    <3> QED BY <2>5, <3>1, <3>2
  <2>17. ASSUME NEW c \in Chunks, Record(c) PROVE Rest
    <3>1. /\ UNCHANGED <<gid, rewrite, left, snapshot, disk>>
          /\ writing' = writing \ {c} /\ memory' = memory \cup {c}
      BY <2>17 DEF Record
    <3>2. OnDisk(disk', gid, c)
      BY <2>17, <3>1, WrittenOnDisk DEF Record
    <3>3. \A d : Targets(d)' = Targets(d)
      BY <3>1 DEF Targets, Places, FilesOf, ChunkAt
    <3> QED BY <2>2, <2>3, <2>4, <3>1, <3>2, <3>3
  <2>18. ASSUME NEW c \in Chunks, c \in writing, NEW t \in Targets(c), WriteTarget(t) PROVE Rest
    <3>1. /\ UNCHANGED <<gid, rewrite, memory, writing, snapshot>> /\ left' = left \ {t}
      BY <2>18 DEF WriteTarget
    <3>2. Holds(disk', gid, t)
      BY <2>18, WritePreserves DEF Inv
    <3>3. \A d : Targets(d)' = Targets(d)
      BY <3>1 DEF Targets, Places, FilesOf, ChunkAt
    <3> QED BY <2>2, <2>3, <2>4, <3>1, <3>2, <3>3
  <2> QED
    BY <2>6, <2>7, <2>8, <2>9, <2>10, <2>11, <2>12, <2>13, <2>14, <2>15, <2>16, <2>17, <2>18
       DEF Next, Main, Worker
<1> QED
  BY <1>4, <1>5
LEMMA AccountedNext ==
  ASSUME Typed, Accounted, snapshot # NoJournal => pc \in {"work", "stopping"}, Next
  PROVE  Accounted'
<1> USE DEF durable, workers, target, loops
<1>1. CASE pc' \in {"idle", "stale", "prepare", "create"}
  BY <1>1 DEF Accounted
<1>2. ASSUME NEW f \in Files, RemoveStale(f) \/ KeepFile(f) \/ MoveAside(f)
      PROVE  pc' \in {"idle", "stale", "prepare", "create"}
  BY <1>2 DEF RemoveStale, KeepFile, MoveAside
<1>3. CASE \/ StaleRemoved \/ CreateFile \/ Save \/ LastFlush \/ Crash \/ Forget
           \/ \E b \in Builds : Start(b)
  BY <1>1, <1>3
     DEF StaleRemoved, CreateFile, Save, LastFlush, Crash, Forget, Start, ProcessEnds
<1>4. CASE AllPrepared
  <2>1. /\ pc' = "classify" /\ UNCHANGED <<gid, rewrite>>
        /\ order' = {ChunkAt(gid, t) : t \in {t \in Places(gid) : t[1] \in rewrite}}
    BY <1>4 DEF AllPrepared
  <2>2. \A c : Targets(c)' = Targets(c)
    BY <2>1 DEF Targets, Places, FilesOf, ChunkAt
  <2>3. \A c : Targets(c) # {} => c \in order'
    BY <2>1 DEF Targets
  <2> QED BY <2>1, <2>2, <2>3 DEF Accounted
<1> DEFINE Known == order \cup todo \cup fetching \cup writing \cup memory
<1>5. ASSUME pc \notin {"idle", "stale", "prepare", "create"}, UNCHANGED <<gid, rewrite>>,
             ~cancelled' => ~cancelled /\ Known \subseteq Known',
             pc' \in {"stopping", "lastFlush", "sweep", "clear", "save"} =>
               cancelled' \/ todo' = {},
             pc' \in {"sweep", "clear", "save"} => ~cancelled'
      PROVE  Accounted'
  <2>1. \A c : Targets(c)' = Targets(c)
    BY <1>5 DEF Targets, Places, FilesOf, ChunkAt
  <2> QED BY <1>5, <2>1 DEF Accounted
<1>6. ASSUME NEW f \in Files, Sweep(f) PROVE Accounted'
  BY <1>5, <1>6 DEF Sweep, Accounted
<1>7. ASSUME NEW c \in Chunks, SkipChunk(c) \/ ReuseChunk(c) \/ LeaveToFetch(c)
      PROVE  Accounted'
  <2>1. pc = "classify" /\ pc' = pc /\ UNCHANGED <<gid, rewrite, cancelled>>
    BY <1>7 DEF SkipChunk, ReuseChunk, LeaveToFetch, Turn
  <2>2. Known \subseteq Known'
    BY <1>7 DEF SkipChunk, ReuseChunk, LeaveToFetch, Turn
  <2> QED BY <1>5, <2>1, <2>2
<1>8. ASSUME NEW c \in Chunks, StartFetch(c) \/ FetchSucceeds(c) \/ Record(c)
      PROVE  Accounted'
  <2>1. pc \in {"classify", "work"} /\ pc' = pc /\ UNCHANGED <<gid, rewrite, cancelled>>
    BY <1>8 DEF StartFetch, FetchSucceeds, Record, Typed, Shape
  <2>2. Known \subseteq Known'
    BY <1>8 DEF StartFetch, FetchSucceeds, Record
  <2> QED BY <1>5, <2>1, <2>2
<1>9. ASSUME NEW c \in Chunks, FetchFails(c) \/ WriteFails(c)
      PROVE  Accounted'
  <2>1. pc = "work" /\ pc' = pc /\ UNCHANGED <<gid, rewrite>> /\ cancelled'
    BY <1>9 DEF FetchFails, WriteFails, Typed, Shape
  <2> QED BY <1>5, <2>1
<1>10. ASSUME NEW c \in Chunks, c \in writing, NEW t \in Targets(c), WriteTarget(t)
       PROVE  Accounted'
  <2>1. /\ pc \in {"classify", "work"} /\ pc' = pc
        /\ UNCHANGED <<gid, rewrite, cancelled, order, todo, fetching, writing, memory>>
    BY <1>10 DEF WriteTarget, Typed, Shape
  <2> QED BY <1>5, <2>1
<1>11. CASE AllClassified
  BY <1>5, <1>11 DEF AllClassified
<1>12. CASE WorkersDone
  <2>1. /\ pc = "work" /\ pc' = "stopping" /\ (todo = {} \/ cancelled)
        /\ UNCHANGED <<gid, rewrite, cancelled, order, todo, fetching, writing, memory>>
    BY <1>12 DEF WorkersDone, AllReturned
  <2> QED BY <1>5, <2>1
<1>13. CASE FlusherStops
  <2>1. /\ pc = "stopping" /\ pc' = IF cancelled THEN "lastFlush" ELSE "sweep"
        /\ UNCHANGED <<gid, rewrite, cancelled, order, todo, fetching, writing, memory>>
    BY <1>13 DEF FlusherStops
  <2>2. cancelled \/ todo = {}
    BY <2>1 DEF Accounted
  <2> QED BY <1>5, <2>1, <2>2
<1>14. CASE Swept \/ ClearJournal
  BY <1>5, <1>14 DEF Swept, ClearJournal, Accounted
<1>15. CASE FlushTick \/ FlushEnds
  <2>1. /\ pc \in {"work", "stopping"} /\ pc' = pc
        /\ UNCHANGED <<gid, rewrite, cancelled, order, todo, fetching, writing, memory>>
    BY <1>15 DEF FlushTick, FlushEnds, FlusherRunning
  <2> QED BY <1>5, <2>1 DEF Accounted
<1>16. ASSUME NEW g \in Files, Tamper(g) PROVE Accounted'
  BY <1>1, <1>16 DEF Tamper
<1> QED
  BY <1>1, <1>2, <1>3, <1>4, <1>6, <1>7, <1>8, <1>9, <1>10, <1>11, <1>12, <1>13, <1>14,
     <1>15, <1>16 DEF Next, Main, Worker

LEMMA GoneNext ==
  ASSUME Retried, Inv, Next
  PROVE  Gone'
<1> USE DEF durable, workers, target, loops
<1>1. CASE Save
  BY <1>1 DEF Save, Gone
<1>2. ASSUME NEW b \in Builds, Start(b) PROVE Gone'
  <2>1. /\ wanted' = b /\ wanted \in {NoBuild, b} /\ pc = "idle" /\ pc' = "stale" /\ gid' = b
        /\ UNCHANGED <<disk, stash, saved, journal>>
    BY <1>2 DEF Start, Retried
  <2>2. prev' = saved
    BY <2>1, LedgerNext DEF Ledger
  <2>3. files' = IF saved = NoBuild THEN {} ELSE FilesOf(saved) \ FilesOf(b)
    BY <1>2, <2>2 DEF Start, Stale
  <2>4. CASE wanted = b
    BY <2>1, <2>3, <2>4 DEF Inv, Gone, HadBefore, FilesOf
  <2>5. CASE wanted = NoBuild
    BY <2>1, <2>3, <2>5 DEF Inv, Ledger, Gone, HadBefore, FilesOf
  <2> QED BY <2>1, <2>4, <2>5
<1>3. CASE wanted' = wanted /\ saved' = saved /\ wanted # NoBuild
  <2> SUFFICES ASSUME NEW f \in Files, HadBefore(f), Manifest[wanted][f] = Absent
               PROVE  /\ stash'[f] # Absent => disk'[f] = Absent
                      /\ pc' # "idle" /\ (pc' = "stale" => f \notin files') => disk'[f] = Absent
    BY <1>3 DEF Gone, HadBefore
  <2>1. /\ stash[f] # Absent => disk[f] = Absent
        /\ pc # "idle" /\ (pc = "stale" => f \notin files) => disk[f] = Absent
    BY <1>3 DEF Inv, Gone
  <2>2. pc # "idle" => wanted = gid /\ prev = saved /\ f \notin FilesOf(gid) /\ gid \in Builds
    BY Running DEF Inv, Typed, Ledger, FilesOf
  <2>3. ASSUME disk'[f] = disk[f], stash'[f] \in {stash[f], Absent},
               pc' # "idle" /\ (pc' = "stale" => f \notin files') =>
                  pc # "idle" /\ (pc = "stale" => f \notin files)
        PROVE  /\ stash'[f] # Absent => disk'[f] = Absent
               /\ pc' # "idle" /\ (pc' = "stale" => f \notin files') => disk'[f] = Absent
    BY <2>1, <2>3
  <2>4. ASSUME NEW g \in Files, RemoveStale(g)
        PROVE  /\ stash'[f] # Absent => disk'[f] = Absent
               /\ pc' # "idle" /\ (pc' = "stale" => f \notin files') => disk'[f] = Absent
    <3>1. pc = "stale" /\ pc' = "stale" /\ files' = files \ {g}
      BY <2>4 DEF RemoveStale
    <3>2. CASE g = f
      <4>1. \/ stash[f] # Absent /\ disk' = disk /\ stash' = stash
            \/ disk'[f] = Absent
        BY <2>4, <3>2 DEF RemoveStale, MoveToStash, Inv, Typed, TypeOK
      <4> QED BY <2>1, <4>1
    <3>3. CASE g # f
      <4>1. disk'[f] = disk[f] /\ stash'[f] = stash[f]
        BY <2>4, <3>3 DEF RemoveStale, MoveToStash, Inv, Typed, TypeOK
      <4> QED BY <2>1, <3>1, <3>3, <4>1
    <3> QED BY <3>2, <3>3
  <2>5. ASSUME NEW g \in Files, MoveAside(g)
        PROVE  /\ stash'[f] # Absent => disk'[f] = Absent
               /\ disk'[f] = Absent
    <3>1. pc = "prepare" /\ g \in files
      BY <2>5 DEF MoveAside
    <3>2. g # f
      BY <2>2, <3>1 DEF Inv, Typed, Shape
    <3>3. disk'[f] = disk[f]
      BY <2>5, <3>2 DEF MoveAside, MoveToStash, Inv, Typed, TypeOK
    <3> QED BY <2>1, <3>1, <3>3
  <2>6. CASE CreateFile
    <3>1. pc = "create" /\ pc' = "prepare" /\ stash' = stash
      BY <2>6 DEF CreateFile
    <3>2. current \in FilesOf(gid)
      <4>1. current # NoFile
        BY <3>1 DEF Inv, Typed, TypeOK
      <4> QED BY <3>1, <4>1 DEF Inv, Typed, Shape
    <3>3. disk'[f] = disk[f]
      BY <2>2, <2>6, <3>1, <3>2 DEF CreateFile, Inv, Typed, TypeOK
    <3> QED BY <2>1, <3>1, <3>3
  <2>7. ASSUME NEW c \in Chunks, NEW t \in Targets(c), c \in writing, WriteTarget(t)
        PROVE  /\ stash'[f] # Absent => disk'[f] = Absent
               /\ disk'[f] = Absent
    <3>1. t[1] \in FilesOf(gid) /\ \A g \in Files : g # t[1] => disk'[g] = disk[g]
      BY <2>7, WritePreserves DEF Inv
    <3>2. pc \in {"classify", "work"}
      BY <2>7 DEF Inv, Typed, Shape
    <3> QED BY <2>1, <2>2, <3>1, <3>2
  <2>8. ASSUME NEW g \in Files, KeepFile(g) \/ Sweep(g)
        PROVE  /\ stash'[f] # Absent => disk'[f] = Absent
               /\ pc' # "idle" /\ (pc' = "stale" => f \notin files') => disk'[f] = Absent
    BY <2>3, <2>8 DEF KeepFile, Sweep, Inv, Typed, TypeOK
  <2>9. ASSUME NEW c \in Chunks,
               \/ SkipChunk(c) \/ ReuseChunk(c) \/ LeaveToFetch(c) \/ StartFetch(c)
               \/ FetchSucceeds(c) \/ FetchFails(c) \/ WriteFails(c) \/ Record(c)
        PROVE  /\ stash'[f] # Absent => disk'[f] = Absent
               /\ pc' # "idle" /\ (pc' = "stale" => f \notin files') => disk'[f] = Absent
    BY <2>3, <2>9 DEF SkipChunk, ReuseChunk, LeaveToFetch, StartFetch, FetchSucceeds,
       FetchFails, WriteFails, Record
  <2>10. CASE StaleRemoved \/ AllPrepared \/ AllClassified \/ WorkersDone \/ Swept
              \/ ClearJournal
    BY <2>3, <2>10 DEF StaleRemoved, AllPrepared, AllClassified, WorkersDone, Swept,
       ClearJournal
  <2>11. CASE LastFlush \/ Crash \/ Forget
    BY <2>3, <2>11 DEF LastFlush, Crash, Forget, ProcessEnds
  <2>12. CASE FlushTick \/ FlushEnds \/ FlusherStops
    BY <2>3, <2>12 DEF FlushTick, FlushEnds, FlusherStops, FlusherRunning
  <2>13. ASSUME NEW g \in Files, Tamper(g) PROVE FALSE
    BY <2>13 DEF Tamper, Retried
  <2>14. ASSUME NEW b \in Builds, Start(b)
         PROVE  /\ stash'[f] # Absent => disk'[f] = Absent
                /\ pc' # "idle" /\ (pc' = "stale" => f \notin files') => disk'[f] = Absent
    BY <1>2, <1>3, <2>14 DEF Gone, HadBefore
  <2> QED
    BY <1>1, <1>3, <2>4, <2>5, <2>6, <2>7, <2>8, <2>9, <2>10, <2>11, <2>12, <2>13, <2>14
       DEF Next, Main, Worker, Save, Gone, HadBefore
<1>4. CASE wanted' = wanted /\ wanted = NoBuild
  BY <1>4 DEF Gone
<1>5. CASE Forget
  BY <1>5 DEF Forget, Gone, HadBefore
<1> QED
  BY <1>1, <1>2, <1>3, <1>4, <1>5, BuildKept

LEMMA SweptCleanNext ==
  ASSUME Retried, Inv, Next
  PROVE  SweptClean'
<1> SUFFICES ASSUME pc' \in {"clear", "save"} PROVE \A f \in Files : stash'[f] = Absent
  BY DEF SweptClean
<1> USE DEF durable, workers, target, loops
<1>1. ASSUME NEW f \in Files, RemoveStale(f) \/ KeepFile(f) \/ MoveAside(f) \/ Sweep(f)
      PROVE  FALSE
  BY <1>1 DEF RemoveStale, KeepFile, MoveAside, Sweep
<1>2. ASSUME NEW c \in Chunks,
             \/ SkipChunk(c) \/ ReuseChunk(c) \/ LeaveToFetch(c) \/ StartFetch(c)
             \/ Worker(c)
      PROVE FALSE
  BY <1>2 DEF SkipChunk, ReuseChunk, LeaveToFetch, StartFetch, Worker, Turn,
     FetchSucceeds, FetchFails, WriteFails, WriteTarget, Record, Inv, Typed, Shape
<1>3. CASE StaleRemoved \/ CreateFile \/ AllPrepared \/ AllClassified \/ WorkersDone
           \/ Save \/ LastFlush \/ Crash \/ Forget \/ \E b \in Builds : Start(b)
  BY <1>3
     DEF StaleRemoved, CreateFile, AllPrepared, AllClassified, WorkersDone, Save,
         LastFlush, Crash, Forget, Start, ProcessEnds
<1>4. CASE FlushTick \/ FlushEnds \/ FlusherStops
  BY <1>4 DEF FlushTick, FlushEnds, FlusherStops, FlusherRunning, Inv, Ledger
<1>5. CASE Swept \/ ClearJournal
  BY <1>5 DEF Swept, ClearJournal, Inv, SweptClean
<1>6. ASSUME NEW g \in Files, Tamper(g) PROVE FALSE
  BY <1>6 DEF Tamper, Retried
<1> QED
  BY <1>1, <1>2, <1>3, <1>4, <1>5, <1>6 DEF Next, Main
LEMMA InvNext == Retried /\ Inv /\ [Next]_vars => Inv'
<1> SUFFICES ASSUME Retried, Inv, [Next]_vars PROVE Inv'
  OBVIOUS
<1>1. Typed'
  BY TypedNext DEF Inv
<1>2. CASE Next
  <2>1. Accounted'
    BY <1>2, AccountedNext DEF Inv, Ledger
  <2> QED BY <1>1, <1>2, <2>1, LedgerNext, KeptNext, AsideNext, PreparedNext, SizesNext,
             FreshFilesNext, JournaledNext, GoneNext, SweptCleanNext DEF Inv
<1>3. CASE UNCHANGED vars
  <2> USE <1>3 DEF vars, durable, loops, workers, target
  <2>1. Ledger' /\ Kept' /\ Aside' /\ Sizes' /\ FreshFiles' /\ Gone' /\ SweptClean'
    BY DEF Inv, Ledger, Kept, Aside, Sizes, FreshFiles, Gone, SweptClean, HadBefore
  <2>2. Prepared'
    BY DEF Inv, Prepared, HadBefore
  <2>3. \A c : Targets(c)' = Targets(c)
    BY DEF Targets, Places, FilesOf, ChunkAt
  <2>4. Journaled'
    BY <2>3 DEF Inv, Journaled
  <2>5. Accounted'
    BY <2>3 DEF Inv, Accounted
  <2> QED BY <1>1, <2>1, <2>2, <2>4, <2>5 DEF Inv
<1> QED
  BY <1>2, <1>3

LEMMA InvAlways == Retried => (Spec => []Inv)
<1> SUFFICES ASSUME Retried PROVE Spec => []Inv
  OBVIOUS
<1>1. Init => Inv
  BY InvInit
<1>2. Inv /\ [Next]_vars => Inv'
  BY InvNext
<1> QED
  BY <1>1, <1>2, PTL DEF Spec

----------------------------------------------------------------------------
(***************************************************************************)
(* What follows from it.                                                   *)
(***************************************************************************)
\* Under the retry discipline a run that is about to succeed has every chunk
\* of every file of the build on disk, however many runs it took and wherever
\* the others ended.
THEOREM MaterializedCorrect ==
  ASSUME Retried PROVE Spec => []Materialized
<1>1. Inv => Materialized
  BY MaterializedAtEnd DEF Materialized
<1>2. Spec => []Inv
  BY InvAlways
<1> QED
  BY <1>1, <1>2, PTL

\* ... and no file of the previous build that the new one does not have.
THEOREM NoStaleFileCorrect ==
  ASSUME Retried PROVE Spec => []NoStaleFile
<1>1. Inv => NoStaleFile
  <2> SUFFICES ASSUME Inv, pc \in {"clear", "save"}, saved # NoBuild,
                      NEW f \in FilesOf(saved) \ FilesOf(gid)
               PROVE  disk[f] = Absent
    BY DEF NoStaleFile
  <2>1. wanted = gid /\ gid \in Builds /\ gid # NoBuild
    BY Running, ConstantsAssumption DEF ConstantsAssumption, Inv, Typed, Ledger
  <2> QED BY <2>1 DEF Inv, Gone, HadBefore, FilesOf
<1>2. Spec => []Inv
  BY InvAlways
<1> QED
  BY <1>1, <1>2, PTL

\* Under the retry discipline the journal never lies: what it lets a resumed
\* run leave out is on disk, in every file the build has it in, at every step
\* and therefore wherever the process may die.
THEOREM JournalCorrect ==
  ASSUME Retried PROVE Spec => []JournalTruth
<1>1. Inv => JournalTruth
  BY DEF JournalTruth, Inv, Journaled, Holds
<1>2. Spec => []Inv
  BY InvAlways
<1> QED
  BY <1>1, <1>2, PTL

\* No flush brings the journal back once a run succeeded.
THEOREM NoJournalCorrect ==
  ASSUME Retried PROVE Spec => []NoJournalAfterSuccess
<1>1. Inv => NoJournalAfterSuccess
  BY DEF NoJournalAfterSuccess, Inv, Ledger
<1>2. Spec => []Inv
  BY InvAlways
<1> QED
  BY <1>1, <1>2, PTL

----------------------------------------------------------------------------
(***************************************************************************)
(* Depot implements Install.                                               *)
(***************************************************************************)
\* A step that changes a file is one of a run, and the file is one of the new
\* build's, or one of the old build's that it removes.
LEMMA DiskTouched ==
  ASSUME Retried, Inv, Next, NEW g \in Files, disk'[g] # disk[g]
  PROVE  /\ wanted # NoBuild /\ wanted' = wanted /\ saved' = saved
         /\ \/ g \in FilesOf(wanted)
            \/ saved # NoBuild /\ g \in FilesOf(saved) /\ disk'[g] = Absent
<1> USE DEF durable, workers, target, loops
<1>1. ~(\E b \in Builds : Start(b)) /\ ~Save /\ ~Forget
  BY DEF Start, Save, Forget
<1>2. wanted' = wanted /\ saved' = saved
  BY <1>1, BuildKept
<1>3. ASSUME NEW f \in Files, RemoveStale(f)
      PROVE  /\ pc # "idle" /\ prev # NoBuild /\ g \in FilesOf(prev) /\ disk'[g] = Absent
  <2>1. f = g /\ disk'[g] = Absent
    BY <1>3 DEF RemoveStale, MoveToStash, Inv, Typed, TypeOK
  <2> QED BY <1>3, <2>1 DEF RemoveStale, Inv, Typed, Shape
<1>4. ASSUME NEW f \in Files, MoveAside(f) PROVE pc # "idle" /\ g \in FilesOf(gid)
  <2>1. f = g
    BY <1>4 DEF MoveAside, MoveToStash, Inv, Typed, TypeOK
  <2> QED BY <1>4, <2>1 DEF MoveAside, Inv, Typed, Shape
<1>5. CASE CreateFile
  <2>1. pc = "create" /\ current = g
    BY <1>5 DEF CreateFile, Inv, Typed, TypeOK
  <2>2. current # NoFile
    BY <2>1, ConstantsAssumption DEF ConstantsAssumption
  <2> QED BY <1>2, <2>1, <2>2 DEF Inv, Typed, Shape, Ledger, TypeOK
<1>6. ASSUME NEW c \in Chunks, c \in writing, NEW t \in Targets(c), WriteTarget(t)
      PROVE  pc # "idle" /\ g \in FilesOf(gid)
  <2>1. t \in left /\ g = t[1]
    BY <1>6 DEF WriteTarget, Inv, Typed, TypeOK
  <2> QED BY <2>1 DEF Inv, Typed, Shape
<1>7. \/ \E f \in Files : RemoveStale(f) \/ MoveAside(f)
      \/ CreateFile
      \/ \E c \in Chunks : c \in writing /\ \E t \in Targets(c) : WriteTarget(t)
  <2>1. ASSUME NEW f \in Files, KeepFile(f) \/ Sweep(f) \/ Tamper(f) PROVE FALSE
    BY <2>1 DEF KeepFile, Sweep, Tamper, Retried
  <2>2. ASSUME NEW c \in Chunks,
               \/ SkipChunk(c) \/ ReuseChunk(c) \/ LeaveToFetch(c) \/ StartFetch(c)
               \/ FetchSucceeds(c) \/ FetchFails(c) \/ WriteFails(c) \/ Record(c)
        PROVE FALSE
    BY <2>2 DEF SkipChunk, ReuseChunk, LeaveToFetch, StartFetch, FetchSucceeds,
       FetchFails, WriteFails, Record
  <2>3. CASE StaleRemoved \/ AllPrepared \/ AllClassified \/ WorkersDone \/ LastFlush
             \/ Swept \/ ClearJournal \/ FlushTick \/ FlushEnds \/ FlusherStops \/ Crash
    BY <2>3 DEF StaleRemoved, AllPrepared, AllClassified, WorkersDone, LastFlush,
       Swept, ClearJournal, FlushTick, FlushEnds, FlusherStops, Crash
  <2> QED BY <1>1, <2>1, <2>2, <2>3 DEF Next, Main, Worker
<1>8. ASSUME pc # "idle"
      PROVE  wanted = gid /\ prev = saved /\ wanted # NoBuild
  BY <1>8, Running, ConstantsAssumption
     DEF ConstantsAssumption, Inv, Typed, Ledger
<1> QED
  BY <1>2, <1>3, <1>4, <1>5, <1>6, <1>7, <1>8

\* Until the new build is complete, a file that goes away is as it was or gone.
StaleKept ==
  wanted # NoBuild /\ saved # NoBuild =>
    \A f \in FilesOf(saved) \ FilesOf(wanted) : disk[f] \in {Manifest[saved][f], Absent}

LEMMA StaleKeptNext ==
  ASSUME Retried, Inv, StaleKept, Next
  PROVE  StaleKept'
<1> SUFFICES ASSUME wanted' # NoBuild, saved' # NoBuild,
                    NEW f \in FilesOf(saved') \ FilesOf(wanted')
             PROVE  disk'[f] \in {Manifest[saved'][f], Absent}
  BY DEF StaleKept, FilesOf
<1>1. f \in Files
  BY DEF FilesOf
<1>2. CASE wanted' = wanted /\ saved' = saved
  <2>1. disk[f] \in {Manifest[saved][f], Absent}
    BY <1>2 DEF StaleKept, FilesOf
  <2>2. CASE disk'[f] # disk[f]
    BY <1>1, <1>2, <2>2, DiskTouched DEF FilesOf
  <2> QED BY <1>2, <2>1, <2>2
<1>3. ASSUME NEW b \in Builds, Start(b) PROVE disk'[f] \in {Manifest[saved'][f], Absent}
  <2>1. saved' = saved /\ disk' = disk /\ wanted' = b /\ wanted \in {NoBuild, b}
    BY <1>3 DEF Start, durable, Retried
  <2>2. CASE wanted = NoBuild
    BY <2>1, <2>2 DEF Inv, Ledger, FilesOf
  <2> QED BY <1>2, <2>1, <2>2
<1>4. CASE Save
  BY <1>4 DEF Save
<1>5. CASE Forget
  BY <1>5 DEF Forget
<1> QED
  BY <1>2, <1>3, <1>4, <1>5, BuildKept

LEMMA InstallStep ==
  ASSUME Retried, Inv, StaleKept, Next
  PROVE  [Promise!Next]_(Promise!vars)
<1> DEFINE view == [f \in Settled |-> disk[f]]
<1>1. \A b \in Builds : Promise!FilesOf(b) = FilesOf(b)
  BY DEF Promise!FilesOf, FilesOf
<1>2. saved \in Builds \cup {NoBuild} /\ wanted \in Builds \cup {NoBuild} /\ NoBuild \notin Builds
  BY ConstantsAssumption DEF Inv, Typed, TypeOK, ConstantsAssumption
<1>3. Promise!Recorded = IF saved = NoBuild THEN {} ELSE FilesOf(saved)
  BY <1>1, <1>2 DEF Promise!Recorded
<1>4. CASE wanted' = wanted /\ saved' = saved
  <2>1. Settled' = Settled /\ Settled \subseteq Files
    BY <1>4 DEF Settled, FilesOf
  <2>2. \A f \in Settled : disk'[f] = disk[f]
    BY <2>1, DiskTouched DEF Settled
  <2>3. view' = view
    BY <2>1, <2>2
  <2> QED BY <1>4, <2>3 DEF Promise!vars
<1>5. ASSUME NEW b \in Builds, Start(b) PROVE [Promise!Next]_(Promise!vars)
  <2>1. saved' = saved /\ disk' = disk /\ wanted' = b /\ wanted \in {NoBuild, b}
    BY <1>5 DEF Start, durable, Retried
  <2>2. CASE wanted = NoBuild
    <3>1. Settled = Files /\ Settled' = Files \ (Promise!Recorded \cup FilesOf(b))
      BY <1>2, <1>3, <2>1, <2>2 DEF Settled, FilesOf
    <3>2. view' = [f \in Files \ (Promise!Recorded \cup Promise!FilesOf(b)) |-> view[f]]
      BY <1>1, <2>1, <3>1
    <3> QED BY <2>1, <2>2, <3>2 DEF Promise!Next, Promise!Begin
  <2> QED BY <1>4, <2>1, <2>2
<1>6. CASE Save
  <2>1. /\ pc = "save" /\ saved' = gid /\ wanted' = NoBuild /\ disk' = disk
        /\ gid = wanted /\ gid \in Builds
    BY <1>6, Running DEF Save, Inv, Typed, Ledger
  <2>2. Settled' = Files
    BY <2>1 DEF Settled
  <2>3. \A f \in FilesOf(gid) : disk[f] = Manifest[gid][f]
    BY <2>1, MaterializedAtEnd
  <2>4. \A f \in Promise!Recorded \ FilesOf(gid) : disk[f] = Absent
    BY <1>2, <1>3, <2>1 DEF Inv, Gone, HadBefore, FilesOf
  <2>5. \A f \in Files \ (Promise!Recorded \cup FilesOf(gid)) : f \in Settled
    BY <1>2, <1>3, <2>1 DEF Settled
  <2>6. view' = [f \in Files |-> IF f \in Promise!FilesOf(wanted) THEN Manifest[wanted][f]
                              ELSE IF f \in Promise!Recorded THEN Absent ELSE view[f]]
    BY <1>1, <2>1, <2>2, <2>3, <2>4, <2>5
  <2> QED BY <1>2, <2>1, <2>6 DEF Promise!Next, Promise!Finish
<1>7. CASE Forget
  <2> DEFINE back == IF wanted = NoBuild THEN {} ELSE Promise!Recorded \ Promise!FilesOf(wanted)
             gone == {f \in Promise!Recorded \ DOMAIN view : disk[f] = Absent}
  <2>1. saved # NoBuild /\ saved' = NoBuild /\ disk' = disk /\ wanted' = wanted
    BY <1>7 DEF Forget
  <2>2. Settled' = Settled \cup back
    BY <1>1, <1>2, <1>3, <2>1 DEF Settled, FilesOf
  <2>3. \A f \in back : disk[f] = IF f \in gone THEN Absent
                                 ELSE IF f \in Settled THEN view[f] ELSE Manifest[saved][f]
    BY <1>1, <1>2, <1>3, <2>1 DEF StaleKept, Settled
  <2>4. view' = [f \in DOMAIN view \cup back |->
                   IF f \in DOMAIN view THEN view[f]
                   ELSE IF f \in gone THEN Absent ELSE Manifest[saved][f]]
    BY <2>1, <2>2, <2>3
  <2>5. gone \in SUBSET (Promise!Recorded \ DOMAIN view)
    OBVIOUS
  <2> QED BY <2>1, <2>4, <2>5 DEF Promise!Next, Promise!Forget
<1> QED
  BY <1>4, <1>5, <1>6, <1>7, BuildKept

\* Under the retry discipline a directory goes from build to build in one step,
\* seen by one who relies on no file of an installation that is under way.
THEOREM InstallCorrect ==
  ASSUME Retried PROVE Spec => InstallsBuilds
<1>1. Init => Promise!Init /\ StaleKept
  <2> SUFFICES ASSUME Init PROVE Promise!Init /\ StaleKept
    OBVIOUS
  <2>1. wanted = NoBuild /\ Settled = Files
    BY DEF Init, Settled
  <2>2. disk \in [Files -> Leftovers] \/ (saved \in Builds /\ disk = Manifest[saved])
    BY DEF Init
  <2>3. [f \in Settled |-> disk[f]] = disk
    BY <2>1, <2>2, ConstantsAssumption DEF ConstantsAssumption
  <2> QED BY <2>1, <2>3 DEF Init, Promise!Init, StaleKept
<1>2. Inv /\ StaleKept /\ [Next]_vars => StaleKept' /\ [Promise!Next]_(Promise!vars)
  <2> SUFFICES ASSUME Inv, StaleKept, [Next]_vars
               PROVE  StaleKept' /\ [Promise!Next]_(Promise!vars)
    OBVIOUS
  <2>1. CASE Next
    BY <2>1, StaleKeptNext, InstallStep
  <2>2. CASE UNCHANGED vars
    BY <2>2 DEF vars, durable, StaleKept, Promise!vars, Settled, FilesOf
  <2> QED BY <2>1, <2>2
<1>3. Spec => []Inv
  BY InvAlways
<1> QED
  BY <1>1, <1>2, <1>3, PTL DEF Spec, InstallsBuilds, Promise!Spec

----------------------------------------------------------------------------
(***************************************************************************)
(* That no work of an interrupted run is lost: what is journaled stays     *)
(* journaled, and what the previous build holds is not fetched, over any   *)
(* number of runs that end in an error or a kill and are resumed.          *)
(***************************************************************************)
\* A file that the build being installed has as the build on record.
Same(f) == HadBefore(f) /\ Manifest[saved][f] = Manifest[wanted][f]

LEMMA InARun ==
  ASSUME Inv, pc # "idle"
  PROVE  /\ gid \in Builds /\ gid # NoBuild /\ wanted = gid /\ prev = saved
         /\ journal.gid \in {NoBuild, gid}
BY Running, ConstantsAssumption DEF ConstantsAssumption, Inv, Typed, Ledger

\* What is at rest between two runs.
LEMMA AtRest ==
  ASSUME Inv, pc = "idle"
  PROVE  /\ rewrite = {} /\ current = NoFile /\ order = {} /\ todo = {} /\ fetching = {}
         /\ writing = {} /\ memory = {} /\ snapshot = NoJournal
BY DEF Inv, Typed, TypeOK, Shape, Ledger

----------------------------------------------------------------------------
(***************************************************************************)
(* The journal only grows.                                                 *)
(***************************************************************************)
\* A file that did not change is not written to.
NotSame == \A f \in rewrite \cup ({current} \ {NoFile}) : ~Same(f)

LEMMA NotSameNext ==
  ASSUME Retried, Inv, NotSame, Next
  PROVE  NotSame'
<1> USE DEF durable, workers, target, loops
<1>1. CASE Moves
  <2>1. /\ wanted' = wanted /\ saved' = saved /\ prev = saved /\ wanted = gid /\ gid \in Builds
        /\ pc # "idle"
    BY <1>1, MovesPc
  <2>2. ASSUME NEW f \in Files, MoveAside(f) PROVE NotSame'
    <3>1. f \in files /\ ~Unchanged(f) /\ current' = f /\ rewrite' = rewrite /\ pc = "prepare"
      BY <2>2 DEF MoveAside
    <3>2. f \in FilesOf(gid)
      BY <3>1 DEF Inv, Typed, Shape
    <3>3. ASSUME Same(f) PROVE FALSE
      <4>1. Old(f) = Manifest[saved][f] /\ Old(f) = Manifest[gid][f]
        BY <2>1, <3>3 DEF Same, HadBefore, Old
      <4>2. disk[f] = Manifest[gid][f] /\ wanted # NoBuild
        BY <2>1, <3>2, <3>3, ConstantsAssumption
           DEF Inv, Kept, Same, ConstantsAssumption
      <4>3. disk[f] # Absent
        BY <3>2, <4>2 DEF FilesOf
      <4> QED BY <3>1, <4>1, <4>2, <4>3 DEF Unchanged, SizeIs
    <3> QED BY <2>1, <3>1, <3>3 DEF NotSame, Same, HadBefore
  <2>3. CASE CreateFile
    <3>1. rewrite' = rewrite \cup {current} /\ current' = NoFile /\ pc = "create"
      BY <2>3 DEF CreateFile
    <3>2. current # NoFile
      BY <3>1 DEF Inv, Typed, TypeOK
    <3> QED BY <2>1, <3>1, <3>2 DEF NotSame, Same, HadBefore
  <2> QED BY <1>1, <2>2, <2>3 DEF Moves
<1>2. CASE ~Moves
  <2>1. rewrite' \subseteq rewrite /\ current' \in {current, NoFile}
    BY <1>2, NotRewritten
  <2>2. CASE wanted' = wanted /\ saved' = saved
    BY <2>1, <2>2 DEF NotSame, Same, HadBefore
  <2>3. CASE Save \/ Forget \/ \E b \in Builds : Start(b)
    <3>1. rewrite' = {} /\ current' = NoFile
      BY <2>1, <2>3, AtRest DEF Save, ProcessEnds, Forget, Start
    <3> QED BY <3>1 DEF NotSame
  <2> QED BY <2>2, <2>3, BuildKept
<1> QED
  BY <1>1, <1>2

\* Chunks of a run are chunks of files it writes to.
UnderWork == order \cup todo \cup fetching \cup writing \cup memory
HasTargets == \A c \in UnderWork : Targets(c) # {}

LEMMA HasTargetsNext ==
  ASSUME Retried, Inv, HasTargets, Next
  PROVE  HasTargets'
<1> USE DEF durable, workers, target, loops
<1>1. ASSUME gid' = gid, rewrite' = rewrite, UnderWork' \subseteq UnderWork PROVE HasTargets'
  BY <1>1 DEF HasTargets, Targets, Places, ChunkAt, FilesOf
<1>2. ASSUME UnderWork' = {} PROVE HasTargets'
  BY <1>2 DEF HasTargets
<1>3. ASSUME NEW f \in Files, RemoveStale(f) \/ KeepFile(f) \/ Sweep(f) \/ MoveAside(f)
      PROVE HasTargets'
  BY <1>1, <1>3 DEF RemoveStale, KeepFile, Sweep, MoveAside, UnderWork
<1>4. ASSUME NEW c \in Chunks,
             \/ SkipChunk(c) \/ ReuseChunk(c) \/ LeaveToFetch(c) \/ StartFetch(c)
             \/ Worker(c)
      PROVE HasTargets'
  <2>1. gid' = gid /\ rewrite' = rewrite
    BY <1>4 DEF SkipChunk, ReuseChunk, LeaveToFetch, StartFetch, Worker,
       FetchSucceeds, FetchFails, WriteFails, WriteTarget, Record
  <2>2. UnderWork' \subseteq UnderWork
    BY <1>4 DEF SkipChunk, ReuseChunk, LeaveToFetch, StartFetch, Worker, Turn,
       FetchSucceeds, FetchFails, WriteFails, WriteTarget, Record, UnderWork
  <2> QED BY <1>1, <2>1, <2>2
<1>5. CASE StaleRemoved \/ AllClassified \/ WorkersDone \/ Swept
           \/ ClearJournal \/ FlushTick \/ FlushEnds \/ FlusherStops \/ Forget
  BY <1>1, <1>5 DEF StaleRemoved, AllClassified, WorkersDone, Swept,
     ClearJournal, FlushTick, FlushEnds, FlusherStops, Forget, UnderWork
<1>6. CASE CreateFile
  <2>1. UnderWork = {}
    BY <1>6 DEF CreateFile, UnderWork, Inv, Typed, Shape
  <2> QED BY <1>2, <1>6, <2>1 DEF CreateFile, UnderWork
<1>7. CASE AllPrepared
  <2>1. gid' = gid /\ rewrite' = rewrite
        /\ todo' = {} /\ fetching' = {} /\ writing' = {} /\ memory' = {}
    BY <1>7 DEF AllPrepared, Inv, Typed, Shape
  <2>2. \A c \in order' : Targets(c)' # {}
    BY <1>7 DEF AllPrepared, Targets, Places, ChunkAt, FilesOf
  <2> QED BY <2>1, <2>2 DEF HasTargets, UnderWork
<1>8. CASE Crash \/ Save \/ LastFlush
  BY <1>2, <1>8 DEF Crash, Save, LastFlush, ProcessEnds, UnderWork
<1>9. ASSUME NEW b \in Builds, Start(b) PROVE HasTargets'
  BY <1>2, <1>9, AtRest DEF Start, UnderWork
<1>10. ASSUME NEW g \in Files, Tamper(g) PROVE FALSE
  BY <1>10 DEF Tamper, Retried
<1> QED
  BY <1>3, <1>4, <1>5, <1>6, <1>7, <1>8, <1>9, <1>10 DEF Next, Main

\* What is journaled is of a file that is written to whenever the build is resumed.
Changed(c) == \E t \in Places(wanted) : ChunkAt(wanted, t) = c /\ ~Same(t[1])
JournalChanged == journal.gid # NoBuild => \A c \in journal.done : Changed(c)

\* What is journaled is in memory again before anything else is saved.
Carried ==
  /\ pc = "classify" /\ resuming => journal.done \subseteq order \cup memory
  /\ pc \in {"work", "stopping", "lastFlush"} /\ journal.gid # NoBuild =>
       journal.done \subseteq memory
  /\ snapshot # NoJournal =>
       /\ snapshot.done \subseteq memory
       /\ journal.gid # NoBuild => journal.done \subseteq snapshot.done

LEMMA JournalChangedNext ==
  ASSUME Retried, Inv, NotSame, HasTargets, Carried, JournalChanged, Next
  PROVE  JournalChanged'
<1> USE DEF durable, workers, target, loops
<1> SUFFICES ASSUME journal'.gid # NoBuild, NEW c \in journal'.done PROVE Changed(c)'
  BY DEF JournalChanged
<1>1. CASE wanted' = wanted /\ saved' = saved
  <2>1. Changed(c)' <=> Changed(c)
    BY <1>1 DEF Changed, Same, HadBefore, Places, ChunkAt, FilesOf
  <2>2. CASE journal' # journal
    <3>1. c \in memory /\ pc # "idle"
      BY <2>2, JournalSaved DEF Carried, FlushEnds, LastFlush
    <3>2. Targets(c) # {} /\ wanted = gid
      BY <3>1, InARun DEF HasTargets, UnderWork
    <3>3. PICK t \in Places(gid) : t[1] \in rewrite /\ ChunkAt(gid, t) = c
      BY <3>2 DEF Targets
    <3> QED BY <2>1, <3>2, <3>3 DEF Changed, NotSame
  <2> QED BY <2>1, <2>2 DEF JournalChanged
<1>2. CASE Save
  BY <1>2 DEF Save, Inv, Ledger, NoJournal
<1>3. CASE Forget
  <2>1. journal' = journal /\ wanted' = wanted /\ saved' = NoBuild
    BY <1>3 DEF Forget
  <2> QED BY <2>1 DEF JournalChanged, Changed, Same, HadBefore, Places, ChunkAt, FilesOf
<1>4. ASSUME NEW b \in Builds, Start(b) PROVE Changed(c)'
  <2>1. journal' = journal /\ wanted \in {NoBuild, b} /\ wanted' = b /\ saved' = saved
    BY <1>4 DEF Start, Retried
  <2>2. wanted # NoBuild
    BY <2>1 DEF Inv, Ledger, NoJournal
  <2> QED BY <1>1, <2>1, <2>2
<1> QED
  BY <1>1, <1>2, <1>3, <1>4, BuildKept

LEMMA CarriedNext ==
  ASSUME Retried, MovedAtOnce, Inv, JournalChanged, Carried, Next
  PROVE  Carried'
<1> USE DEF durable, workers, target, loops
<1>1. ASSUME NEW f \in Files, RemoveStale(f) \/ KeepFile(f) \/ Sweep(f) \/ MoveAside(f)
      PROVE Carried'
  BY <1>1 DEF RemoveStale, KeepFile, Sweep, MoveAside, Carried, Inv, Ledger
<1>2. ASSUME NEW c \in Chunks, SkipChunk(c) PROVE Carried'
  BY <1>2 DEF SkipChunk, Turn, Carried
<1>3. ASSUME NEW c \in Chunks, ReuseChunk(c) \/ LeaveToFetch(c) PROVE Carried'
  <2>1. pc = "classify" /\ ~Resumed(c)
    BY <1>3 DEF ReuseChunk, LeaveToFetch, Turn
  <2>2. resuming => c \notin journal.done
    BY <2>1 DEF Resumed, Inv, FreshFiles, Ledger
  <2> QED BY <1>3, <2>1, <2>2 DEF ReuseChunk, LeaveToFetch, Carried
<1>4. ASSUME NEW c \in Chunks, StartFetch(c) \/ Worker(c) PROVE Carried'
  <2>1. /\ UNCHANGED <<journal, snapshot, pc, resuming, order>>
        /\ memory \subseteq memory'
    BY <1>4 DEF StartFetch, Worker, FetchSucceeds, FetchFails, WriteFails, WriteTarget, Record
  <2> QED BY <2>1 DEF Carried
<1>5. CASE StaleRemoved \/ CreateFile \/ WorkersDone \/ Swept \/ Forget
  BY <1>5 DEF StaleRemoved, CreateFile, WorkersDone, Swept, Forget, Carried
<1>6. CASE AllPrepared
  <2>1. /\ pc = "prepare" /\ pc' = "classify" /\ gid \in Builds /\ wanted = gid /\ files = {}
        /\ UNCHANGED <<journal, resuming, memory, snapshot>>
    BY <1>6, InARun DEF AllPrepared
  <2>2. ASSUME resuming, NEW c \in journal.done PROVE c \in order'
    <3>1. journal.gid = gid /\ journal.gid # NoBuild
      BY <2>1, <2>2, InARun DEF Inv, Ledger
    <3>2. PICK t \in Places(gid) : ChunkAt(gid, t) = c /\ ~Same(t[1])
      BY <2>1, <3>1 DEF JournalChanged, Changed
    <3>3. t[1] \in FilesOf(gid) /\ current = NoFile /\ t[1] # current
      BY <2>1, <3>2, PlaceOf, ConstantsAssumption
         DEF Inv, Typed, TypeOK, FilesOf, ConstantsAssumption
    <3>4. t[1] \in rewrite
      BY <2>1, <3>2, <3>3 DEF Inv, Prepared, Same
    <3> QED BY <1>6, <3>2, <3>4 DEF AllPrepared
  <2> QED BY <2>1, <2>2 DEF Carried
<1>7. CASE AllClassified
  <2>1. /\ pc = "classify" /\ pc' = "work" /\ order = {}
        /\ UNCHANGED <<journal, memory, snapshot>>
    BY <1>7 DEF AllClassified
  <2>2. journal.gid # NoBuild => journal.done \subseteq memory
    BY <2>1 DEF Carried, Inv, Ledger
  <2> QED BY <2>1, <2>2 DEF Carried
<1>8. CASE ClearJournal
  BY <1>8 DEF ClearJournal, Carried, NoJournal, Inv, Ledger
<1>9. CASE FlushTick
  BY <1>9 DEF FlushTick, FlusherRunning, Carried
<1>10. CASE FlushEnds
  BY <1>10 DEF FlushEnds, SavesJournal, Carried, Inv, Ledger
<1>11. CASE FlusherStops
  BY <1>11 DEF FlusherStops, Carried
<1>12. CASE Crash \/ Save \/ LastFlush
  BY <1>12 DEF Crash, Save, LastFlush, ProcessEnds, Carried
<1>13. ASSUME NEW b \in Builds, Start(b) PROVE Carried'
  BY <1>13, AtRest DEF Start, Carried
<1>14. ASSUME NEW g \in Files, Tamper(g) PROVE FALSE
  BY <1>14 DEF Tamper, Retried
<1> QED
  BY <1>1, <1>2, <1>3, <1>4, <1>5, <1>6, <1>7, <1>8, <1>9, <1>10, <1>11, <1>12, <1>13, <1>14
     DEF Next, Main

Progress ==
  Inv /\ NotSame /\ HasTargets /\ JournalChanged /\ Carried

LEMMA ProgressAlways == Retried /\ MovedAtOnce => (Spec => []Progress)
<1> SUFFICES ASSUME Retried, MovedAtOnce PROVE Spec => []Progress
  OBVIOUS
<1>1. Init => Progress
  BY InvInit DEF Init, ProcessInit, Progress, NotSame, HasTargets, UnderWork,
     JournalChanged, Carried, NoJournal
<1>2. Progress /\ [Next]_vars => Progress'
  <2> SUFFICES ASSUME Progress, [Next]_vars PROVE Progress'
    OBVIOUS
  <2>1. CASE Next
    BY <2>1, InvNext, NotSameNext, HasTargetsNext, JournalChangedNext,
       CarriedNext DEF Progress
  <2>2. CASE UNCHANGED vars
    BY <2>2, InvNext DEF vars, durable, loops, workers, target, Progress, NotSame,
       HasTargets, UnderWork, JournalChanged, Carried, Changed, Same, HadBefore,
       Targets, Places, ChunkAt, FilesOf
  <2> QED BY <2>1, <2>2
<1> QED
  BY <1>1, <1>2, PTL DEF Spec

\* Under the retry discipline, and if old versions are moved aside when they are first
\* met, no step takes a chunk out of the journal of a build: the journal in memory, which
\* each run begins empty, has all of the saved one before it is saved over it.
THEOREM ProgressCorrect ==
  ASSUME Retried, MovedAtOnce PROVE Spec => ProgressKept
<1>1. Progress /\ [Next]_vars =>
        (journal.gid # NoBuild /\ journal'.gid = journal.gid => journal.done \subseteq journal'.done)
  <2> SUFFICES ASSUME Progress, [Next]_vars, journal.gid # NoBuild, journal'.gid = journal.gid,
                      journal' # journal
               PROVE  journal.done \subseteq journal'.done
    OBVIOUS
  <2>1. Next
    BY DEF vars, durable
  <2>2. /\ FlushEnds \/ LastFlush
        /\ FlushEnds => journal' = snapshot
        /\ LastFlush => journal'.done = memory
    BY <2>1, JournalSaved DEF Progress
  <2> QED BY <2>2 DEF Progress, Carried, FlushEnds, LastFlush
<1>2. Spec => []Progress
  BY ProgressAlways
<1> QED
  BY <1>1, <1>2, PTL DEF Spec, ProgressKept

----------------------------------------------------------------------------
(***************************************************************************)
(* What the previous build holds is not fetched.  The run must also not    *)
(* die between the removal of the journal and the saving of the manifest:  *)
(* the next one would take the build on record for what is on disk.        *)
(***************************************************************************)
Late == {"sweep", "clear", "save"}

\* Files of a build with chunks in them.
Full(b) == {f \in FilesOf(b) : Manifest[b][f] # <<>>}

\* A file whose move failed, and that is not at its path in its old size any more.
Overwritten(f) ==
  /\ f \in MoveCanFail /\ stash[f] = Absent
  /\ ~SizeIs(disk[f], Len(Manifest[saved][f]))

\* Until the sweep the old version of a file is in its stash, or still at its path, or
\* it could not be moved.
OldSafe ==
  wanted # NoBuild /\ saved # NoBuild /\ pc \notin Late =>
    \A f \in Full(saved) :
      \/ stash[f] = Manifest[saved][f]
      \/ stash[f] = Absent /\ disk[f] = Manifest[saved][f]
      \/ Overwritten(f)

\* Behind the loops, a file of the previous build is known to be in its stash, or it did
\* not change, or it could not be moved.
Indexed ==
  /\ pc = "idle" => oldFiles = {}
  /\ pc # "idle" /\ prev # NoBuild /\ pc \notin Late =>
       \A f \in Full(prev) :
         /\ f \in oldFiles => stash[f] # Absent
         /\ \/ f \in oldFiles \cup files \/ Same(f)
            \/ pc = "stale" /\ f \in FilesOf(gid)
            \/ f \in MoveCanFail /\ stash[f] = Absent

\* A file whose turn it is in one of the loops has an old version to be moved aside, or
\* one that cannot be, or it could not be moved before.
LEMMA OldIsThere ==
  ASSUME Inv, OldSafe, pc \in {"stale", "prepare"}, prev # NoBuild, NEW f \in Full(prev)
  PROVE  /\ prev = saved /\ Old(f) = Manifest[saved][f] /\ Old(f) # Absent /\ f \in Files
         /\ \/ CanStash(f, Len(Old(f))) /\ stash[f] = Manifest[saved][f]
            \/ /\ CanStash(f, Len(Old(f)))
               /\ stash[f] = Absent /\ disk[f] = Manifest[saved][f]
            \/ ~CanStash(f, Len(Old(f))) /\ Overwritten(f)
<1>1. prev = saved /\ wanted # NoBuild /\ saved \in Builds
  BY InARun DEF Inv, Typed, TypeOK
<1>2. f \in FilesOf(prev) /\ f \in Files /\ Manifest[prev][f] # <<>> /\ Manifest[prev][f] # Absent
  BY DEF Full, FilesOf
<1>3. Len(Manifest[prev][f]) # 0
  BY <1>1, <1>2, FilesOfBuild
<1>4. \/ stash[f] = Manifest[prev][f]
      \/ stash[f] = Absent /\ disk[f] = Manifest[prev][f]
      \/ Overwritten(f)
  BY <1>1 DEF OldSafe, Late
<1>5. Old(f) = Manifest[prev][f]
  BY DEF Old
<1>6. Overwritten(f) => ~CanStash(f, Len(Old(f)))
  BY <1>1, <1>3, <1>5 DEF Overwritten, CanStash, SizeIs
<1> QED
  BY <1>1, <1>2, <1>4, <1>5, <1>6 DEF CanStash

\* The turn of a file of the previous build in one of the two loops.
LEMMA TurnOfOld ==
  ASSUME Inv, OldSafe, prev # NoBuild, NEW f \in Full(prev), RemoveStale(f) \/ MoveAside(f)
  PROVE  /\ \A g \in Files : g # f => disk'[g] = disk[g] /\ stash'[g] = stash[g]
         /\ \/ stash'[f] = Manifest[saved][f]
            \/ /\ f \in MoveCanFail /\ stash'[f] = Absent
               /\ disk'[f] = Manifest[saved][f] \/ ~SizeIs(disk'[f], Len(Manifest[saved][f]))
         /\ \/ f \in oldFiles' /\ stash'[f] # Absent
            \/ f \in MoveCanFail /\ stash'[f] = Absent /\ oldFiles' = oldFiles
<1> DEFINE Rest == /\ \/ stash'[f] = Manifest[saved][f]
                      \/ /\ f \in MoveCanFail /\ stash'[f] = Absent
                         /\ \/ disk'[f] = Manifest[saved][f]
                            \/ ~SizeIs(disk'[f], Len(Manifest[saved][f]))
                   /\ \/ f \in oldFiles' /\ stash'[f] # Absent
                      \/ f \in MoveCanFail /\ stash'[f] = Absent /\ oldFiles' = oldFiles
<1>1. pc \in {"stale", "prepare"}
  BY DEF RemoveStale, MoveAside
<1>2. /\ Old(f) = Manifest[saved][f] /\ Old(f) # Absent /\ f \in Files
      /\ \/ CanStash(f, Len(Old(f))) /\ stash[f] = Manifest[saved][f]
         \/ /\ CanStash(f, Len(Old(f)))
            /\ stash[f] = Absent /\ disk[f] = Manifest[saved][f]
         \/ ~CanStash(f, Len(Old(f))) /\ Overwritten(f)
  BY <1>1, OldIsThere
<1>3. \A g \in Files : g # f => disk'[g] = disk[g] /\ stash'[g] = stash[g]
  BY <1>2 DEF RemoveStale, MoveAside, MoveToStash, Inv, Typed, TypeOK
<1>4. \/ /\ CanStash(f, Len(Old(f))) /\ MoveToStash(f) /\ oldFiles' = oldFiles \cup {f}
      \/ /\ CanStash(f, Len(Old(f))) => MoveFails(f)
         /\ stash' = stash /\ oldFiles' = oldFiles /\ disk'[f] \in {disk[f], Absent}
  BY <1>2 DEF RemoveStale, MoveAside, Inv, Typed, TypeOK
<1>5. ASSUME CanStash(f, Len(Old(f))), MoveToStash(f), oldFiles' = oldFiles \cup {f}
      PROVE  Rest
  BY <1>2, <1>5 DEF MoveToStash, Inv, Typed, TypeOK
<1>6. ASSUME CanStash(f, Len(Old(f))) => MoveFails(f),
             stash' = stash, oldFiles' = oldFiles, disk'[f] \in {disk[f], Absent}
      PROVE  Rest
  <2>1. f \in MoveCanFail /\ stash[f] = Absent
    BY <1>2, <1>6 DEF MoveFails, Overwritten
  <2>2. disk[f] = Manifest[saved][f] \/ ~SizeIs(disk[f], Len(Manifest[saved][f]))
    BY <1>2, <2>1 DEF Overwritten
  <2>3. ~SizeIs(Absent, Len(Manifest[saved][f]))
    BY DEF SizeIs
  <2> QED BY <1>6, <2>1, <2>2, <2>3
<1>7. Rest
  BY <1>4, <1>5, <1>6
<1> QED
  BY <1>3, <1>7

\* What is written to has its old version in the stash, or it could not be moved.
LEMMA WrittenIsStashed ==
  ASSUME Inv, NotSame, OldSafe, Indexed, saved # NoBuild,
         NEW f \in Full(saved), f \in FilesOf(gid) \ files, ~Same(f),
         pc \in {"create", "classify", "work"}
  PROVE  stash[f] = Manifest[saved][f] \/ (f \in MoveCanFail /\ stash[f] = Absent)
<1>1. prev = saved /\ wanted # NoBuild
  BY InARun
<1>2. (f \in oldFiles /\ stash[f] # Absent) \/ (f \in MoveCanFail /\ stash[f] = Absent)
  BY <1>1 DEF Indexed, Late
<1> QED
  BY <1>1, <1>2 DEF OldSafe, Overwritten, Late

\* A file that could not be moved and is written to has no longer its old size.
LEMMA NewSize ==
  ASSUME MovedAtOnce, Inv, saved # NoBuild, NEW f \in Full(saved), f \in MoveCanFail,
         f \in FilesOf(gid), gid \in Builds, gid = wanted, ~Same(f),
         NEW s, SizeIs(s, Len(Manifest[gid][f]))
  PROVE  ~SizeIs(s, Len(Manifest[saved][f])) /\ s # Manifest[saved][f]
<1>1. saved \in Builds /\ f \in Files /\ Manifest[saved][f] # Absent
  BY DEF Full, FilesOf, Inv, Typed, TypeOK
<1>2. Manifest[saved][f] # Manifest[gid][f]
  BY <1>1 DEF Same, HadBefore
<1>3. Len(Manifest[saved][f]) # Len(Manifest[gid][f])
  BY <1>1, <1>2 DEF MovedAtOnce, FilesOf
<1> QED
  BY <1>3 DEF SizeIs

LEMMA OldSafeNext ==
  ASSUME Retried, MovedAtOnce, "save" \notin CrashAt, Inv, NotSame, OldSafe, Indexed, Next
  PROVE  OldSafe'
<1> USE DEF durable, workers, target, loops
<1> DEFINE Safe(f) == \/ stash[f] = Manifest[saved][f]
                      \/ stash[f] = Absent /\ disk[f] = Manifest[saved][f]
                      \/ Overwritten(f)
<1>1. ASSUME wanted' = wanted, saved' = saved, pc \notin Late,
             \A f \in Full(saved) : saved # NoBuild /\ Safe(f) => Safe(f)'
      PROVE  OldSafe'
  BY <1>1 DEF OldSafe, Full, FilesOf, Overwritten
<1>2. ASSUME NEW f \in Files, RemoveStale(f) PROVE OldSafe'
  <2>1. /\ pc = "stale" /\ wanted' = wanted /\ saved' = saved /\ prev = saved
        /\ f \in FilesOf(prev) /\ prev # NoBuild
    BY <1>2, InARun DEF RemoveStale, Inv, Typed, Shape
  <2>2. CASE f \in Full(saved)
    <3>1. /\ \A g \in Files : g # f => disk'[g] = disk[g] /\ stash'[g] = stash[g]
          /\ Safe(f)'
      BY <1>2, <2>1, <2>2, TurnOfOld DEF Overwritten
    <3>2. \A g \in Full(saved) : g # f /\ Safe(g) => Safe(g)'
      BY <2>1, <3>1 DEF Full, FilesOf, Overwritten
    <3> QED BY <1>1, <2>1, <2>2, <3>1, <3>2 DEF Late
  <2>3. CASE f \notin Full(saved)
    <3>1. \A g \in Files : g # f => stash'[g] = stash[g] /\ disk'[g] = disk[g]
      BY <1>2 DEF RemoveStale, MoveToStash, Inv, Typed, TypeOK
    <3> QED BY <1>1, <2>1, <2>3, <3>1 DEF Late, Full, FilesOf, Overwritten
  <2> QED BY <2>2, <2>3
<1>3. ASSUME NEW f \in Files, MoveAside(f) PROVE OldSafe'
  <2>1. pc = "prepare" /\ wanted' = wanted /\ saved' = saved /\ prev = saved
    BY <1>3, InARun DEF MoveAside
  <2>2. CASE saved # NoBuild /\ f \in Full(saved)
    <3>1. /\ \A g \in Files : g # f => disk'[g] = disk[g] /\ stash'[g] = stash[g]
          /\ Safe(f)'
      BY <1>3, <2>1, <2>2, TurnOfOld DEF Overwritten
    <3>2. \A g \in Full(saved) : g # f /\ Safe(g) => Safe(g)'
      BY <2>1, <3>1 DEF Full, FilesOf, Overwritten
    <3> QED BY <1>1, <2>1, <2>2, <3>1, <3>2 DEF Late
  <2>3. CASE ~(saved # NoBuild /\ f \in Full(saved))
    <3>1. \A g \in Files : g # f => stash'[g] = stash[g] /\ disk'[g] = disk[g]
      BY <1>3 DEF MoveAside, MoveToStash, Inv, Typed, TypeOK
    <3> QED BY <1>1, <2>1, <2>3, <3>1 DEF Late, Full, FilesOf, Overwritten
  <2> QED BY <2>2, <2>3
<1>4. CASE CreateFile
  <2>1. /\ pc = "create" /\ wanted' = wanted /\ saved' = saved /\ stash' = stash
        /\ rewrite' = rewrite \cup {current} /\ gid' = gid
        /\ \A g \in Files : g # current => disk'[g] = disk[g]
    BY <1>4 DEF CreateFile, Inv, Typed, TypeOK
  <2>2. current # NoFile /\ current \in FilesOf(gid) \ files
    BY <2>1 DEF Inv, Typed, TypeOK, Shape
  <2>3. ~Same(current) /\ gid \in Builds /\ gid = wanted
    BY <2>1, <2>2, InARun DEF NotSame
  <2>4. SizeIs(disk'[current], Len(Manifest[gid][current]))
    BY <2>1, TypedNext DEF Inv, Typed, Shape
  <2>5. ASSUME saved # NoBuild, NEW f \in Full(saved), f = current PROVE Safe(f)'
    <3>1. stash[f] = Manifest[saved][f] \/ (f \in MoveCanFail /\ stash[f] = Absent)
      BY <2>1, <2>2, <2>3, <2>5, WrittenIsStashed
    <3> QED BY <2>1, <2>2, <2>3, <2>4, <2>5, <3>1, NewSize DEF Overwritten
  <2>6. \A g \in Full(saved) : g # current /\ Safe(g) => Safe(g)'
    BY <2>1 DEF Full, FilesOf, Overwritten
  <2> QED BY <1>1, <2>1, <2>5, <2>6 DEF Late
<1>5. ASSUME NEW c \in Chunks, c \in writing, NEW t \in Targets(c), WriteTarget(t) PROVE OldSafe'
  <2>1. /\ t[1] \in rewrite /\ t[1] \in FilesOf(gid)
        /\ \A g \in Files : g # t[1] => disk'[g] = disk[g]
    BY <1>5, WritePreserves DEF Inv
  <2>2. /\ wanted' = wanted /\ saved' = saved /\ stash' = stash
        /\ gid' = gid /\ rewrite' = rewrite
        /\ pc \in {"classify", "work"} /\ files = {}
    BY <1>5 DEF WriteTarget, Inv, Typed, Shape
  <2>3. ~Same(t[1]) /\ gid \in Builds /\ gid = wanted
    BY <2>1, <2>2, InARun DEF NotSame
  <2>4. SizeIs(disk'[t[1]], Len(Manifest[gid][t[1]]))
    BY <2>1, <2>2, TypedNext DEF Inv, Typed, Shape
  <2>5. ASSUME saved # NoBuild, t[1] \in Full(saved) PROVE Safe(t[1])'
    <3>1. \/ stash[t[1]] = Manifest[saved][t[1]]
          \/ t[1] \in MoveCanFail /\ stash[t[1]] = Absent
      BY <2>1, <2>2, <2>3, <2>5, WrittenIsStashed
    <3> QED BY <2>1, <2>2, <2>3, <2>4, <2>5, <3>1, NewSize DEF Overwritten
  <2>6. \A g \in Full(saved) : g # t[1] /\ Safe(g) => Safe(g)'
    BY <2>1, <2>2 DEF Full, FilesOf, Overwritten
  <2> QED BY <1>1, <2>2, <2>5, <2>6 DEF Late
<1>6. ASSUME UNCHANGED <<disk, stash, wanted, saved>>, pc \in Late => pc' \in Late
      PROVE  OldSafe'
  BY <1>6 DEF OldSafe, Full, FilesOf, Overwritten
<1>7. ASSUME NEW f \in Files, KeepFile(f) PROVE OldSafe'
  BY <1>6, <1>7 DEF KeepFile, Late
<1>8. ASSUME NEW f \in Files, Sweep(f) PROVE OldSafe'
  BY <1>8 DEF Sweep, OldSafe, Late
<1>9. ASSUME NEW c \in Chunks,
             \/ SkipChunk(c) \/ ReuseChunk(c) \/ LeaveToFetch(c) \/ StartFetch(c)
             \/ FetchSucceeds(c) \/ FetchFails(c) \/ WriteFails(c) \/ Record(c)
      PROVE OldSafe'
  BY <1>6, <1>9 DEF SkipChunk, ReuseChunk, LeaveToFetch, StartFetch, FetchSucceeds, FetchFails,
     WriteFails, Record
<1>10. CASE StaleRemoved \/ AllPrepared \/ AllClassified \/ WorkersDone \/ Swept
            \/ ClearJournal \/ FlushTick \/ FlushEnds \/ FlusherStops \/ LastFlush
  BY <1>6, <1>10 DEF StaleRemoved, AllPrepared, AllClassified, WorkersDone, Swept,
     ClearJournal, FlushTick, FlushEnds, FlusherStops, LastFlush, Late
<1>11. CASE Crash
  BY <1>6, <1>11 DEF Crash, Late, Retried
<1>12. CASE Save \/ Forget
  BY <1>12 DEF Save, Forget, OldSafe
<1>13. ASSUME NEW b \in Builds, Start(b) PROVE OldSafe'
  <2>1. /\ pc = "idle" /\ pc' = "stale" /\ wanted \in {NoBuild, b} /\ wanted' = b
        /\ UNCHANGED <<disk, stash, saved>>
    BY <1>13 DEF Start, Retried
  <2>2. CASE wanted = NoBuild
    BY <2>1, <2>2 DEF OldSafe, Full, FilesOf, Inv, Ledger
  <2>3. CASE wanted = b
    BY <1>6, <2>1, <2>3 DEF Late
  <2> QED BY <2>1, <2>2, <2>3
<1>14. ASSUME NEW g \in Files, Tamper(g) PROVE FALSE
  BY <1>14 DEF Tamper, Retried
<1> QED
  BY <1>2, <1>3, <1>4, <1>5, <1>7, <1>8, <1>9, <1>10, <1>11, <1>12, <1>13, <1>14
     DEF Next, Main, Worker

LEMMA IndexedNext ==
  ASSUME Retried, "save" \notin CrashAt, Inv, OldSafe, Indexed, Next
  PROVE  Indexed'
<1> USE DEF durable, workers, target, loops
<1> DEFINE In(f) == /\ f \in oldFiles => stash[f] # Absent
                    /\ \/ f \in oldFiles \cup files \/ Same(f)
                       \/ pc = "stale" /\ f \in FilesOf(gid)
                       \/ f \in MoveCanFail /\ stash[f] = Absent
\* In a step within a run, files are left as they are unless they are dealt with.
<1>1. ASSUME UNCHANGED <<wanted, saved, gid, prev>>, pc # "idle", pc' # "idle", pc \notin Late,
             \A f \in Full(prev) : prev # NoBuild /\ In(f) => In(f)'
      PROVE  Indexed'
  BY <1>1 DEF Indexed, Full, FilesOf
<1>2. ASSUME NEW f \in Files, RemoveStale(f) PROVE Indexed'
  <2>1. /\ pc = "stale" /\ pc' = "stale" /\ UNCHANGED <<wanted, saved, gid, prev>>
        /\ f \in FilesOf(prev) /\ prev # NoBuild /\ files' = files \ {f}
    BY <1>2 DEF RemoveStale, Inv, Typed, Shape
  <2>2. /\ \A g \in Files : g # f => stash'[g] = stash[g]
        /\ oldFiles' \in {oldFiles, oldFiles \cup {f}}
    BY <1>2 DEF RemoveStale, MoveToStash, Inv, Typed, TypeOK
  <2>3. ASSUME f \in Full(prev), In(f) PROVE In(f)'
    <3>1. \/ f \in oldFiles' /\ stash'[f] # Absent
          \/ f \in MoveCanFail /\ stash'[f] = Absent /\ oldFiles' = oldFiles
      BY <1>2, <2>1, <2>3, TurnOfOld
    <3>2. f \in oldFiles /\ stash[f] # Absent => stash'[f] # Absent
      BY <1>2 DEF RemoveStale, MoveToStash, Inv, Typed, TypeOK
    <3> QED BY <2>3, <3>1, <3>2
  <2>4. \A g \in Full(prev) : g # f /\ In(g) => In(g)'
    BY <2>1, <2>2 DEF Full, FilesOf, Same, HadBefore
  <2> QED BY <1>1, <2>1, <2>3, <2>4 DEF Late
<1>3. ASSUME NEW f \in Files, MoveAside(f) PROVE Indexed'
  <2>1. /\ pc = "prepare" /\ pc' = "create" /\ UNCHANGED <<wanted, saved, gid, prev>>
        /\ files' = files \ {f}
    BY <1>3 DEF MoveAside
  <2>2. /\ \A g \in Files : g # f => stash'[g] = stash[g]
        /\ oldFiles' \in {oldFiles, oldFiles \cup {f}}
    BY <1>3 DEF MoveAside, MoveToStash, Inv, Typed, TypeOK
  <2>3. ASSUME prev # NoBuild, f \in Full(prev), In(f) PROVE In(f)'
    <3>1. \/ f \in oldFiles' /\ stash'[f] # Absent
          \/ f \in MoveCanFail /\ stash'[f] = Absent /\ oldFiles' = oldFiles
      BY <1>3, <2>3, TurnOfOld
    <3>2. f \in oldFiles /\ stash[f] # Absent => stash'[f] # Absent
      BY <1>3 DEF MoveAside, MoveToStash, Inv, Typed, TypeOK
    <3> QED BY <2>3, <3>1, <3>2
  <2>4. \A g \in Full(prev) : g # f /\ In(g) => In(g)'
    BY <2>1, <2>2 DEF Full, FilesOf, Same, HadBefore
  <2> QED BY <1>1, <2>1, <2>3, <2>4 DEF Late
<1>4. ASSUME NEW f \in Files, KeepFile(f) PROVE Indexed'
  <2>1. /\ pc = "prepare" /\ pc' = "prepare" /\ UNCHANGED <<wanted, saved, gid, prev, stash, oldFiles>>
        /\ files' = files \ {f} /\ Unchanged(f) /\ prev = saved /\ wanted = gid
    BY <1>4, InARun DEF KeepFile
  <2>2. f \in Full(prev) /\ prev # NoBuild => Same(f)
    BY <2>1 DEF Unchanged, Old, Same, HadBefore, Full, FilesOf
  <2>3. \A g \in Full(prev) : prev # NoBuild /\ In(g) => In(g)'
    BY <2>1, <2>2 DEF FilesOf, Same, HadBefore
  <2> QED BY <1>1, <2>1, <2>3 DEF Late
<1>5. CASE StaleRemoved
  <2>1. /\ pc = "stale" /\ pc' = "prepare" /\ UNCHANGED <<wanted, saved, gid, prev, stash, oldFiles>>
        /\ files = {} /\ files' = FilesOf(gid)
    BY <1>5 DEF StaleRemoved
  <2>2. \A g \in Full(prev) : prev # NoBuild /\ In(g) => In(g)'
    BY <2>1 DEF FilesOf, Same, HadBefore
  <2> QED BY <1>1, <2>1, <2>2 DEF Late
<1>6. ASSUME UNCHANGED <<wanted, saved, gid, prev, stash, oldFiles, files>>,
             pc' # "idle", pc \notin {"idle", "stale"}, pc \in Late => pc' \in Late
      PROVE  Indexed'
  BY <1>6 DEF Indexed, Full, FilesOf, Same, HadBefore
<1>7. ASSUME NEW f \in Files, Sweep(f) PROVE Indexed'
  BY <1>7 DEF Sweep, Indexed, Late
<1>8. ASSUME NEW c \in Chunks,
             \/ SkipChunk(c) \/ ReuseChunk(c) \/ LeaveToFetch(c) \/ StartFetch(c) \/ Worker(c)
      PROVE Indexed'
  <2>1. pc \in {"classify", "work"}
    BY <1>8 DEF SkipChunk, ReuseChunk, LeaveToFetch, StartFetch, Worker, Turn,
       FetchSucceeds, FetchFails, WriteFails, WriteTarget, Record, Inv, Typed, Shape
  <2>2. UNCHANGED <<wanted, saved, gid, prev, stash, oldFiles, files, pc>>
    BY <1>8 DEF SkipChunk, ReuseChunk, LeaveToFetch, StartFetch, Worker,
       FetchSucceeds, FetchFails, WriteFails, WriteTarget, Record
  <2> QED BY <1>6, <2>1, <2>2
<1>9. CASE CreateFile \/ AllPrepared \/ AllClassified \/ WorkersDone \/ Swept
           \/ ClearJournal \/ FlushTick \/ FlusherStops
  BY <1>6, <1>9 DEF CreateFile, AllPrepared, AllClassified, WorkersDone, Swept,
     ClearJournal, FlushTick, FlusherStops, FlusherRunning, Late
<1>10. CASE FlushEnds
  BY <1>6, <1>10 DEF FlushEnds, Inv, Ledger
<1>11. CASE Crash \/ Save \/ LastFlush
  BY <1>11 DEF Crash, Save, LastFlush, ProcessEnds, Indexed
<1>12. CASE Forget
  BY <1>12 DEF Forget, Indexed
<1>13. ASSUME NEW b \in Builds, Start(b) PROVE Indexed'
  <2>1. /\ pc = "idle" /\ pc' = "stale" /\ oldFiles' = {} /\ gid' = b
        /\ files' = Stale(prev', b)
    BY <1>13 DEF Start, Indexed
  <2>2. \A f \in Full(prev)' : prev' # NoBuild => f \in files' \/ f \in FilesOf(gid)'
    BY <2>1 DEF Full, FilesOf, Stale
  <2> QED BY <2>1, <2>2 DEF Indexed
<1>14. ASSUME NEW g \in Files, Tamper(g) PROVE FALSE
  BY <1>14 DEF Tamper, Retried
<1> QED
  BY <1>2, <1>3, <1>4, <1>5, <1>7, <1>8, <1>9, <1>10, <1>11, <1>12, <1>13, <1>14
     DEF Next, Main

\* What is read for a chunk that a file of the previous build still holds is that chunk.
LEMMA FoundLocally ==
  ASSUME Inv, OldSafe, Indexed, pc = "classify", prev # NoBuild, NEW c,
         NEW t \in Places(prev), ChunkAt(prev, t) = c, ~Lost(t[1])
  PROVE  LocalBlocks(c) = {c}
<1>1. /\ prev = saved /\ wanted = gid /\ wanted # NoBuild /\ files = {}
      /\ saved \in Builds /\ gid \in Builds
  BY InARun DEF Inv, Typed, TypeOK, Shape
<1> DEFINE Size(u) == Len(Manifest[prev][u[1]])
           Found(u) == BlockAt(IF u[1] \in oldFiles THEN stash[u[1]] ELSE disk[u[1]], u[2])
           Indexable(u) == u[1] \in oldFiles \/ SizeIs(disk[u[1]], Size(u))
<1>2. ASSUME NEW u \in Places(prev), ChunkAt(prev, u) = c
      PROVE  /\ Indexable(u) => Found(u) = c
             /\ ~Lost(u[1]) => Indexable(u)
  <2>1. /\ u[1] \in FilesOf(prev) /\ u[2] \in 1..Size(u) /\ Size(u) \in Nat
        /\ Manifest[prev][u[1]] # Absent /\ Manifest[prev][u[1]] \in Seq(Chunks)
    BY <1>1, PlaceOf, FilesOfBuild DEF FilesOf
  <2>2. u[1] \in Full(prev)
    BY <2>1 DEF Full
  <2>3. BlockAt(Manifest[prev][u[1]], u[2]) = c /\ SizeIs(Manifest[prev][u[1]], Size(u))
    BY <1>2, <2>1 DEF BlockAt, ChunkAt, SizeIs
  <2>4. CASE u[1] \in oldFiles
    <3>1. stash[u[1]] = Manifest[prev][u[1]]
      BY <1>1, <2>2, <2>4 DEF Indexed, OldSafe, Overwritten, Late
    <3> QED BY <2>3, <2>4, <3>1
  <2>5. CASE Same(u[1]) /\ u[1] \notin oldFiles
    <3>1. u[1] \in FilesOf(wanted)
      BY <1>1, <2>1, <2>5 DEF Same, HadBefore, FilesOf
    <3>2. disk[u[1]] = Manifest[prev][u[1]]
      BY <1>1, <2>5, <3>1 DEF Inv, Kept, Same
    <3> QED BY <2>3, <2>5, <3>2
  <2>6. CASE u[1] \in MoveCanFail /\ stash[u[1]] = Absent /\ u[1] \notin oldFiles
    <3>1. disk[u[1]] = Manifest[prev][u[1]] \/ ~SizeIs(disk[u[1]], Size(u))
      BY <1>1, <2>1, <2>2, <2>6 DEF OldSafe, Overwritten, Late
    <3>2. ~Lost(u[1]) => disk[u[1]] = Manifest[prev][u[1]]
      BY <2>1, <2>6 DEF Lost
    <3> QED BY <2>3, <2>6, <3>1, <3>2
  <2> QED BY <1>1, <2>2, <2>4, <2>5, <2>6 DEF Indexed, Late
<1>3. PreviousBlocks(c) = {c}
  <2> DEFINE Readable == {u \in Places(prev) : ChunkAt(prev, u) = c /\ Indexable(u)}
  <2>1. PreviousBlocks(c) = {Found(u) : u \in Readable}
    BY DEF PreviousBlocks
  <2>2. t \in Readable
    BY <1>2
  <2>3. \A u \in Readable : Found(u) = c
    BY <1>2
  <2> HIDE DEF Readable, Found
  <2>4. {Found(u) : u \in Readable} = {c}
    BY <2>2, <2>3
  <2> QED BY <2>1, <2>4
<1> QED
  BY <1>3 DEF LocalBlocks

\* What is lost stays so while the files are written to.
LEMMA LostStays ==
  ASSUME MovedAtOnce, Inv, NotSame, prev # NoBuild, NEW c \in Chunks, c \in writing,
         NEW t \in Targets(c), WriteTarget(t), NEW f \in FilesOf(prev), Lost(f)
  PROVE  Lost(f)'
<1>1. /\ stash' = stash /\ prev' = prev /\ gid' = gid /\ rewrite' = rewrite
      /\ pc \in {"classify", "work"}
  BY DEF WriteTarget, target, loops, Inv, Typed, Shape
<1>2. /\ t[1] \in rewrite /\ t[1] \in FilesOf(gid)
      /\ \A g \in Files : g # t[1] => disk'[g] = disk[g]
  BY WritePreserves DEF Inv
<1>3. f \in Files /\ prev = saved /\ gid \in Builds /\ gid = wanted
  BY <1>1, InARun DEF FilesOf
<1>4. CASE f # t[1]
  BY <1>1, <1>2, <1>3, <1>4 DEF Lost
<1>5. CASE f = t[1]
  <2>1. SizeIs(disk'[f], Len(Manifest[gid][f]))
    <3>1. Typed'
      <4>1. \E d \in Chunks : Worker(d)
        BY DEF Worker
      <4> QED BY <4>1, TypedNext DEF Inv, Next
    <3> QED BY <1>1, <1>2, <1>5, <3>1 DEF Typed, Shape
  <2>2. ~Same(f)
    BY <1>2, <1>5 DEF NotSame
  <2>3. f \in Full(saved)
    <3>1. Manifest[saved][f] = <<>> => Manifest[gid][f] = <<>>
      BY <1>2, <1>3, <1>5 DEF MovedAtOnce, FilesOf, Inv, Typed, TypeOK
    <3> QED BY <1>3, <2>2, <3>1 DEF Full, Same, HadBefore, FilesOf
  <2>4. disk'[f] # Manifest[saved][f]
    BY <1>2, <1>3, <1>5, <2>1, <2>2, <2>3, NewSize DEF Lost
  <2> QED BY <1>1, <1>3, <2>4 DEF Lost
<1> QED
  BY <1>4, <1>5

LEMMA OnlyMissingNext ==
  ASSUME Retried, MovedAtOnce, Inv, NotSame, OldSafe, Indexed, OnlyMissingFetched, Next
  PROVE  OnlyMissingFetched'
<1> USE DEF durable, workers, target, loops
<1>1. ASSUME prev' = prev, (todo \cup fetching)' \subseteq todo \cup fetching,
             \A f \in Files : prev # NoBuild /\ f \in FilesOf(prev) /\ Lost(f) => Lost(f)'
      PROVE  OnlyMissingFetched'
  <2> SUFFICES ASSUME prev # NoBuild, NEW c \in (todo \cup fetching)', NEW f \in Holders(c)'
               PROVE  Lost(f)'
    BY <1>1 DEF OnlyMissingFetched
  <2>1. Holders(c)' = Holders(c)
    BY <1>1 DEF Holders, Places, ChunkAt, FilesOf
  <2>2. Lost(f)
    BY <1>1, <2>1 DEF OnlyMissingFetched
  <2>3. f \in FilesOf(prev) /\ f \in Files
    BY <2>1 DEF Holders, Places, FilesOf
  <2> QED BY <1>1, <2>2, <2>3
<1>2. ASSUME prev' = prev, (todo \cup fetching)' \subseteq todo \cup fetching,
             UNCHANGED <<disk, stash>>
      PROVE  OnlyMissingFetched'
  BY <1>1, <1>2 DEF Lost
<1>3. ASSUME (todo \cup fetching)' = {} PROVE OnlyMissingFetched'
  BY <1>3 DEF OnlyMissingFetched
<1>4. ASSUME NEW c \in Chunks, LeaveToFetch(c) PROVE OnlyMissingFetched'
  <2>1. /\ pc = "classify" /\ LocalBlocks(c) # {c} /\ UNCHANGED <<prev, disk, stash>>
        /\ (todo \cup fetching)' = todo \cup fetching \cup {c}
    BY <1>4 DEF LeaveToFetch, Turn
  <2>2. ASSUME prev # NoBuild, NEW f \in Holders(c) PROVE Lost(f)
    <3>1. PICK t \in Places(prev) : ChunkAt(prev, t) = c /\ f = t[1]
      BY <2>2 DEF Holders
    <3> QED BY <2>1, <2>2, <3>1, FoundLocally
  <2>3. \A d : Holders(d)' = Holders(d)
    BY <2>1 DEF Holders, Places, ChunkAt, FilesOf
  <2>4. \A f : Lost(f)' <=> Lost(f)
    BY <2>1 DEF Lost
  <2> QED BY <2>1, <2>2, <2>3, <2>4 DEF OnlyMissingFetched
<1>5. ASSUME NEW f \in Files, RemoveStale(f) \/ KeepFile(f) \/ Sweep(f) \/ MoveAside(f)
      PROVE OnlyMissingFetched'
  <2>1. todo = {} /\ fetching = {}
    BY <1>5 DEF RemoveStale, KeepFile, Sweep, MoveAside, Inv, Typed, Shape, Accounted
  <2> QED BY <1>3, <1>5, <2>1 DEF RemoveStale, KeepFile, Sweep, MoveAside
<1>6. CASE StaleRemoved \/ CreateFile
  <2>1. todo = {} /\ fetching = {}
    BY <1>6 DEF StaleRemoved, CreateFile, Inv, Typed, Shape
  <2> QED BY <1>3, <1>6, <2>1 DEF StaleRemoved, CreateFile
<1>7. ASSUME NEW c \in Chunks,
             \/ SkipChunk(c) \/ ReuseChunk(c) \/ StartFetch(c)
             \/ FetchSucceeds(c) \/ FetchFails(c) \/ WriteFails(c) \/ Record(c)
      PROVE OnlyMissingFetched'
  BY <1>2, <1>7 DEF SkipChunk, ReuseChunk, StartFetch, Turn,
     FetchSucceeds, FetchFails, WriteFails, Record
<1>8. ASSUME NEW c \in Chunks, c \in writing, NEW t \in Targets(c), WriteTarget(t)
      PROVE OnlyMissingFetched'
  <2>1. UNCHANGED <<prev, todo, fetching>>
    BY <1>8 DEF WriteTarget
  <2> QED BY <1>1, <1>8, <2>1, LostStays
<1>9. CASE AllPrepared \/ AllClassified \/ WorkersDone \/ Swept
           \/ ClearJournal \/ FlushTick \/ FlushEnds \/ FlusherStops \/ Forget
  BY <1>2, <1>9 DEF AllPrepared, AllClassified, WorkersDone, Swept,
     ClearJournal, FlushTick, FlushEnds, FlusherStops, Forget
<1>10. CASE Crash \/ Save \/ LastFlush
  BY <1>3, <1>10 DEF Crash, Save, LastFlush, ProcessEnds
<1>11. ASSUME NEW b \in Builds, Start(b) PROVE OnlyMissingFetched'
  BY <1>3, <1>11, AtRest DEF Start
<1>12. ASSUME NEW g \in Files, Tamper(g) PROVE FALSE
  BY <1>12 DEF Tamper, Retried
<1> QED
  BY <1>4, <1>5, <1>6, <1>7, <1>8, <1>9, <1>10, <1>11, <1>12 DEF Next, Main, Worker

Reuse == Inv /\ NotSame /\ OldSafe /\ Indexed /\ OnlyMissingFetched

\* Under the retry discipline, if old versions are moved aside when they are first met, or
\* cannot be, and if no run dies with its journal gone and its manifest not saved: no chunk
\* is fetched that a file of the build on record still holds, by the first run or by those
\* that resume it, wherever the others ended.  A file holds its chunks until its move
\* failed and it was written over or removed.
THEOREM OnlyMissingCorrect ==
  ASSUME Retried, MovedAtOnce, "save" \notin CrashAt PROVE Spec => []OnlyMissingFetched
<1>1. Init => Reuse
  BY InvInit DEF Init, ProcessInit, Reuse, NotSame, OldSafe, Indexed, OnlyMissingFetched
<1>2. Reuse /\ [Next]_vars => Reuse'
  <2> SUFFICES ASSUME Reuse, [Next]_vars PROVE Reuse'
    OBVIOUS
  <2>1. CASE Next
    BY <2>1, InvNext, NotSameNext, OldSafeNext, IndexedNext, OnlyMissingNext DEF Reuse
  <2>2. CASE UNCHANGED vars
    BY <2>2, InvNext DEF vars, durable, loops, workers, target, Reuse, NotSame, OldSafe,
       Overwritten, Indexed, OnlyMissingFetched, Lost, Holders, Same, HadBefore, Full,
       Places, ChunkAt, FilesOf
  <2> QED BY <2>1, <2>2
<1>3. Reuse => OnlyMissingFetched
  BY DEF Reuse
<1> QED
  BY <1>1, <1>2, <1>3, PTL DEF Spec
----------------------------------------------------------------------------
(***************************************************************************)
(* What a run may skip, whatever builds are asked for in turn and whatever *)
(* files go between two runs: the journal an ended run leaves is true of   *)
(* the files a later run takes up, and no others (Orderly below).          *)
(***************************************************************************)
\* Runs end by themselves, but for a kill before the first file of the build is
\* touched or after the journal is gone; a journal is saved when that is tried;
\* nobody forgets the record; and what somebody puts at a path between two runs
\* has not the size any build has there.
Orderly ==
  /\ CrashAt \subseteq {"stale", "save"} /\ ~SaveCanFail /\ ~MayForget
  /\ MayTamper =>
       \A s \in Leftovers, b \in Builds : \A f \in FilesOf(b) :
         ~SizeIs(s, Len(Manifest[b][f]))

\* What a run was started from, and whose journal is on disk.
Source ==
  /\ prev # NoBuild => prev = saved
  /\ pc = "stale" /\ prev # NoBuild => journal.gid \in {gid, NoBuild}
  /\ ~resuming => done = {}
  /\ pc \in {"stale", "prepare", "create", "classify"} /\ resuming =>
       journal = [gid |-> gid, done |-> done] /\ prev = saved
  /\ snapshot # NoJournal => pc \in {"work", "stopping"}
  /\ pc = "save" => journal = NoJournal

\* With build r on record, a run for b keeps file f when it has its size.
AsOnRecord(r, b, f) == r # NoBuild /\ Manifest[r][f] = Manifest[b][f]

\* In d, chunks of D are in the files of F where b has them, but for files that
\* will be seen to be of another size and those that will not be taken up.
TrueOf(d, r, b, D, F) ==
  \A t \in Places(b) :
    t[1] \in F /\ ChunkAt(b, t) \in D =>
      \/ ~SizeIs(d[t[1]], Len(Manifest[b][t[1]]))
      \/ Holds(d, b, t)
      \/ AsOnRecord(r, b, t[1])

\* The journal, between two runs and while one that resumes it prepares files.
Vouched ==
  /\ pc \in {"idle", "stale"} /\ journal.gid # NoBuild =>
       TrueOf(disk, saved, journal.gid, journal.done, Files)
  /\ pc \in {"prepare", "create"} /\ resuming => TrueOf(disk, saved, gid, done, files)
  /\ pc \in {"prepare", "create", "classify"} /\ resuming =>
       \A t \in Places(gid) :
         /\ ChunkAt(gid, t) \in done
         /\ t[1] \in (rewrite \cup {current}) \ fresh
         => Holds(disk, gid, t)

\* Chunks recorded in memory, or on their way to the files.
InPlace ==
  /\ \A c \in memory : \A t \in Targets(c) : Holds(disk, gid, t)
  /\ \A c \in writing : \A t \in Targets(c) : t \in left \/ Holds(disk, gid, t)

\* Files that are not written to are as on record.
Taken ==
  pc \notin {"idle", "stale"} =>
    \A f \in FilesOf(gid) :
      f \in files \/ f = current \/ f \in rewrite \/ AsOnRecord(saved, gid, f)

SkipInv == Typed /\ Source /\ Vouched /\ InPlace /\ Taken /\ Accounted

\* A step behind the loops over files disturbs no chunk of the build.
LEMMA LatePreserves ==
  ASSUME Typed, Next, pc \notin {"idle", "stale", "prepare", "create"}
  PROVE  Preserves(gid)
<1> USE DEF durable, workers, target, loops
<1>1. ASSUME NEW f \in Files,
             RemoveStale(f) \/ KeepFile(f) \/ MoveAside(f) \/ Sweep(f) \/ Tamper(f)
      PROVE  Preserves(gid)
  BY <1>1, SamePreserves DEF RemoveStale, KeepFile, MoveAside, Sweep, Tamper
<1>2. ASSUME NEW c \in Chunks,
             \/ SkipChunk(c) \/ ReuseChunk(c) \/ LeaveToFetch(c) \/ StartFetch(c)
             \/ FetchSucceeds(c) \/ FetchFails(c) \/ WriteFails(c) \/ Record(c)
      PROVE  Preserves(gid)
  BY <1>2, SamePreserves
     DEF SkipChunk, ReuseChunk, LeaveToFetch, StartFetch, FetchSucceeds, FetchFails,
         WriteFails, Record
<1>3. ASSUME NEW c \in Chunks, c \in writing, NEW t \in Targets(c), WriteTarget(t)
      PROVE  Preserves(gid)
  BY <1>3, WritePreserves
<1>4. CASE \/ StaleRemoved \/ CreateFile \/ AllPrepared \/ AllClassified \/ WorkersDone
           \/ LastFlush \/ Swept \/ ClearJournal \/ Save
  BY <1>4, SamePreserves
     DEF StaleRemoved, CreateFile, AllPrepared, AllClassified, WorkersDone, LastFlush,
         Swept, ClearJournal, Save
<1>5. CASE FlushTick \/ FlushEnds \/ FlusherStops \/ Forget \/ Crash
  BY <1>5, SamePreserves DEF FlushTick, FlushEnds, FlusherStops, Forget, Crash
<1>6. ASSUME NEW b \in Builds, Start(b) PROVE Preserves(gid)
  BY <1>6 DEF Start
<1> QED
  BY <1>1, <1>2, <1>3, <1>4, <1>5, <1>6 DEF Next, Main, Worker

LEMMA SourceNext ==
  ASSUME Orderly, SkipInv, Next
  PROVE  Source'
<1> USE DEF durable, workers, target, loops, SkipInv
<1>1. ASSUME NEW f \in Files, RemoveStale(f) \/ KeepFile(f) \/ MoveAside(f) \/ Sweep(f)
      PROVE  Source'
  BY <1>1 DEF RemoveStale, KeepFile, MoveAside, Sweep, Source
<1>2. ASSUME NEW f \in Files, Tamper(f) PROVE Source'
  BY <1>2 DEF Tamper, Source
<1>3. ASSUME NEW c \in Chunks,
             \/ SkipChunk(c) \/ ReuseChunk(c) \/ LeaveToFetch(c) \/ StartFetch(c)
             \/ Worker(c)
      PROVE  Source'
  <2>1. CASE SkipChunk(c) \/ ReuseChunk(c) \/ LeaveToFetch(c)
    BY <2>1 DEF SkipChunk, ReuseChunk, LeaveToFetch, Source
  <2>2. CASE StartFetch(c) \/ FetchSucceeds(c) \/ FetchFails(c)
    BY <2>2 DEF StartFetch, FetchSucceeds, FetchFails, Source
  <2>3. ASSUME NEW t \in Targets(c), WriteTarget(t) PROVE Source'
    BY <2>3 DEF WriteTarget, Source
  <2>4. CASE WriteFails(c) \/ Record(c)
    BY <2>4 DEF WriteFails, Record, Source
  <2> QED BY <1>3, <2>1, <2>2, <2>3, <2>4 DEF Worker
<1>4. CASE \/ StaleRemoved \/ CreateFile \/ AllPrepared \/ AllClassified \/ WorkersDone
           \/ Swept
  BY <1>4
     DEF StaleRemoved, CreateFile, AllPrepared, AllClassified, WorkersDone, Swept, Source
<1>5. CASE ClearJournal
  BY <1>5 DEF ClearJournal, Source
<1>6. CASE Save \/ LastFlush \/ Crash
  BY <1>6, ConstantsAssumption
     DEF Save, LastFlush, Crash, ProcessEnds, Source, ConstantsAssumption
<1>7. CASE FlushTick \/ FlushEnds \/ FlusherStops
  BY <1>7 DEF FlushTick, FlushEnds, FlusherStops, FlusherRunning, Source
<1>8. ~Forget
  BY DEF Orderly, Forget
<1>9. ASSUME NEW b \in Builds, Start(b) PROVE Source'
  <2>1. journal = [gid |-> journal.gid, done |-> journal.done] /\ b # NoBuild
    BY ConstantsAssumption DEF ConstantsAssumption, Typed, TypeOK, Journal
  <2>2. /\ pc' = "stale" /\ UNCHANGED <<saved, journal, snapshot>> /\ gid' = b
        /\ resuming' = (journal.gid = b) /\ prev' = PreviousFor(b)
        /\ done' = IF journal.gid = b THEN journal.done ELSE {}
    BY <1>9 DEF Start, JournalMatches
  <2>3. snapshot = NoJournal
    BY <1>9 DEF Start, Source
  <2> QED BY <2>1, <2>2, <2>3 DEF Source, PreviousFor
<1> QED
  BY <1>1, <1>2, <1>3, <1>4, <1>5, <1>6, <1>7, <1>8, <1>9 DEF Next, Main

LEMMA TakenNext ==
  ASSUME Orderly, SkipInv, Next
  PROVE  Taken'
<1> USE DEF durable, workers, target, loops, SkipInv
<1>1. CASE pc' \in {"idle", "stale"}
  BY <1>1 DEF Taken
<1>2. CASE StaleRemoved
  BY <1>2 DEF StaleRemoved, Taken
<1>3. ASSUME NEW g \in Files, KeepFile(g) PROVE Taken'
  <2>1. /\ pc = "prepare" /\ Unchanged(g) /\ files' = files \ {g}
        /\ UNCHANGED <<rewrite, saved, gid, current>>
    BY <1>3 DEF KeepFile
  <2>2. g \in FilesOf(gid) => AsOnRecord(saved, gid, g)
    BY <2>1 DEF Unchanged, Old, FilesOf, AsOnRecord, Source, SizeIs
  <2> QED BY <2>1, <2>2 DEF Taken, AsOnRecord
<1>4. ASSUME NEW g \in Files, MoveAside(g) PROVE Taken'
  <2>1. /\ pc = "prepare" /\ files' = files \ {g} /\ current' = g
        /\ UNCHANGED <<rewrite, saved, gid>>
    BY <1>4 DEF MoveAside
  <2>2. current = NoFile
    BY <2>1 DEF Typed, TypeOK
  <2>3. \A f \in FilesOf(gid) : f # NoFile
    BY ConstantsAssumption DEF ConstantsAssumption, FilesOf
  <2> QED BY <2>1, <2>2, <2>3 DEF Taken, AsOnRecord
<1>5. CASE CreateFile
  BY <1>5 DEF CreateFile, Taken, AsOnRecord
<1>6. CASE pc \notin {"idle", "stale"} /\ UNCHANGED <<files, current, rewrite, saved, gid>>
  BY <1>6 DEF Taken, AsOnRecord
<1>7. ASSUME NEW f \in Files, RemoveStale(f) \/ Sweep(f) \/ Tamper(f) PROVE Taken'
  BY <1>1, <1>6, <1>7 DEF RemoveStale, Sweep, Tamper
<1>8. ASSUME NEW c \in Chunks,
             \/ SkipChunk(c) \/ ReuseChunk(c) \/ LeaveToFetch(c) \/ StartFetch(c)
             \/ Worker(c)
      PROVE  Taken'
  <2>1. pc \in {"classify", "work"}
    BY <1>8 DEF SkipChunk, ReuseChunk, LeaveToFetch, StartFetch, Worker, Turn,
       FetchSucceeds, FetchFails, WriteFails, Record, Typed, Shape
  <2> QED BY <1>6, <1>8, <2>1
          DEF SkipChunk, ReuseChunk, LeaveToFetch, StartFetch, Worker, FetchSucceeds,
              FetchFails, WriteFails, WriteTarget, Record
<1>9. CASE AllPrepared \/ AllClassified \/ WorkersDone \/ Swept \/ ClearJournal
  BY <1>6, <1>9 DEF AllPrepared, AllClassified, WorkersDone, Swept, ClearJournal
<1>10. CASE Save \/ LastFlush \/ Crash \/ Forget \/ \E b \in Builds : Start(b)
  BY <1>1, <1>10 DEF Save, LastFlush, Crash, Forget, Start, ProcessEnds
<1>11. CASE FlushTick \/ FlushEnds \/ FlusherStops
  BY <1>6, <1>11 DEF FlushTick, FlushEnds, FlusherStops, FlusherRunning, Source
<1> QED
  BY <1>2, <1>3, <1>4, <1>5, <1>7, <1>8, <1>9, <1>10, <1>11 DEF Next, Main

LEMMA InPlaceNext ==
  ASSUME Orderly, SkipInv, Next
  PROVE  InPlace'
<1> USE DEF durable, workers, target, loops, SkipInv
<1>1. CASE writing' = {} /\ memory' = {}
  BY <1>1 DEF InPlace
<1>2. CASE pc \in {"idle", "stale", "prepare", "create"}
  <2>1. writing = {} /\ memory = {} /\ snapshot = NoJournal /\ fetching = {} /\ todo = {}
    BY <1>2 DEF Typed, Shape, Source
  <2>2. ASSUME NEW f \in Files,
               RemoveStale(f) \/ KeepFile(f) \/ MoveAside(f) \/ Sweep(f) \/ Tamper(f)
        PROVE  writing' = {} /\ memory' = {}
    BY <2>1, <2>2 DEF RemoveStale, KeepFile, MoveAside, Sweep, Tamper
  <2>3. ASSUME NEW c \in Chunks,
               \/ SkipChunk(c) \/ ReuseChunk(c) \/ LeaveToFetch(c) \/ StartFetch(c)
               \/ Worker(c)
        PROVE FALSE
    BY <1>2, <2>1, <2>3 DEF SkipChunk, ReuseChunk, LeaveToFetch, StartFetch, Worker, Turn,
       FetchSucceeds, FetchFails, WriteFails, Record
  <2>4. CASE \/ StaleRemoved \/ CreateFile \/ AllPrepared \/ AllClassified \/ WorkersDone
             \/ Swept \/ ClearJournal \/ Forget \/ \E b \in Builds : Start(b)
    BY <1>1, <2>1, <2>4
       DEF StaleRemoved, CreateFile, AllPrepared, AllClassified, WorkersDone, Swept,
           ClearJournal, Forget, Start
  <2>5. CASE Save \/ LastFlush \/ Crash
    BY <1>1, <2>5 DEF Save, LastFlush, Crash, ProcessEnds
  <2>6. CASE FlushTick \/ FlushEnds \/ FlusherStops
    BY <1>2, <2>1, <2>6 DEF FlushTick, FlushEnds, FlusherStops, FlusherRunning
  <2> QED BY <1>1, <2>2, <2>3, <2>4, <2>5, <2>6 DEF Next, Main
<1>3. CASE pc \notin {"idle", "stale", "prepare", "create"}
  <2>1. gid \in Builds /\ Preserves(gid)
    BY <1>3, LatePreserves, Running DEF Typed
  <2>2. \A c : Targets(c) \subseteq Places(gid)
    BY DEF Targets
  <2>3. \A c \in memory : \A t \in Targets(c) : Holds(disk', gid, t)
    BY <2>1, <2>2, PreservesHolds DEF InPlace
  <2>4. \A c \in writing : \A t \in Targets(c) : t \in left \/ Holds(disk', gid, t)
    BY <2>1, <2>2, PreservesHolds DEF InPlace
  <2>5. ASSUME UNCHANGED <<gid, rewrite>>
        PROVE  \A c : Targets(c)' = Targets(c)
    BY <2>5 DEF Targets, Places, FilesOf, ChunkAt
  <2>6. ASSUME UNCHANGED <<gid, rewrite>>,
               memory' \subseteq memory, writing' \subseteq writing,
               \A c \in writing' : \A t \in Targets(c) : t \in left => t \in left'
        PROVE  InPlace'
    BY <2>3, <2>4, <2>5, <2>6 DEF InPlace
  <2>7. ASSUME NEW f \in Files,
               RemoveStale(f) \/ KeepFile(f) \/ MoveAside(f) \/ Sweep(f) \/ Tamper(f)
        PROVE  InPlace'
    BY <1>3, <2>6, <2>7 DEF RemoveStale, KeepFile, MoveAside, Sweep, Tamper
  <2>8. CASE \/ StaleRemoved \/ CreateFile \/ AllPrepared \/ AllClassified \/ WorkersDone
             \/ Swept \/ ClearJournal \/ FlusherStops \/ FlushTick \/ FlushEnds \/ Forget
             \/ \E b \in Builds : Start(b)
    BY <1>3, <2>6, <2>8
       DEF StaleRemoved, CreateFile, AllPrepared, AllClassified, WorkersDone, Swept,
           ClearJournal, FlusherStops, FlushTick, FlushEnds, Forget, Start
  <2>9. CASE Save \/ LastFlush \/ Crash
    BY <1>1, <2>9 DEF Save, LastFlush, Crash, ProcessEnds
  <2>10. ASSUME NEW c \in Chunks, SkipChunk(c) PROVE InPlace'
    <3>1. /\ UNCHANGED <<gid, rewrite, writing, left, disk>> /\ memory' = memory \cup {c}
          /\ c \in done /\ pc = "classify" /\ \A t \in Targets(c) : t[1] \notin fresh
      BY <2>10 DEF SkipChunk, Turn, Resumed
    <3>2. resuming
      BY <3>1 DEF Source
    <3>3. \A t \in Targets(c) : t \in Places(gid) /\ ChunkAt(gid, t) = c /\ t[1] \in rewrite
      BY DEF Targets
    <3>4. \A t \in Targets(c) : Holds(disk', gid, t)
      BY <3>1, <3>2, <3>3 DEF Vouched
    <3> QED BY <2>3, <2>4, <2>5, <3>1, <3>4 DEF InPlace
  <2>11. ASSUME NEW c \in Chunks, ReuseChunk(c) PROVE InPlace'
    <3>1. UNCHANGED <<gid, rewrite, memory>> /\ writing' = {c} /\ left' = Targets(c)
      BY <2>11 DEF ReuseChunk
    <3> QED BY <2>3, <2>5, <3>1 DEF InPlace
  <2>12. ASSUME NEW c \in Chunks, LeaveToFetch(c) \/ StartFetch(c) \/ FetchFails(c)
         PROVE  InPlace'
    BY <2>6, <2>12 DEF LeaveToFetch, StartFetch, FetchFails
  <2>13. ASSUME NEW c \in Chunks, FetchSucceeds(c) PROVE InPlace'
    <3>1. /\ UNCHANGED <<gid, rewrite, memory>>
          /\ writing' = writing \cup {c} /\ left' = left \cup Targets(c)
      BY <2>13 DEF FetchSucceeds
    <3> QED BY <2>3, <2>4, <2>5, <3>1 DEF InPlace
  <2>14. ASSUME NEW c \in Chunks, WriteFails(c) PROVE InPlace'
    <3>1. /\ UNCHANGED <<gid, rewrite, memory>>
          /\ writing' = writing \ {c} /\ left' = left \ Targets(c)
      BY <2>14 DEF WriteFails
    <3>2. \A d \in writing' : \A t \in Targets(d) : t \notin Targets(c)
      BY <3>1 DEF Targets
    <3> QED BY <2>6, <3>1, <3>2
  <2>15. ASSUME NEW c \in Chunks, Record(c) PROVE InPlace'
    <3>1. /\ UNCHANGED <<gid, rewrite, left, disk>> /\ c \in writing /\ Written(c)
          /\ writing' = writing \ {c} /\ memory' = memory \cup {c}
      BY <2>15 DEF Record
    <3>2. \A t \in Targets(c) : Holds(disk', gid, t)
      BY <2>4, <3>1 DEF Written
    <3> QED BY <2>3, <2>4, <2>5, <3>1, <3>2 DEF InPlace
  <2>16. ASSUME NEW c \in Chunks, c \in writing, NEW t \in Targets(c), WriteTarget(t)
         PROVE  InPlace'
    <3>1. UNCHANGED <<gid, rewrite, memory, writing>> /\ left' = left \ {t}
      BY <2>16 DEF WriteTarget
    <3>2. Holds(disk', gid, t)
      BY <2>16, WritePreserves
    <3> QED BY <2>3, <2>4, <2>5, <3>1, <3>2 DEF InPlace
  <2> QED
    BY <2>7, <2>8, <2>9, <2>10, <2>11, <2>12, <2>13, <2>14, <2>15, <2>16
       DEF Next, Main, Worker
<1> QED
  BY <1>2, <1>3

\* What is true of files stays true of those that do not change.
LEMMA TrueOfSame ==
  ASSUME NEW d, NEW e, NEW r, NEW b, NEW D, NEW F, NEW G \in SUBSET F,
         TrueOf(d, r, b, D, F), \A f \in G : f \in FilesOf(b) => e[f] = d[f]
  PROVE  TrueOf(e, r, b, D, G)
<1> SUFFICES ASSUME NEW t \in Places(b), t[1] \in G, ChunkAt(b, t) \in D
             PROVE  \/ ~SizeIs(e[t[1]], Len(Manifest[b][t[1]]))
                    \/ Holds(e, b, t)
                    \/ AsOnRecord(r, b, t[1])
  BY DEF TrueOf
<1>1. t[1] \in FilesOf(b)
  BY DEF Places
<1> QED
  BY <1>1 DEF TrueOf, Holds

\* The journal a run that failed leaves is true of every file.
LEMMA LeftTrue ==
  ASSUME SkipInv, pc = "lastFlush"
  PROVE  TrueOf(disk, saved, gid, memory, Files)
<1>1. gid \in Builds /\ files = {} /\ current = NoFile
  BY Running DEF SkipInv, Typed, TypeOK, Shape
<1> SUFFICES ASSUME NEW t \in Places(gid), ChunkAt(gid, t) \in memory
             PROVE  Holds(disk, gid, t) \/ AsOnRecord(saved, gid, t[1])
  BY DEF TrueOf
<1>2. t[1] \in FilesOf(gid) /\ t[1] # NoFile
  BY <1>1, PlaceOf, ConstantsAssumption DEF ConstantsAssumption, FilesOf
<1>3. CASE t[1] \in rewrite
  BY <1>3 DEF SkipInv, InPlace, Targets
<1>4. CASE t[1] \notin rewrite
  BY <1>1, <1>2, <1>4 DEF SkipInv, Taken
<1> QED
  BY <1>3, <1>4

\* A file that is not fresh when it is set aside for writing was left as it is,
\* and has the chunks the journal says it has.
LEMMA NotFreshTrue ==
  ASSUME SkipInv, resuming, NEW f \in Files, MoveAside(f), f \notin fresh',
         NEW t \in Places(gid), t[1] = f, ChunkAt(gid, t) \in done
  PROVE  Holds(disk', gid, t)
<1>1. /\ pc = "prepare" /\ f \in files /\ ~Unchanged(f)
      /\ SizeIs(disk'[f], Len(Manifest[gid][f]))
  BY DEF MoveAside
<1>2. disk'[f] = disk[f]
  <2>1. disk'[f] \in {disk[f], Absent}
    BY DEF MoveAside, MoveToStash, SkipInv, Typed, TypeOK
  <2> QED BY <1>1, <2>1 DEF SizeIs
<1>3. prev = saved
  BY <1>1 DEF SkipInv, Source
<1>4. f \in FilesOf(gid)
  BY <1>1 DEF SkipInv, Typed, Shape
<1>5. ~AsOnRecord(saved, gid, f)
  BY <1>1, <1>2, <1>3, <1>4 DEF AsOnRecord, Unchanged, Old, FilesOf
<1>6. TrueOf(disk, saved, gid, done, files)
  BY <1>1 DEF SkipInv, Vouched
<1> QED
  BY <1>1, <1>2, <1>5, <1>6 DEF TrueOf, Holds

LEMMA VouchedNext ==
  ASSUME Orderly, SkipInv, Next
  PROVE  Vouched'
<1> USE DEF durable, workers, target, loops, SkipInv
<1>1. CASE pc' \notin {"idle", "stale", "prepare", "create", "classify"}
  BY <1>1 DEF Vouched
<1>2. ASSUME NEW b \in Builds, Start(b) PROVE Vouched'
  BY <1>2 DEF Start, Vouched
<1>3. ASSUME NEW f \in Files, Tamper(f) PROVE Vouched'
  <2>1. pc = "idle" /\ pc' = "idle" /\ UNCHANGED <<journal, saved>> /\ MayTamper
    BY <1>3 DEF Tamper
  <2>2. PICK s \in Leftovers : disk' = [disk EXCEPT ![f] = s]
    BY <1>3 DEF Tamper
  <2> SUFFICES ASSUME journal.gid # NoBuild, NEW t \in Places(journal.gid),
                      ChunkAt(journal.gid, t) \in journal.done
               PROVE  \/ ~SizeIs(disk'[t[1]], Len(Manifest[journal.gid][t[1]]))
                      \/ Holds(disk', journal.gid, t)
                      \/ AsOnRecord(saved, journal.gid, t[1])
    BY <2>1 DEF Vouched, TrueOf
  <2>3. journal.gid \in Builds
    BY DEF Typed, TypeOK, Journal
  <2>4. t[1] \in FilesOf(journal.gid) /\ t[1] \in Files
    BY <2>3, PlaceOf DEF FilesOf
  <2>5. CASE t[1] = f
    BY <2>1, <2>2, <2>3, <2>4, <2>5 DEF Orderly, Typed, TypeOK
  <2>6. CASE t[1] # f
    <3>1. disk'[t[1]] = disk[t[1]]
      BY <2>2, <2>4, <2>6 DEF Typed, TypeOK
    <3> QED BY <2>1, <2>4, <3>1 DEF Vouched, TrueOf, Holds
  <2> QED BY <2>5, <2>6
<1>4. ASSUME NEW f \in Files, RemoveStale(f) PROVE Vouched'
  <2>1. /\ pc = "stale" /\ pc' = "stale" /\ f \in files
        /\ UNCHANGED <<journal, saved>>
        /\ \A g \in Files : g # f => disk'[g] = disk[g]
    BY <1>4 DEF RemoveStale, MoveToStash, Typed, TypeOK
  <2>2. prev # NoBuild /\ f \notin FilesOf(gid)
    BY <2>1 DEF Typed, Shape
  <2>3. journal.gid \in {gid, NoBuild}
    BY <2>1, <2>2 DEF Source
  <2>4. ASSUME journal.gid # NoBuild
        PROVE  TrueOf(disk', saved, journal.gid, journal.done, Files)
    <3>1. \A g \in Files : g \in FilesOf(journal.gid) => disk'[g] = disk[g]
      BY <2>1, <2>2, <2>3, <2>4
    <3>2. TrueOf(disk, saved, journal.gid, journal.done, Files)
      BY <2>1, <2>4 DEF Vouched
    <3> QED BY <3>1, <3>2, TrueOfSame
  <2> QED BY <2>1, <2>4 DEF Vouched
<1>5. CASE StaleRemoved
  <2>1. /\ pc = "stale" /\ pc' = "prepare" /\ files' = FilesOf(gid)
        /\ UNCHANGED <<disk, saved, gid, resuming, done, rewrite, current, fresh>>
    BY <1>5 DEF StaleRemoved
  <2>2. rewrite = {} /\ current = NoFile
    BY <2>1 DEF Typed, TypeOK, Shape
  <2>3. \A t \in Places(gid) : t[1] \in FilesOf(gid) /\ t[1] # NoFile
    BY <2>1, PlaceOf, Running, ConstantsAssumption
       DEF ConstantsAssumption, FilesOf, Typed
  <2>4. ASSUME resuming PROVE TrueOf(disk, saved, gid, done, FilesOf(gid))
    <3>1. journal.gid = gid /\ journal.done = done /\ gid # NoBuild
      BY <2>1, <2>4, Running, ConstantsAssumption DEF ConstantsAssumption, Source, Typed
    <3>2. TrueOf(disk, saved, gid, done, Files) /\ FilesOf(gid) \subseteq Files
      BY <2>1, <3>1 DEF Vouched, FilesOf
    <3> QED BY <3>2, TrueOfSame
  <2> QED BY <2>1, <2>2, <2>3, <2>4 DEF Vouched
<1>6. ASSUME NEW f \in Files, KeepFile(f) PROVE Vouched'
  <2>1. /\ pc = "prepare" /\ pc' = pc /\ files' = files \ {f}
        /\ UNCHANGED <<disk, saved, gid, resuming, done, rewrite, current, fresh>>
    BY <1>6 DEF KeepFile
  <2> QED BY <2>1 DEF Vouched, TrueOf, Places, ChunkAt, FilesOf
<1>7. ASSUME NEW f \in Files, MoveAside(f) PROVE Vouched'
  <2>1. /\ pc = "prepare" /\ pc' = "create" /\ files' = files \ {f} /\ f \in files
        /\ current' = f /\ fresh \subseteq fresh'
        /\ UNCHANGED <<saved, gid, resuming, done, rewrite>>
        /\ \A g \in Files : g # f => disk'[g] = disk[g]
    BY <1>7 DEF MoveAside, MoveToStash, Typed, TypeOK
  <2>2. f \notin rewrite /\ files \subseteq Files /\ rewrite \subseteq Files
    BY <2>1 DEF Typed, Shape, TypeOK
  <2>3. ASSUME resuming PROVE TrueOf(disk', saved, gid, done, files \ {f})
    BY <2>1, <2>2, <2>3, TrueOfSame DEF Vouched
  <2>4. ASSUME resuming, NEW t \in Places(gid), ChunkAt(gid, t) \in done,
               t[1] \in (rewrite \cup {f}) \ fresh'
        PROVE  Holds(disk', gid, t)
    <3>1. CASE t[1] = f
      BY <1>7, <2>4, <3>1, NotFreshTrue
    <3>2. CASE t[1] # f
      <4>1. Holds(disk, gid, t)
        BY <2>1, <2>4, <3>2 DEF Vouched
      <4> QED BY <2>1, <2>2, <2>4, <3>2, <4>1 DEF Holds
    <3> QED BY <3>1, <3>2
  <2>5. \A t : ChunkAt(gid, t)' = ChunkAt(gid, t)
    BY <2>1 DEF ChunkAt
  <2> QED BY <2>1, <2>3, <2>4, <2>5 DEF Vouched
<1>8. CASE CreateFile
  <2> DEFINE n == Len(Manifest[gid][current])
  <2>1. /\ pc = "create" /\ pc' = "prepare" /\ rewrite' = rewrite \cup {current}
        /\ current' = NoFile
        /\ disk' = [disk EXCEPT ![current] = Truncate(disk[current], n)]
        /\ UNCHANGED <<saved, gid, resuming, done, files, fresh>>
    BY <1>8 DEF CreateFile
  <2>2. /\ gid \in Builds /\ current \in FilesOf(gid) \ files /\ current \in Files
        /\ n \in Nat /\ disk[current] \in Content \cup {Absent}
    <3>1. current # NoFile
      BY <2>1 DEF Typed, TypeOK
    <3> QED BY <2>1, <3>1, Running, FilesOfBuild DEF Typed, TypeOK, Shape
  <2>3. \A g \in Files : g # current => disk'[g] = disk[g]
    BY <2>1 DEF Typed, TypeOK
  <2>4. disk'[current] = Truncate(disk[current], n)
    BY <2>1, <2>2 DEF Typed, TypeOK
  <2>5. ASSUME resuming PROVE TrueOf(disk', saved, gid, done, files)
    <3>1. \A g \in files : disk'[g] = disk[g]
      BY <2>2, <2>3 DEF Typed, TypeOK
    <3> QED BY <2>1, <2>5, <3>1, TrueOfSame DEF Vouched
  <2>6. ASSUME NEW t \in Places(gid), Holds(disk, gid, t) PROVE Holds(disk', gid, t)
    BY <1>8, <2>6, CreateKeepsBlocks
  <2>7. \A t \in Places(gid) : t[1] # NoFile
    BY <2>2, PlaceOf, ConstantsAssumption DEF ConstantsAssumption, FilesOf
  <2>8. ASSUME resuming, NEW t \in Places(gid), ChunkAt(gid, t) \in done,
               t[1] \in (rewrite \cup {current} \cup {NoFile}) \ fresh
        PROVE  Holds(disk', gid, t)
    BY <2>1, <2>6, <2>7, <2>8 DEF Vouched
  <2> HIDE DEF n
  <2> QED BY <2>1, <2>5, <2>8 DEF Vouched, Places, ChunkAt, FilesOf
<1>9. CASE AllPrepared
  BY <1>9 DEF AllPrepared, Vouched, Places, ChunkAt, FilesOf
<1>10. ASSUME pc = "classify", pc' = pc,
              UNCHANGED <<gid, resuming, done, rewrite, current, fresh>>
       PROVE  Vouched'
  <2>1. gid \in Builds /\ Preserves(gid)
    BY <1>10, LatePreserves, Running DEF Typed
  <2>2. ASSUME resuming, NEW t \in Places(gid), ChunkAt(gid, t) \in done,
               t[1] \in (rewrite \cup {current}) \ fresh
        PROVE  Holds(disk', gid, t)
    BY <1>10, <2>1, <2>2, PreservesHolds DEF Vouched
  <2> QED BY <1>10, <2>2 DEF Vouched, Places, ChunkAt, FilesOf
<1>11. ASSUME NEW c \in Chunks,
              \/ SkipChunk(c) \/ ReuseChunk(c) \/ LeaveToFetch(c) \/ StartFetch(c)
              \/ Worker(c)
       PROVE  Vouched'
  <2>1. pc \in {"classify", "work"} /\ pc' = pc
        /\ UNCHANGED <<gid, resuming, done, rewrite, current, fresh>>
    BY <1>11 DEF SkipChunk, ReuseChunk, LeaveToFetch, StartFetch, Worker, Turn,
       FetchSucceeds, FetchFails, WriteFails, WriteTarget, Record, Typed, Shape
  <2> QED BY <1>1, <1>10, <2>1
<1>12. CASE AllClassified \/ WorkersDone \/ Swept \/ ClearJournal \/ FlusherStops
  BY <1>1, <1>12 DEF AllClassified, WorkersDone, Swept, ClearJournal, FlusherStops
<1>13. CASE FlushTick \/ FlushEnds \/ \E f \in Files : Sweep(f)
  BY <1>1, <1>13 DEF FlushTick, FlushEnds, FlusherRunning, Sweep, Source
<1>14. CASE LastFlush
  <2>1. /\ pc = "lastFlush" /\ pc' = "idle" /\ UNCHANGED <<disk, saved>>
        /\ journal' = [gid |-> gid, done |-> memory]
    BY <1>14 DEF LastFlush, ProcessEnds, SavesJournal, Orderly
  <2>2. journal'.gid = gid /\ journal'.done = memory
    BY <2>1
  <2>3. TrueOf(disk', saved', journal'.gid, journal'.done, Files)
    BY <2>1, <2>2, LeftTrue
  <2> QED BY <2>1, <2>3 DEF Vouched
<1>15. CASE Save
  BY <1>15 DEF Save, ProcessEnds, Source, Vouched, NoJournal
<1>16. CASE Crash
  <2>1. /\ pc \in {"stale", "save"} /\ pc' = "idle" /\ UNCHANGED <<disk, saved, journal>>
    BY <1>16 DEF Crash, ProcessEnds, Orderly
  <2> QED BY <2>1 DEF Vouched, Source, NoJournal
<1>17. ~Forget
  BY DEF Orderly, Forget
<1> QED
  BY <1>2, <1>3, <1>4, <1>5, <1>6, <1>7, <1>8, <1>9, <1>11, <1>12, <1>13, <1>14,
     <1>15, <1>16, <1>17 DEF Next, Main

LEMMA SkipAlways == Orderly => (Spec => []SkipInv)
<1> SUFFICES ASSUME Orderly PROVE Spec => []SkipInv
  OBVIOUS
<1>1. Init => SkipInv
  <2> SUFFICES ASSUME Init PROVE SkipInv
    OBVIOUS
  <2>1. Typed
    BY TypedInit
  <2>2. Source /\ Vouched /\ InPlace /\ Taken /\ Accounted
    BY DEF Init, ProcessInit, Source, Vouched, InPlace, Taken, Accounted, NoJournal
  <2> QED BY <2>1, <2>2 DEF SkipInv
<1>2. SkipInv /\ [Next]_vars => SkipInv'
  <2> SUFFICES ASSUME SkipInv, [Next]_vars PROVE SkipInv'
    OBVIOUS
  <2>1. Typed'
    BY TypedNext DEF SkipInv
  <2>2. CASE Next
    <3>1. Accounted'
      BY <2>2, AccountedNext DEF SkipInv, Source
    <3> QED BY <2>1, <2>2, <3>1, SourceNext, VouchedNext, InPlaceNext, TakenNext DEF SkipInv
  <2>3. CASE UNCHANGED vars
    <3> USE <2>3 DEF vars, durable, loops, workers, target, SkipInv
    <3>1. \A c : Targets(c)' = Targets(c)
      BY DEF Targets, Places, FilesOf, ChunkAt
    <3>2. Source' /\ Taken' /\ InPlace' /\ Accounted'
      BY <3>1 DEF Source, Taken, InPlace, Accounted
    <3>3. Vouched'
      BY DEF Vouched, Places, FilesOf, ChunkAt
    <3> QED BY <2>1, <3>2, <3>3
  <2> QED BY <2>2, <2>3
<1> QED
  BY <1>1, <1>2, PTL DEF Spec

\* For any builds asked for in any order, runs that fail in their workers, and
\* files deleted or cut between two runs: what a run wrote to is right when it
\* succeeds, although it skips what the journal names (download.go:170-172,
\* 232).
THEOREM RewrittenCorrect ==
  ASSUME Orderly PROVE Spec => []RewrittenRight
<1>1. SkipInv => RewrittenRight
  <2> SUFFICES ASSUME SkipInv, pc \in {"clear", "save"}, NEW f \in rewrite
               PROVE  disk[f] = Manifest[gid][f]
    BY DEF RewrittenRight
  <2>1. gid \in Builds
    BY Running DEF SkipInv, Typed
  <2>2. /\ f \in FilesOf(gid) /\ f \in Files /\ disk[f] \in Content \cup {Absent}
        /\ SizeIs(disk[f], Len(Manifest[gid][f]))
    BY DEF SkipInv, Typed, TypeOK, Shape, FilesOf
  <2>3. ~cancelled /\ todo = {} /\ order = {} /\ fetching = {} /\ writing = {}
    BY DEF SkipInv, Typed, Shape, Accounted
  <2>4. ASSUME NEW i \in 1..Len(Manifest[gid][f])
        PROVE  BlockAt(disk[f], i) = Manifest[gid][f][i]
    <3> DEFINE t == <<f, i>>
               c == Manifest[gid][f][i]
    <3>1. t \in Places(gid) /\ ChunkAt(gid, t) = c /\ t[1] = f /\ t[2] = i
      BY <2>1, <2>2, PlaceIn
    <3>2. c \in Chunks
      BY <2>1, <3>1, PlaceOf
    <3> HIDE DEF t, c
    <3>3. t \in Targets(c)
      BY <3>1 DEF Targets
    <3>4. c \in memory
      BY <2>3, <3>2, <3>3 DEF SkipInv, Accounted
    <3> QED BY <3>1, <3>3, <3>4 DEF SkipInv, InPlace, Holds, c
  <2> QED BY <2>1, <2>2, <2>4, FileRight
<1> QED
  BY <1>1, SkipAlways, PTL

=============================================================================
