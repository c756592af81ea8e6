------------------------------- MODULE Depot -------------------------------
(***************************************************************************)
(* depot.Download (src/depot/download.go, src/depot/store.go): one depot's *)
(* directory, brought to the build a manifest names by one run after       *)
(* another, any of which may be interrupted.                               *)
(*                                                                         *)
(* A chunk is one block of a file: a file's contents are a sequence of     *)
(* chunks, and a block no chunk was written to reads as Zero.  Directories,*)
(* symlinks, modes and progress counters are left out, and so is the order *)
(* in which a manifest lists its files: the loops take them in any order.  *)
(*                                                                         *)
(* A crash is the end of the process between two steps (a kill, a panic,   *)
(* or one of the errors Download returns before its workers start or after *)
(* they are done, none of which saves anything).  Completed file writes    *)
(* and renames survive it.                                                 *)
(***************************************************************************)
EXTENDS Naturals, Sequences, FiniteSets

CONSTANTS
  Builds,       \* manifest GIDs of the depot
  Files,        \* file names
  Chunks,       \* chunk hashes; a hash stands for the bytes it names
  Manifest,     \* Manifest[b][f]: the chunks of file f in build b, or Absent
  NoBuild, NoFile, Absent, Zero,
  Concurrency,  \* Options.Concurrency
  Leftovers,    \* contents a file may have that no run wrote there
  MaxRuns,      \* bound: how many times Download is called
  CrashAt,      \* where a run may die: a set of values of pc
  MoveCanFail,  \* files whose rename into the stash may fail
  SaveCanFail,  \* SaveJournal may return an error
  MaySwitch,    \* the user may ask for another build than the interrupted one
  MayTamper,    \* files may be changed between two runs
  MayForget     \* the caller may call Store.Forget between two runs

Content == Seq(Chunks \cup {Zero})

ASSUME ConstantsAssumption ==
  /\ Manifest \in [Builds -> [Files -> Seq(Chunks) \cup {Absent}]]
  /\ NoBuild \notin Builds /\ NoFile \notin Files /\ Zero \notin Chunks
  /\ Absent \notin Content
  /\ Concurrency \in Nat \ {0} /\ MaxRuns \in Nat
  /\ Leftovers \subseteq Content \cup {Absent}
  /\ MoveCanFail \subseteq Files
  /\ SaveCanFail \in BOOLEAN /\ MaySwitch \in BOOLEAN
  /\ MayTamper \in BOOLEAN /\ MayForget \in BOOLEAN

VARIABLES
  disk,       \* disk[f]: the file at its path
  stash,      \* stash[f]: the file at its path + oldSuffix
  saved,      \* the build in manifest-<depot>.json, NoBuild when there is none
  journal,    \* progress-<depot>.json, gid NoBuild when there is none
  wanted,     \* the build whose installation has begun and not succeeded
  runs,       \* how many runs were begun
  pc,         \* where Download is
  gid,        \* opts.Manifest
  prev,       \* opts.Previous
  resuming,   \* resume != nil
  done,       \* the chunks of resume.Done
  files,      \* the files the current loop has not come to
  current,    \* the file whose old version was just moved aside
  oldFiles,   \* files of Previous whose old version is in the stash
  byName,     \* stashedByName: files of Manifest that have a stash
  fresh,      \* files that were not as the interrupted run left them
  rewrite,    \* files whose chunks are work
  order,      \* chunks not yet classified
  todo,       \* chunks to fetch that have no worker
  fetching,   \* chunks a worker is in FetchChunk for
  writing,    \* chunks whose bytes are being written to their targets
  left,       \* targets those still have to be written to
  memory,     \* journal.Done in memory
  cancelled,  \* a worker failed: errgroup cancelled the context
  snapshot    \* what the flusher is saving, gid NoBuild when it is not

durable == <<disk, stash, saved, journal>>
loops   == <<files, current, oldFiles, byName, fresh, rewrite, order>>
workers == <<todo, fetching, writing, left, memory, cancelled>>
target  == <<gid, prev, resuming, done>>
vars == <<durable, wanted, runs, pc, target, loops, workers, snapshot>>

Journal   == [gid : Builds \cup {NoBuild}, done : SUBSET Chunks]
NoJournal == [gid |-> NoBuild, done |-> {}]

(***************************************************************************)
(* Files and their blocks.                                                 *)
(***************************************************************************)
FilesOf(b) == {f \in Files : Manifest[b][f] # Absent}

\* What opts.Previous says of f; nothing when there is no previous manifest.
Old(f) == IF prev = NoBuild THEN Absent ELSE Manifest[prev][f]

Places(b)    == UNION {{f} \X DOMAIN Manifest[b][f] : f \in FilesOf(b)}
ChunkAt(b, t) == Manifest[b][t[1]][t[2]]

Targets(c) == {t \in Places(gid) : t[1] \in rewrite /\ ChunkAt(gid, t) = c}

SizeIs(s, n) == s # Absent /\ Len(s) = n

Truncate(s, n) ==
  [i \in 1..n |-> IF s # Absent /\ i <= Len(s) THEN s[i] ELSE Zero]

\* Reading block i of a file; past its end, or with no file, a read fails.
BlockAt(s, i) == IF s # Absent /\ i <= Len(s) THEN s[i] ELSE Zero

\* Mutant: a stash of an earlier run is not taken up again.
CanStashAnew(f, n) ==
  /\ disk[f] # Absent /\ disk[f] # <<>>
  /\ n = 0 \/ Len(disk[f]) = n

(***************************************************************************)
(* stashOld(p, n) has a stash to return: one from an earlier run, kept as  *)
(* it is, or the file itself when its size is n, any size but zero when n  *)
(* is 0.  Only the second moves anything, and only it can fail, as when    *)
(* the file is held open: there is no stash to return then.                *)
(***************************************************************************)
CanStash(f, n) ==
  \/ stash[f] # Absent
  \/ /\ disk[f] # Absent /\ disk[f] # <<>>
     /\ n = 0 \/ Len(disk[f]) = n

MoveToStash(f) ==
  IF stash[f] # Absent
  THEN UNCHANGED <<disk, stash>>
  ELSE /\ stash' = [stash EXCEPT ![f] = disk[f]]
       /\ disk'  = [disk  EXCEPT ![f] = Absent]

MoveFails(f) == f \in MoveCanFail /\ stash[f] = Absent

----------------------------------------------------------------------------
ProcessInit ==
  /\ pc = "idle"
  /\ gid = NoBuild /\ prev = NoBuild /\ resuming = FALSE /\ done = {}
  /\ files = {} /\ current = NoFile /\ oldFiles = {} /\ byName = {}
  /\ fresh = {} /\ rewrite = {} /\ order = {}
  /\ todo = {} /\ fetching = {} /\ writing = {} /\ left = {}
  /\ memory = {} /\ cancelled = FALSE /\ snapshot = NoJournal

\* A directory some build was installed in, or one with anything in it and
\* no record beside it.
Init ==
  /\ \/ saved = NoBuild /\ disk \in [Files -> Leftovers]
     \/ saved \in Builds /\ disk = Manifest[saved]
  /\ stash = [f \in Files |-> Absent]
  /\ journal = NoJournal
  /\ wanted = NoBuild /\ runs = 0
  /\ ProcessInit

\* The process is gone, and with it all that Download held in memory.
ProcessEnds ==
  /\ pc' = "idle"
  /\ gid' = NoBuild /\ prev' = NoBuild /\ resuming' = FALSE /\ done' = {}
  /\ files' = {} /\ current' = NoFile /\ oldFiles' = {} /\ byName' = {}
  /\ fresh' = {} /\ rewrite' = {} /\ order' = {}
  /\ todo' = {} /\ fetching' = {} /\ writing' = {} /\ left' = {}
  /\ memory' = {} /\ cancelled' = FALSE /\ snapshot' = NoJournal

JournalMatches(b) == journal.gid = b

PreviousFor(b) == IF journal.gid \in {b, NoBuild} THEN saved ELSE NoBuild

\* Files of the previous manifest p that build b does not have.
Stale(p, b) == IF p = NoBuild THEN {} ELSE FilesOf(p) \ FilesOf(b)

(***************************************************************************)
(* Download is called for build b: it loads the previous manifest and the  *)
(* journal.  A journal of b is resumed; one of another build makes it      *)
(* forget the previous manifest.                                           *)
(***************************************************************************)
Start(b) ==
  /\ pc = "idle" /\ runs < MaxRuns
  /\ wanted \in {NoBuild, b} \/ MaySwitch
  /\ runs' = runs + 1
  /\ wanted' = b
  /\ gid' = b
  /\ resuming' = JournalMatches(b)
  /\ done' = IF JournalMatches(b) THEN journal.done ELSE {}
  /\ prev' = PreviousFor(b)
  /\ files' = Stale(prev', b)
  /\ pc' = "stale"
  /\ UNCHANGED <<durable, current, oldFiles, byName, fresh, rewrite, order,
                 workers, snapshot>>

\* Mutant: a stale file that is read for its chunks stays at its path.
RemoveStaleCopying(f) ==
  /\ pc = "stale" /\ f \in files
  /\ files' = files \ {f}
  /\ stash' = [stash EXCEPT ![f] = disk[f]]
  /\ oldFiles' = oldFiles \cup {f}
  /\ UNCHANGED <<disk, saved, journal, wanted, runs, pc, target, current, byName,
                 fresh, rewrite, order, workers, snapshot>>

(***************************************************************************)
(* Files of the previous manifest that are not in the new one: moved aside *)
(* for their chunks, removed when they are of no use or cannot be moved.   *)
(***************************************************************************)
RemoveStale(f) ==
  /\ pc = "stale" /\ f \in files
  /\ files' = files \ {f}
  /\ \/ /\ CanStash(f, Len(Old(f)))
        /\ MoveToStash(f)
        /\ oldFiles' = oldFiles \cup {f}
     \/ /\ CanStash(f, Len(Old(f))) => MoveFails(f)
        /\ disk' = [disk EXCEPT ![f] = Absent]
        /\ UNCHANGED <<stash, oldFiles>>
  /\ UNCHANGED <<saved, journal, wanted, runs, pc, target, current, byName,
                 fresh, rewrite, order, workers, snapshot>>

StaleRemoved ==
  /\ pc = "stale" /\ files = {}
  /\ pc' = "prepare"
  /\ files' = FilesOf(gid)
  /\ UNCHANGED <<durable, wanted, runs, target, current, oldFiles, byName,
                 fresh, rewrite, order, workers, snapshot>>

\* The file has the content it had in the previous build, and its size.
Unchanged(f) ==
  /\ Old(f) = Manifest[gid][f]
  /\ SizeIs(disk[f], Len(Old(f)))

KeepFile(f) ==
  /\ pc = "prepare" /\ f \in files /\ Unchanged(f)
  /\ files' = files \ {f}
  /\ UNCHANGED <<durable, wanted, runs, pc, target, current, oldFiles, byName,
                 fresh, rewrite, order, workers, snapshot>>

(***************************************************************************)
(* The old version of a file to write is moved aside: to be read from its  *)
(* previous layout, or, when there is no previous version and nothing is   *)
(* resumed, for chunks that may sit at the offsets they will have.  One    *)
(* that cannot be moved stays, and is written to in place.                 *)
(***************************************************************************)
MoveAside(f) ==
  /\ pc = "prepare" /\ f \in files /\ ~Unchanged(f)
  /\ LET known == Old(f) # Absent
         tried == IF known THEN CanStash(f, Len(Old(f)))
                           ELSE ~resuming /\ CanStash(f, 0)
     IN  \/ /\ tried
            /\ MoveToStash(f)
            /\ oldFiles' = IF known THEN oldFiles \cup {f} ELSE oldFiles
            /\ byName' = byName \cup {f}
         \/ /\ tried => MoveFails(f)
            /\ UNCHANGED <<disk, stash, oldFiles, byName>>
  /\ fresh' = IF resuming /\ ~SizeIs(disk'[f], Len(Manifest[gid][f]))
              THEN fresh \cup {f} ELSE fresh
  /\ files' = files \ {f}
  /\ current' = f
  /\ pc' = "create"
  /\ UNCHANGED <<saved, journal, wanted, runs, target, rewrite, order, workers,
                 snapshot>>

\* Mutant: the file in hand is not put down.
CreateFileHolding ==
  /\ pc = "create"
  /\ disk' = [disk EXCEPT ![current] =
                Truncate(disk[current], Len(Manifest[gid][current]))]
  /\ rewrite' = rewrite \cup {current}
  /\ pc' = "prepare"
  /\ UNCHANGED <<stash, saved, journal, wanted, runs, target, files, current,
                 oldFiles, byName, fresh, order, workers, snapshot>>

\* createFile: the bytes already there stay, up to the new size.
CreateFile ==
  /\ pc = "create"
  /\ disk' = [disk EXCEPT ![current] =
                Truncate(disk[current], Len(Manifest[gid][current]))]
  /\ rewrite' = rewrite \cup {current}
  /\ current' = NoFile
  /\ pc' = "prepare"
  /\ UNCHANGED <<stash, saved, journal, wanted, runs, target, files, oldFiles,
                 byName, fresh, order, workers, snapshot>>

AllPrepared ==
  /\ pc = "prepare" /\ files = {}
  /\ pc' = "classify"
  /\ order' = {ChunkAt(gid, t) : t \in {t \in Places(gid) : t[1] \in rewrite}}
  /\ UNCHANGED <<durable, wanted, runs, target, files, current, oldFiles,
                 byName, fresh, rewrite, workers, snapshot>>

(***************************************************************************)
(* localChunks: what a read of the place indexed for chunk c finds.  The   *)
(* places of the previous manifest are indexed first, in the stash when    *)
(* the file was moved there, else at its path when it has its old size;    *)
(* then the places of the new manifest in stashes.  The first of them wins;*)
(* with the files in any order, that may be any of its group.              *)
(***************************************************************************)
PreviousBlocks(c) ==
  IF prev = NoBuild THEN {} ELSE
  {BlockAt(IF t[1] \in oldFiles THEN stash[t[1]] ELSE disk[t[1]], t[2]) :
     t \in {t \in Places(prev) :
              /\ ChunkAt(prev, t) = c
              /\ t[1] \in oldFiles \/ SizeIs(disk[t[1]], Len(Manifest[prev][t[1]]))}}

GuessedBlocks(c) ==
  {stash[t[1]][t[2]] :
     t \in {t \in Places(gid) : /\ ChunkAt(gid, t) = c
                                /\ t[1] \in byName
                                /\ t[2] <= Len(stash[t[1]])}}

LocalBlocks(c) ==
  IF PreviousBlocks(c) # {} THEN PreviousBlocks(c) ELSE GuessedBlocks(c)

\* Mutant: the files are taken to be as the interrupted run left them.
ResumedBlindly(c) == c \in done

\* Journaled by the interrupted run, and every file it lands in is as left.
Resumed(c) == c \in done /\ \A t \in Targets(c) : t[1] \notin fresh

\* The chunk's turn in the loop over order; a reused one is written first.
Turn(c) == pc = "classify" /\ c \in order /\ writing = {}

SkipChunk(c) ==
  /\ Turn(c) /\ Resumed(c)
  /\ order' = order \ {c}
  /\ memory' = memory \cup {c}
  /\ UNCHANGED <<durable, wanted, runs, pc, target, files, current, oldFiles,
                 byName, fresh, rewrite, todo, fetching, writing, left,
                 cancelled, snapshot>>

\* A local block is used when it hashes to the chunk ...
ReuseChunk(c) ==
  /\ Turn(c) /\ ~Resumed(c) /\ c \in LocalBlocks(c)
  /\ order' = order \ {c}
  /\ writing' = {c}
  /\ left' = Targets(c)
  /\ UNCHANGED <<durable, wanted, runs, pc, target, files, current, oldFiles,
                 byName, fresh, rewrite, todo, fetching, memory, cancelled,
                 snapshot>>

\* ... and the chunk is fetched when it does not, or there is none.
LeaveToFetch(c) ==
  /\ Turn(c) /\ ~Resumed(c) /\ LocalBlocks(c) # {c}
  /\ order' = order \ {c}
  /\ todo' = todo \cup {c}
  /\ UNCHANGED <<durable, wanted, runs, pc, target, files, current, oldFiles,
                 byName, fresh, rewrite, fetching, writing, left, memory,
                 cancelled, snapshot>>

\* The flusher and the workers start.
AllClassified ==
  /\ pc = "classify" /\ order = {} /\ writing = {}
  /\ pc' = "work"
  /\ UNCHANGED <<durable, wanted, runs, target, loops, workers, snapshot>>

(***************************************************************************)
(* The workers.  Once one failed, FetchChunk fails for every chunk not yet *)
(* asked for, which changes nothing: those stay in todo.                   *)
(***************************************************************************)
StartFetch(c) ==
  /\ pc = "work" /\ c \in todo /\ ~cancelled
  /\ Cardinality(fetching \cup writing) < Concurrency
  /\ todo' = todo \ {c}
  /\ fetching' = fetching \cup {c}
  /\ UNCHANGED <<durable, wanted, runs, pc, target, loops, writing, left,
                 memory, cancelled, snapshot>>

FetchSucceeds(c) ==
  /\ c \in fetching
  /\ fetching' = fetching \ {c}
  /\ writing' = writing \cup {c}
  /\ left' = left \cup Targets(c)
  /\ UNCHANGED <<durable, wanted, runs, pc, target, loops, todo, memory,
                 cancelled, snapshot>>

\* The CDN gave up, or the caller cancelled the context.
FetchFails(c) ==
  /\ c \in fetching
  /\ fetching' = fetching \ {c}
  /\ cancelled' = TRUE
  /\ UNCHANGED <<durable, wanted, runs, pc, target, loops, todo, writing, left,
                 memory, snapshot>>

WriteTarget(t) ==
  /\ t \in left
  /\ disk' = [disk EXCEPT ![t[1]][t[2]] = ChunkAt(gid, t)]
  /\ left' = left \ {t}
  /\ UNCHANGED <<stash, saved, journal, wanted, runs, pc, target, loops, todo,
                 fetching, writing, memory, cancelled, snapshot>>

WriteFails(c) ==
  /\ pc = "work" /\ c \in writing /\ Targets(c) \cap left # {}
  /\ writing' = writing \ {c}
  /\ left' = left \ Targets(c)
  /\ cancelled' = TRUE
  /\ UNCHANGED <<durable, wanted, runs, pc, target, loops, todo, fetching,
                 memory, snapshot>>

\* Mutant: one target is enough.
WrittenSomewhere(c) == Targets(c) \ left # {}

Written(c) == Targets(c) \cap left = {}

\* Every target has the chunk: it goes to the journal in memory.
Record(c) ==
  /\ c \in writing /\ Written(c)
  /\ writing' = writing \ {c}
  /\ memory' = memory \cup {c}
  /\ UNCHANGED <<durable, wanted, runs, pc, target, loops, todo, fetching, left,
                 cancelled, snapshot>>

(***************************************************************************)
(* The flusher: on a tick it copies the journal under its lock, and saves  *)
(* the copy (written beside and renamed) without it.  A failed save is     *)
(* logged and forgotten.                                                   *)
(***************************************************************************)
\* Mutant: the flusher is started before the loop over order.
RunningEarly == pc \in {"classify", "work", "stopping"}

FlusherRunning == pc \in {"work", "stopping"}

FlushTick ==
  /\ FlusherRunning /\ snapshot = NoJournal
  /\ snapshot' = [gid |-> gid, done |-> memory]
  /\ UNCHANGED <<durable, wanted, runs, pc, target, loops, workers>>

SavesJournal(j) ==
  \/ journal' = j
  \/ SaveCanFail /\ UNCHANGED journal

FlushEnds ==
  /\ snapshot # NoJournal
  /\ SavesJournal(snapshot)
  /\ snapshot' = NoJournal
  /\ UNCHANGED <<disk, stash, saved, wanted, runs, pc, target, loops, workers>>

\* Mutant: chunks that no worker will take after a failure are waited for.
AllFetched == todo = {} /\ fetching = {} /\ writing = {}

AllReturned == (todo = {} \/ cancelled) /\ fetching = {} /\ writing = {}

\* g.Wait returns, stopFlush is closed.
WorkersDone ==
  /\ pc = "work" /\ AllReturned
  /\ pc' = "stopping"
  /\ UNCHANGED <<durable, wanted, runs, target, loops, workers, snapshot>>

\* Mutant: <-flushDone is left out.
FlusherLeftRunning ==
  /\ pc = "stopping"
  /\ pc' = IF cancelled THEN "lastFlush" ELSE "sweep"
  /\ UNCHANGED <<durable, wanted, runs, target, loops, workers, snapshot>>

\* Mutant: what g.Wait returned is shadowed.
FlusherStopsDeaf ==
  /\ pc = "stopping" /\ snapshot = NoJournal
  /\ pc' = "sweep"
  /\ UNCHANGED <<durable, wanted, runs, target, loops, workers, snapshot>>

\* <-flushDone: the flusher is not in the middle of a save.
FlusherStops ==
  /\ pc = "stopping" /\ snapshot = NoJournal
  /\ pc' = IF cancelled THEN "lastFlush" ELSE "sweep"
  /\ UNCHANGED <<durable, wanted, runs, target, loops, workers, snapshot>>

LastFlush ==
  /\ pc = "lastFlush"
  /\ SavesJournal([gid |-> gid, done |-> memory])
  /\ ProcessEnds
  /\ UNCHANGED <<disk, stash, saved, wanted, runs>>

(***************************************************************************)
(* The end of a run that has everything: the stashes go one by one, then   *)
(* the journal, and the manifest is saved as the previous one.             *)
(***************************************************************************)
Sweep(f) ==
  /\ pc = "sweep" /\ stash[f] # Absent
  /\ stash' = [stash EXCEPT ![f] = Absent]
  /\ UNCHANGED <<disk, saved, journal, wanted, runs, pc, target, loops, workers,
                 snapshot>>

Swept ==
  /\ pc = "sweep" /\ \A f \in Files : stash[f] = Absent
  /\ pc' = "clear"
  /\ UNCHANGED <<durable, wanted, runs, target, loops, workers, snapshot>>

ClearJournal ==
  /\ pc = "clear"
  /\ journal' = NoJournal
  /\ pc' = "save"
  /\ UNCHANGED <<disk, stash, saved, wanted, runs, target, loops, workers,
                 snapshot>>

Save ==
  /\ pc = "save"
  /\ saved' = gid
  /\ wanted' = NoBuild
  /\ ProcessEnds
  /\ UNCHANGED <<disk, stash, journal, runs>>

\* Store.Forget: the record of the installed build is deleted.
Forget ==
  /\ pc = "idle" /\ MayForget /\ saved # NoBuild
  /\ saved' = NoBuild
  /\ UNCHANGED <<disk, stash, journal, wanted, runs, pc, target, loops, workers,
                 snapshot>>

(***************************************************************************)
(* The environment: the process dies, or somebody changes a file while no  *)
(* run is under way.                                                       *)
(***************************************************************************)
Crash ==
  /\ pc # "idle" /\ pc \in CrashAt
  /\ ProcessEnds
  /\ UNCHANGED <<durable, wanted, runs>>

Tamper(f) ==
  /\ pc = "idle" /\ MayTamper
  /\ \E s \in Leftovers : disk' = [disk EXCEPT ![f] = s]
  /\ UNCHANGED <<stash, saved, journal, wanted, runs, pc, target, loops,
                 workers, snapshot>>

----------------------------------------------------------------------------
\* The goroutine that called Download.
Main ==
  \/ \E f \in Files : RemoveStale(f) \/ KeepFile(f) \/ MoveAside(f) \/ Sweep(f)
  \/ \E c \in Chunks :
       SkipChunk(c) \/ ReuseChunk(c) \/ LeaveToFetch(c) \/ StartFetch(c)
  \/ StaleRemoved \/ CreateFile \/ AllPrepared \/ AllClassified
  \/ WorkersDone \/ LastFlush \/ Swept \/ ClearJournal \/ Save

\* What a worker does once it has begun (and Download itself, for a chunk
\* it copies).
Worker(c) ==
  \/ FetchSucceeds(c) \/ FetchFails(c) \/ WriteFails(c) \/ Record(c)
  \/ c \in writing /\ \E t \in Targets(c) : WriteTarget(t)

Next ==
  \/ \E b \in Builds : Start(b)
  \/ Main
  \/ \E c \in Chunks : Worker(c)
  \/ FlushTick \/ FlushEnds \/ FlusherStops
  \/ Forget \/ Crash
  \/ \E f \in Files : Tamper(f)

Spec == Init /\ [][Next]_vars

(***************************************************************************)
(* Every goroutine is scheduled, and a fetch ends: each request has a stall*)
(* timer and a budget of retries.  A flusher that finds both a tick and    *)
(* stopFlush ready picks at random, so it does not pick the tick for ever. *)
(***************************************************************************)
Fairness ==
  /\ WF_vars(Main)
  /\ \A c \in Chunks : WF_vars(Worker(c))
  /\ WF_vars(FlushEnds) /\ SF_vars(FlusherStops)

FairSpec == Spec /\ Fairness

----------------------------------------------------------------------------
(***************************************************************************)
(* Properties.                                                             *)
(***************************************************************************)
\* Every variable holds a value of its kind, and loop state names only what
\* the manifests know.
TypeOK ==
  /\ disk \in [Files -> Content \cup {Absent}]
  /\ stash \in [Files -> Content \cup {Absent}]
  /\ saved \in Builds \cup {NoBuild}
  /\ journal \in Journal /\ snapshot \in Journal
  /\ wanted \in Builds \cup {NoBuild} /\ runs \in 0..MaxRuns
  /\ pc \in {"idle", "stale", "prepare", "create", "classify", "work",
             "stopping", "lastFlush", "sweep", "clear", "save"}
  /\ gid \in Builds \cup {NoBuild}
  /\ (gid = NoBuild) <=> (pc = "idle")
  /\ prev \in Builds \cup {NoBuild}
  /\ resuming \in BOOLEAN /\ cancelled \in BOOLEAN
  /\ files \subseteq Files /\ current \in Files \cup {NoFile}
  /\ (current # NoFile) <=> (pc = "create")
  /\ oldFiles \subseteq Files /\ byName \subseteq Files
  /\ fresh \subseteq Files /\ rewrite \subseteq Files
  /\ done \subseteq Chunks /\ order \subseteq Chunks /\ todo \subseteq Chunks
  /\ fetching \subseteq Chunks /\ writing \subseteq Chunks
  /\ memory \subseteq Chunks /\ left \subseteq Files \X Nat

\* Download succeeds only with the build on disk: when nothing is left but to
\* forget the journal and save the manifest, every file of the manifest holds
\* its chunks (download.go:52).
Materialized ==
  pc \in {"clear", "save"} =>
    \A f \in FilesOf(gid) : disk[f] = Manifest[gid][f]

\* A file the run wrote to is right, although somebody deleted it between two
\* runs of the build: "Files that are missing or the wrong size get
\* all their chunks fetched again" (download.go:170-172).
RewrittenRight ==
  pc \in {"clear", "save"} => \A f \in rewrite : disk[f] = Manifest[gid][f]

\* No file of the build installed before, gone from the new one, is still
\* there when a run is about to succeed (download.go:52-53).
NoStaleFile ==
  pc \in {"clear", "save"} /\ saved # NoBuild =>
    \A f \in FilesOf(saved) \ FilesOf(gid) : disk[f] = Absent

\* A chunk in the saved journal is on disk everywhere its build has it, so
\* that a resumed run may leave it out (store.go:63-64): everywhere but in
\* files the run under way knows not to trust, of which there is none between
\* two runs.
JournalTruth ==
  journal.gid # NoBuild =>
    \A t \in Places(journal.gid) :
      ChunkAt(journal.gid, t) \in journal.done =>
        t[1] \in fresh \/ BlockAt(disk[t[1]], t[2]) = ChunkAt(journal.gid, t)

\* The journal is gone once a run succeeded, and no flush brings it back.
NoJournalAfterSuccess == wanted = NoBuild => journal = NoJournal

\* Interrupting and resuming a build never loses journaled progress, although
\* each run starts with an empty journal in memory (download.go:255, 310).
ProgressKept ==
  [][journal.gid # NoBuild /\ journal'.gid = journal.gid =>
       journal.done \subseteq journal'.done]_vars

\* The version of f the previous build has is nowhere any more: its rename
\* failed, and it was written over or removed (download.go:406-408).
Lost(f) == f \in MoveCanFail /\ Manifest[prev][f] \notin {disk[f], stash[f]}

Holders(c) == {t[1] : t \in {t \in Places(prev) : ChunkAt(prev, t) = c}}

\* No chunk is fetched that the previous build, complete on disk when the
\* installation began, already holds (download.go:57-60), interrupted or not,
\* but of files that could not be moved and are lost.
OnlyMissingFetched ==
  prev # NoBuild =>
    \A c \in todo \cup fetching : \A f \in Holders(c) : Lost(f)

\* Files no installation is working on: none of the build on record or of the
\* one wanted, or all of them.
Settled ==
  IF wanted = NoBuild THEN Files
  ELSE Files \ (FilesOf(wanted) \cup (IF saved = NoBuild THEN {} ELSE FilesOf(saved)))

Promise == INSTANCE Install WITH record <- saved, dir <- [f \in Settled |-> disk[f]]

\* One who keeps asking for the same build sees the directory go from build to
\* build in one step, over failed, killed and resumed runs, and files of
\* neither build are left alone: Download implements Install (download.go:52).
InstallsBuilds == Promise!Spec

\* A run ends, whether or not its workers fail and whenever a flush is under
\* way: Download, the errgroup and the flusher never wait on each other.
RunEnds == (pc # "idle") ~> (pc = "idle")
============================================================================
