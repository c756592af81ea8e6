# fresh-steamer in TLA+

fresh-steamer downloads and updates Steam depots without the Steam client: it
logs on to a Steam connection manager (CM) over a websocket, asks it what an app
consists of and for the keys, fetches a manifest and chunks from the CDN, and
brings a directory from whatever it holds to the build the manifest names. This
directory holds TLA+ models of its stateful parts, the TLC runs that check them
on small instances, and TLAPS proofs of what they guarantee for every instance.

Modules are read beside the code: each action carries the name of the function
or the step it stands for, and `PROJECT.json` maps every definition to its lines.

    tlc -workers 4 -config MCDepotRetry.cfg MCDepot      # one run
    tlapm Depot_proofs.tla                               # the proofs of one module

## 1. Inventory

| component | code | state | operations | talks to |
|---|---|---|---|---|
| depot download | `src/depot/download.go` | files on disk, stashes (`*.fresh-steamer-old`), journal in memory, workers, flusher | `Download` | store, CDN client |
| depot store | `src/depot/store.go` | `manifest-<id>.json`, `progress-<id>.json` | `Previous` `Save` `Forget` `Journal` `SaveJournal` `ClearJournal` | disk |
| CM connection | `src/cm/client.go` | jobs and their queues, `byEMsg`, `stash`, `closed`, `err`; read loop and heartbeat goroutines | `Connect` `Logon` `Request` `RequestMulti` `Unified` `WaitEMsg` `Close` | Steam |
| CDN client | `src/cdn/*.go` | the next server to start with | `Servers` `FetchManifest` `FetchChunk` (sweeps, backoff, verification) | CDN |
| session | `src/session/session.go` | depot keys and their file, branch keys, the CDN client | `Open` `DepotKey` `CDN` `UnlockBranch` `ResolveManifest` | CM, CDN, disk |
| auth | `src/auth/*.go` | one login at a time: client id, guard | `Login` `LoginQR` | Steam web API, user |
| appinfo | `src/appinfo/*.go` | an `App` its caller holds, to which sections are added; within a call, what its packets gave | `Fetch` `Packages` `Names` `Licenses` `PrivateBeta` | CM, HTTP |
| vdf | `src/vdf/*.go` | none between calls; a position and the blocks that are open | `Parse` `ParseBinary` | |
| command line | `src/cmd/fresh-steamer/main.go` | the credentials file; the directory and `page.json` of `page -out` | `login` `partner-key` `download` `apps` `info` `page` ... | everything |
| proto pruner | `src/proto/prune/main.go`, `src/proto/generate.sh` | the generated files, which the next run removes | one run per build | protoc |
| steam crypto | `src/steamcrypto/*.go` | none | `SymmetricDecrypt` `DecryptECB` | |
| web clients | `src/store` `src/partner` `src/webapi` | `.part` files | `Fetch` `Download`; `Apps` `Builds`; `Call` | web sites, disk |
| generated protobuf | `src/pb` | none | | |

How they interact: `cmd download` opens a session, which holds one CM client that
all its calls share. Each call registers a job, sends, and waits; the read loop
finds the job of each packet. With the manifest and the depot key in hand,
`depot.Download` runs up to `Concurrency` workers, each of which calls
`cdn.Client.FetchChunk` and writes the chunk wherever it goes, while a flusher
saves the journal of finished chunks every two seconds. Nothing survives a process
but the disk: files, stashes, journal and the saved manifest, which the next run
reads.

What is hard:

* **Downloads are interrupted** by a failing worker, a signal, an error in the
  middle, a kill, and resumed by a later run of the same or of another build. The
  four durable pieces are updated one after the other. Files are trusted by size
  alone when a record says what they should be, so a wrong record is enough to
  keep a wrong file.
* **The flusher races the workers and the end of the run**, and saves without the
  lock it took its snapshot under.
* **The CM client** hands packets to consumers through three small protocols (a
  bounded queue with a token, a channel of one, a stash with a broadcast), each of
  which lets a lock go between two steps; anybody may fail the connection at any
  time, the read loop included.
* **Caches of the session and the credentials file** are read, let go of and
  written back.
* **The CDN client** retries what may be cancelled and what will never succeed.
* **What comes from outside** comes in any shape: product info in several packets, in any
  order, with an error in any of them; a branch or a depot in several sections, merged as
  they are unlocked; a body whose bytes are not what was asked for, or break off; documents
  in two formats, nested, cut short or empty.
* **Tools that run again over what the last run left**: the pruner and `page -out` write
  into a directory that holds another run's files, and may stop at any point.

What makes each component correct: *depot*: a run that succeeds leaves exactly the
build; the journal is never ahead of the disk; interruption loses no recorded
progress; what is on disk is not fetched; every run ends. *CM*: no packet, wakeup
or reason is lost; packets of a call arrive in order and complete or the call
fails; everything ends when the connection does. *CDN*: a chunk returned is the
chunk named; the retry budget is respected; permanent errors and cancellation end
it. *Session*: a key learned is not forgotten, in memory or in its file. *Auth*:
a login asks for what Steam offers and polls for what can come, with the id Steam goes
by. *Command line*: saving one credential does not lose another. *Appinfo*: an answer is
the same however it was cut into packets, an app has what all its sections say. *Vdf*: what
means something is read as that, and what is read is all of the text. *Crypto*: what is
decrypted is what was encrypted, or an error. *Web clients*: a file that is there is whole.
*Pruner*: what is generated is what the allowlist needs, and nothing else.

`PROJECT.json` lists the hazards with their lines and the properties for each.

## 2. Plan

1. `Depot`, `MCDepot`, `Depot_proofs`: download and store. **Done**, see below.
2. `CMClient`, `MCCMClient`, `CMClient_proofs`: the CM connection. **Done**.
3. `Cdn`, `Cdn_proofs`: requests to the CDN. **Done**, checked by `MCReaders`; still to come is
   the composition with `Depot`, where a request that fails cancels the others.
4. `Session`, `MCSession`, `Session_proofs`: the caches of a session and the key
   file, over goroutines, processes and restarts. **Done**; the seeds of the key cache
   and the composition with `CMClient` (a failed connection fails every request) are
   to come.
5. `Login`, `MCLogin`, `Login_proofs`: the two ways to log in, the publisher key and
   the credentials file, over processes that run at once. **Done**.
6. `Install`: the abstract promise of `Depot`, a directory that moves from one build
   to another in one step and remembers which it holds; `Depot` under the conditions
   of the proofs implements it. **Done**: checked by TLC and proved.
7. `Content`: what is in the bodies the CDN sends, with the ciphers; `Vdf`: both parsers;
   `Formats_proofs`: of both; `AppInfo`, `AppInfo_proofs`: handlers over several packets and the
   merging of sections; `Prune`: the pruner's reachability and its output; `Web`: the commands on
   web sites; `Output_proofs`: of both. **Done**; they and `Cdn` are checked by `MCReaders`.
8. A proof still worth having: of `RewrittenRight` with some of the kills that `Orderly` (section 3)
   excludes. Compositions still worth having: `Depot` with `Cdn`, `Session` with `CMClient`.

## 3. Depot

### Correspondence

| model | code |
|---|---|
| `disk[f]`, `stash[f]` | the file at its path, and at its path with `oldSuffix`; `Absent` when there is none |
| `saved` | `manifest-<id>.json`, by the build it names |
| `journal` | `progress-<id>.json` |
| `pc` | where `Download`/`download` is: `stale` and `prepare`/`create` are the two loops over files, `classify` the loop over `order`, `work` until `g.Wait`, `stopping` until `<-flushDone`, then `lastFlush` or `sweep`, `clear`, `save` |
| `gid`, `prev`, `resuming`, `done` | `opts.Manifest`, `opts.Previous`, `resume != nil`, the map `done` |
| `oldFiles`, `byName`, `fresh`, `rewrite`, `order`, `todo` | `oldFiles`, `stashedByName`, `fresh`, the files with work, `order`, `todo` |
| `memory` | `journal.Done` of the run |
| `fetching`, `writing`, `left` | chunks whose worker is in `FetchChunk`, or writing, and what it has still to write |
| `snapshot` | the copy the flusher is saving |
| `cancelled` | the context of the errgroup |
| `wanted` | history: the build whose installation was begun and has not succeeded |

`Start` is the head of `Download`; `RemoveStale` one turn of the stale loop;
`KeepFile`, `MoveAside` and `CreateFile` one turn of the prepare loop (in two steps,
because a crash between them matters); `SkipChunk`, `ReuseChunk` and `LeaveToFetch` a
turn of the loop over `order`; `StartFetch`, `FetchSucceeds`, `FetchFails`,
`WriteTarget`, `WriteFails` and `Record` a worker; `FlushTick` and `FlushEnds` the
flusher; the rest the end of a run. A chunk reused from disk goes through `WriteTarget`
and `Record` like a fetched one. `Forget` is `Store.Forget`, which a caller may use
between runs. `Crash` is the end of the process between two steps; it also stands for
the errors `Download` returns without saving anything. `Tamper` is somebody else
changing a file between runs.

`stashOld` returns nothing when its `os.Rename` fails, and the run goes on without the old
version (`download.go:406-408`): `RemoveStale` then removes the file and `MoveAside` leaves it where
it is, for `CreateFile` to write over. Which files may fail to be moved is `MoveCanFail`; each attempt
fails or not, so a file that could not be moved by one run may be moved by the next, with what the
first wrote in it. A stash that exists is taken up without a move, which cannot fail.

A file is a sequence of chunks of one size, a hash stands for its bytes, and equal
sequences stand for equal content hashes. Files are taken in any order, which covers
every order of a manifest and of the Go map in the stale loop.

### Properties

* `Materialized`, `RewrittenRight`, `NoStaleFile`: what success means.
* `JournalTruth`, `NoJournalAfterSuccess`, `ProgressKept`: the journal is not ahead of the
  disk, does not come back, does not lose progress. While a run has found a file not to be as
  it should (`fresh`), it does not go by what the journal says of it, and `JournalTruth` does not
  either; between runs there is no such file.
* `OnlyMissingFetched`: a chunk is not fetched while a file of the previous build holds it, also
  when the run that moved the old files aside ended in an error and is resumed. A file is excused
  (`Lost`) only when it could not be moved and its old bytes are neither at its path nor in
  its stash: then the run wrote over it, or removed it.
* `InstallsBuilds`: `Download` implements `Install`.
* `RunEnds`: liveness.

**The abstract specification.** `Install` says what one who keeps asking for the same build may
rely on, in three actions and no journal, stash or worker: `Begin` an installation, `Finish` it,
`Forget` the record. Its `dir` is a partial function: between `Begin` and `Finish` it says nothing
of the files of the two builds, and that no other file changes. `Finish` makes the directory
the new build in one step. In the refinement `record` is `saved`, `wanted` is the history variable
of the same name, and `dir` is `disk` on the files that are `Settled`. All the steps of a run, of
however many runs that fail, die and are resumed, map to stutters, but for the first `Start`
(`Begin`) and the `Save` that ends the last (`Finish`); so the refinement implies `Materialized` and
`NoStaleFile` under the conditions of `depot_retry`, and that a directory which holds a build goes
on holding it until the next installation. `Forget` in the middle of an installation shows files of
the old build again, some of which may already be gone: that is what a lost record costs.

### Runs

The builds of `MCManifest` (two builds, three files, four chunks) hold the cases that matter: a
chunk that moves within a file, one that lands twice, an unchanged file, a file that goes away or
comes back, and `c2`, which is in the stale file and in the rewritten one. In `MCEmpty` an empty
file gets chunks. `MCThreeBuilds` and `MCBack` keep file sizes equal over three builds, so that
sizes tell nothing; in both f1 goes back in C to what it was in A, and in `MCBack` two files of C
share a chunk.

| run | instance | shows |
|---|---|---|
| `depot_retry` | A and B, 3 runs, 1 worker, crash anywhere before the sweep, failing saves, f2 (which changes its size) and f3 (which goes away) may fail to be moved, `Forget`, fair; 392,015 states | while the user keeps asking for the interrupted build, the directory goes from build to build as `Install` says, the journal is true, loses nothing and does not come back, nothing is fetched that a file of the old build still holds; every run ends |
| `depot_switch` | `MCBack`, 3 runs, 2 workers, worker failures, crash in the stale loop and at `Save`, any file may fail to be moved, the user may change his mind, files deleted in between; 1.99 million states | what a run rewrites is right |
| `depot_back` | `MCBack`, 3 runs, worker failures only, the user may change his mind | **violated** `Materialized` |
| `depot_aside` | `MCEmpty`, 3 runs, killed anywhere before the last flush | **violated** `Materialized` |
| `depot_crash` | as `depot_retry`, killed anywhere | **violated** `JournalTruth` |
| `depot_stale` | three builds, worker failures only | **violated** `NoStaleFile` |

Three runs are enough for an interruption, an interruption while resuming, and a
success, or a success followed by another installation; properties relate at most two
builds at a time. `MaxRuns`, `Leftovers` (the contents of files that no run wrote),
`CrashAt` and `MoveCanFail` are the only bounds. Deadlock is not checked: after `MaxRuns` runs the system
stops.

### What the violated runs say

* **Aside** (`download.go:217`): for a file that was empty in the previous build, `stashOld` is
  called with size 0 and accepts whatever is there, also what an interrupted run of this very build
  has written. The run that resumes it moves that aside, finds the file missing, does not trust
  the journal for it, and re-creates it at its size. Killed before its first flush, it leaves the
  journal of the first run and a file of zeros that has the right size; the third run finds a stash
  already, the size right, skips the chunks the journal names, and succeeds.
* **Back** (`download.go:82`): sizes are distrusted when a journal of another build is found
  (`download.go:84-87`), but not for long. With A on record, a run for B fails
  in a worker and leaves B's journal. A run for C finds it and forgets `Previous`, so it
  would hash everything; but a chunk cannot be fetched, and it leaves a journal of C. The
  next run for C resumes its own journal and has `Previous` again. A file that is the same
  in A and C, still half of B because the first run for C did not come to it, is kept for
  its size, and the run succeeds and records C.
* **Crash** (`download.go:93`): stashes are removed, then the journal. After a crash in
  between, with the record still of A, a re-run for B starts over on what are B's files:
  it moves and truncates them while the journal still vouches for their chunks. A crash
  before its first flush leaves the journal claiming what is not there.
* **Stale** (`download.go:88`): after A to B was interrupted, C is installed without a
  previous manifest, so what is in A or B and not in C is not removed.

Four relatives have no run of their own.

* *Back* with a kill (`download.go:84`): the journal is first written two seconds into the fetching, so
  an update to B that dies before leaves files of B's size and no journal to tell the next run, for A
  or C, not to trust sizes. `depot_back` with `MaxRuns` 2 and every place in `CrashAt` finds it.
* *Aside* with a file that keeps its size and cannot be moved (`download.go:406`): the first run writes
  over it in place, and the next, which can move it, takes it for the old version. `depot_aside`
  with such a file in `MoveCanFail` finds it.
* A deleted file that both builds share is re-created at its full size before its chunks come;
  interrupted there, the next run skips it by size (`download.go:204`) and succeeds with zeros in it:
  `depot_retry` with `MayTamper` finds it.
* After a file is deleted between runs, the run that re-creates it leaves the journal ahead of the
  disk until its first flush.

### Fairness

`FairSpec` asks that `Main` and each worker are scheduled, that a fetch ends (each
request has a stall timer and a bounded number of retries, `cdn/servers.go:76-110`), that
a save ends, and strong fairness for `FlusherStops`: a flusher whose `select` finds both
the tick and `stopFlush` ready picks at random, so it does not pick the tick for ever.

### Proofs (`Depot_proofs`)

`TypeCorrect` needs nothing but the assumptions on the constants. Of the others,
`MaterializedCorrect`, `NoStaleFileCorrect`, `JournalCorrect`, `NoJournalCorrect`,
`InstallCorrect`, `ProgressCorrect` and `OnlyMissingCorrect` assume `Retried`. Its conditions are

1. an interrupted build is asked for again until it is done (`~MaySwitch`);
2. files are not changed between runs (`~MayTamper`);
3. no crash comes during the sweep or before `ClearJournal`;
4. one of two: `MovedAtOnce`, old versions are moved aside by the first run that meets them (no file that
   changes is empty in one of the builds, and one that changes and keeps its size can be moved); or
   `NoneKilled`, a run that has come to the files of its build lives to save its journal, and the save succeeds.

None of them is the code's own promise, and each has a violated run or a relative above that shows
what happens without it: *Back* and *Stale* the first, the deleted file the second, *Crash* the
third, *Aside* the fourth. Builds, files, chunks, manifests, concurrency, leftovers, which moves
fail and the number of runs are otherwise arbitrary. Under `NoneKilled` a file may become or stop
being empty, and any move may fail: a run that moves a half-written file aside has it in `fresh`,
and its last flush leaves those chunks out (`FreshFiles`, and `JournalTruth` for the time between).
`ProgressCorrect` and `OnlyMissingCorrect` need `MovedAtOnce` itself, because such a run does drop
those chunks from the journal, and fetches again what was moved aside with them.

None of the properties is inductive. The invariant `Inv` says, part by part:
`Ledger`, what the records (`saved`, `journal`, `wanted`) say of each other and of the
run under way; `Kept`, that a file both builds share and that has its size has its
content; `Aside`, that a stash holds nothing a run would lose; `Prepared` and `Sizes`,
how far the loops over files have come, and that files under work have their final
size; `Journaled`, that every chunk in the journal, in a snapshot or in memory is on
disk in all its places; `Accounted`, that every chunk of a file under work is in exactly
the stage that explains its bytes (still in `order`, to fetch, being written with what
is left, or recorded); `Gone`, that stale files are off their paths; `SweptClean`, that
the sweep is complete when the journal goes. The step lemma takes the actions one by
one, and under each the parts it can disturb. `Materialized` follows from `Accounted`
(nothing is in flight at the end, so everything is recorded) with `Journaled`, for the
files rewritten, and from `Kept` for the others.

`InstallCorrect` adds `StaleKept`: while an installation is under way, a file of the old build that
the new one does not have is as that build has it, or gone. With it and `Inv` each action is a
stutter of `Install` (it changes only files that are not `Settled`), or one of its three steps: at
`Save`, `Materialized` and `NoStaleFile` give the contents of the files that become settled.

`ProgressCorrect` is about every journal a run saves, although each run starts with an empty one in
memory. Its invariant, `Progress`, has five parts besides `Inv`: `NotSame` (a file that did not change
is not written to), `NothingFresh` (a resumed run finds every file there, so none needs all its
chunks again), `HasTargets` (a chunk of a run has a place in a file it writes to), `JournalChanged`
(so has a journaled chunk in every run that resumes) and `Carried`: what the saved journal has is in
memory or, while chunks are classified, in `order`, and a snapshot is never behind it.

`OnlyMissingCorrect` is about a run that finds half of the work of others. `OldSafe` says that a
file of the build on record is, until the sweep, intact in its stash, or at its path when it has
none; `Indexed` that each such file the loops have passed is in `oldFiles` or did not change.
`FoundLocally` concludes that whatever place a chunk of that build is read from holds it. The
theorem also assumes that no process dies between `ClearJournal` and `Save`, nor does `Save` fail:
the next run would take the old build for what is on disk, with no journal, and fetch what is there
(it still installs the build, `Materialized` holds).

`RewrittenCorrect` is about the other half of what a user does: builds asked for in any order, an
installation given up for another or resumed, files deleted or cut between two runs. It does without
`Retried` and says what is left then: what a run *wrote to* is right when it succeeds, although it
skips what a journal of its build names. (What it did not write to may be wrong, as `depot_back`
shows.) The invariant is `SkipInv`. `Source` says that a journal is resumed with the record it was
written with; `Vouched` what a journal of an ended run is worth: each chunk in it is in each of its
places, but in files that are seen to be of the wrong size, and in those which a run with the
present record keeps without looking; while the loops over files pass, it turns into the statement
that a journaled chunk is in all its places in files that are rewritten and were not found missing
(`fresh`), which is what `Resumed` goes by. `InPlace`, `Taken` and `Accounted` carry it to the end
of the run.

Its condition is `Orderly`. A run may be killed before it touches a file of the build or after its
journal is gone, and may fail in any worker; not elsewhere, because a run that truncates or
re-creates a file dies before its first flush with the old journal on disk, which claims what is not
there. A save that fails does the same (`~SaveCanFail`), and so does a run after `Forget`, which
finds a journal and no record. And what somebody puts in a file's place between two runs must not have the
size the file has in a build, or else sizes tell nothing: a deleted or cut file has not.

## 4. CMClient

### Correspondence

`call[c]` is where caller `c` is in `RequestMulti` (or `Unified`, a `RequestMulti` with
one reply): `newJob`, `send`, then `recv`, split into `pop` and the `select` (`parked`).
`queue`, `failed` and `ready` are the fields of its `job`. The read loop's `reader`
separates what the code does under different locks: `Lookup` (under `c.mu`),
`PushPacket` (under `job.mu`), `Signal` (no lock), `Offer`, `Stash`. `batch` counts the
packets of one websocket message, which are all dispatched even when one of them closed
the connection. `Fail` and `FailEnds` are the two halves of the `sync.Once`: the error is
set, then the channel closed; a second caller of `fail` blocks until the first is done
(the states `failing`). `stash`, `waiter` and `wake` are the stash, a goroutine in
`WaitEMsg` and whether the channel it captured is closed. Steam is external: it sends
each call `Replies[c]` packets, in order, whether or not the call is still waiting, and
pushes logon responses, other packets and `ClientLoggedOff` when it likes. Packets of a
call carry their number, which is what `NoGap` counts.

### Runs

| run | instance | shows |
|---|---|---|
| `cm_calls` | two calls (two replies, one reply), queue of 1, frames of up to 2, one push | `NoLostWakeup`, `NoGap`, `FailsAfterDraining`, `ClosedHasReason`, `NoLostPush` in every interleaving |
| `cm_ends` | one call of three replies, queue of 2, fair | `AnswerWakes`, `EndsAfterFail` |

`MaxJobQueue` is 4096 in the code; a queue of one or two that can overflow, drain and
overflow shows the same transitions. Two callers are enough because a caller shares
nothing with another but the read loop and the failure. Deadlock is not checked: with
every call returned and the connection closed nothing is left to do.

Fairness: goroutines are scheduled, a write ends (it has a 30-second context), and
`Read` on a closed connection fails. Nothing is asked of Steam, of the callers' contexts
or of `select`.

### Proofs (`CMClient_proofs`)

For any callers, replies, queue bound and frames: `TypeCorrect`, `WakeupCorrect`,
`ReasonCorrect`, `PushCorrect`, `StreamCorrect` and `DrainCorrect`. The strengthening for the wakeup is
small: a token is only ever taken by the consumer that then looks, and the read loop
signals after each push. `StreamCorrect` needs the most: what a call was given, what is
queued and the packet in hand continue each other up to what Steam sent, and once a job
failed nothing is appended any more, so an overflow cuts the stream and leaves no gap.
`DrainCorrect` rests on the sum of what was given and what is queued, which a failed job
no longer changes. `ReasonCorrect` rests on the order in `fail`.

## 5. Cdn

### Correspondence

A request is one call of `FetchChunk` or `FetchManifest`. `sweep` is the head of `get`
(`Sweep` takes the shared counter and moves it on), `connect` and `asking` are before and
in `getOnce`, `swept` is in `retry` after its function failed, `backoff` its `select`.
`BadStatus` and `Broken` differ as in the code: only an error of the transport makes
`get` look at the context. `RightBody` and `WrongBody` are the decoding and the checks of
`FetchChunk` (or `ParseManifest`) on a 200; a wrong body ends the sweep. `hits` is a
history variable. Servers are external: each answers in a way of its own, chosen
initially: right (`good`), wrong (`corrupt`), now right and now with an error (`flaky`), not at all
(`hangs`), or with a permanent error (`missing`). A server that is always down is a flaky one that
was never lucky.

### Run

`readers` (section 13): 2 requests, 3 servers of any kinds, 1 retry, a counter that wraps at 4,
cancellation, fair: `BudgetSpent`, `PermanentEnds` and `RequestEnds`.

Three servers are enough for a sweep with a first, a middle and a last turn and for a wrap
that is not a multiple of the list; what a request does depends on the others only
through the counter, so a second request is enough to move it arbitrarily.

Something the code allows and no property rules out (`manifest.go:245`): a wrong body is
not answered by asking the next server but by a new sweep, which begins wherever the
counter is. With one worker that is the next server. With several, each sweep of a
request may begin at the one server whose bodies do not verify, and the request, and the
download, fail although every other server would have done. With four requests over two
servers and the default three retries TLC finds it; `chunk.go:29-30` names such a server
as the reason for retrying.

Fairness is one weak condition per request: its goroutine is scheduled and its timers
fire. A server that keeps sending a byte before each stall timeout keeps a request for
ever; it is not among the kinds.

### Proofs (`Cdn_proofs`)

`TypeCorrect`, `PermanentCorrect` and `BudgetCorrect`, for any requests, servers, retries
and counter width. `PermanentEnds` is inductive with the types. For `BudgetSpent` the
invariant counts, for every server, the sweeps that are over and whether the one under
way has come to it, which is whether `Off(r, s)`, the turn at which a sweep that began at
`start[r]` comes to `s`, is behind. The one arithmetical fact is the lemma `Turns`:
that turn is unique and below `N`.

## 6. Session

### Correspondence

A process (`Sessions`) is a `Session`, started by `Open` and ended by `Exit`, which is
`Close`, a kill or a crash. Each of its goroutines (`Callers`) makes downloads, and a
download is the chain of requests of `cmdDownload` (`main.go:575-590`): `ResolveManifest`
with `UnlockBranch` and `branchKey`, `DepotKey` with `SaveKeys`, `ManifestRequestCode`,
`CDN`. The code's lock is let go between looking into a cache and asking Steam, and again
before the file is saved, so each of these is an action: `LookUpKey`, `KeyAnswered`,
`OpenTmp`, `WriteTmp`, `RenameTmp`. Only `CDN` keeps the lock while it asks (`mu[s]`, from
`AskServers` to `ServersAnswered`), and everything else that needs the lock waits.

| model | code |
|---|---|
| `keys[s]`, `branchKeys[s]`, `client[s]` | `s.depotKeys`, `s.branchKeys`, `s.cdnClient` |
| `merged[c]` | the hidden branches merged into the caller's `app` |
| `snapshot[c]`, `fd[c]` | the copy of the keys `SaveKeys` writes, and the file it has open |
| `path`, `tmp`, `content` | which file is at `KeyFile` and at `KeyFile + ".tmp"`, and what each file holds; a file outlives its name for as long as it is open |
| `asks`, `built`, `refused`, `overlapped` | history |

A key is named by its depot (depot keys never change, `session.go:51`), so a set of
depots is a key file. The constants say what Steam answers: `Listed` and `Encrypted` are
`depot.Manifests` and `depot.EncryptedManifests`, `Private` what the section of a hidden
branch adds to them (`mergeDepots`), `PasswordOf` which branches a password unlocks. Any
request may fail (`RequestFails`); a save may fail at any step, after part of the bytes is
written too (`SaveFails`), and is only logged. `os.WriteFile` is external: it cuts the
file, writes from the start, and closes; what is there after another writer filled the
file in between is `WrittenOver`: the longer of the two survives whole or mixed. `Open`
is enabled only when the file can be parsed, as in the code, where it fails otherwise.

### Properties

* `FileReadable` and `FileGrows`: the key file stays whole and loses nothing, over kills,
  failed saves and restarts, while one process runs and saves one key at a time.
* `LearnedIsSaved`: nothing the process knows is missing from the file once all saves are
  over, whatever runs at once. This is what the documentation of `KeyFile` says.
* `DecidedByRight` (`ResolvedWithRight` and `RefusedWithReason`): who gets a branch has the
  right to it, and who is refused does not, whatever the caches hold from other callers and
  passwords.
* `AsksOnce`: the rate-limited call is made once per password and goroutine.
* `OneClient`: one CDN client is built for each process. It is proved and no run checks it.

### Runs

| run | instance | shows |
|---|---|---|
| `session` | 1 process started twice, 2 callers with 2 downloads each, 2 depots, a public, an encrypted and a hidden branch, right and wrong passwords, failing requests and saves | all but `LearnedIsSaved` and `OneClient` |
| `session_keys` | 1 process, 2 callers, a depot each, nothing fails | **violated** `LearnedIsSaved` |

Two callers are enough for a look into a cache that is stale when the answer comes, for a
lock somebody waits on and for two saves at once; two downloads of one caller for a cache
that was filled by the one before; two starts for what a restart finds. Two files are
enough for the key file and its `.tmp` in `session`, whose properties are about saves that
do not overlap; `session_keys` has a third, which lost its name while it was open. Callers
are alike, and so are files, which the runs use as symmetry. Deadlock is not checked: the
callers have nothing left to do after `MaxCalls` downloads.

**Keys** (`session.go:131`): two callers that learn a key at the same time save two
snapshots into one `.tmp`. The second cuts and fills the file the first is about to
rename (or just has: the file is then the key file), or the older snapshot, without the
other's key, is renamed last. The key file ends with bytes of both, and every later
`Open` fails with "parsing depot key cache", or without a key. A key that is missing is
in memory, so this process does not ask for it again and does not save it until it
learns another. Two processes do the same to each other: each writes only the keys it
loaded and learned.

`UnlockBranch` and `ResolveManifest` are right, but the command line passes no password
to `ManifestRequestCode` (`main.go:586`), whose comment says that password branches need
it. What Steam answers then is external, so no property is about it.

No fairness is assumed and no liveness claimed: `CDN` holds the lock over an HTTP request
that only the caller's context ends, so a request that hangs keeps every `DepotKey` of
the process waiting.

### Proofs (`Session_proofs`)

The properties of the run `session` and `OneClient`, for any processes, goroutines, depots,
branches, passwords and bounds. The key file rests on `FileInv`: while nothing
overlapped, at most one caller is saving and only the process that runs has one
(`Alone`), the file at `path` is readable and holds nothing but what every cache has
loaded, so each snapshot extends it (`Growing`), and what is written goes to the file
named `.tmp`, which is not the one at `path` (`OwnTmp`). All three are conditional on
`~overlapped`, as the properties are; without it `LearnedIsSaved` shows what happens.
The caches rest on `CacheInv` (an entry for a password is what that password unlocks,
and a goroutine that has an answer finds it cached) and on `RightInv` (whoever is past
`branchKey` has a manifest, or an encrypted one and its password); `OneClient` on
`ClientInv` (whoever asks for servers holds the lock, and none was built before).

## 7. Login

### Correspondence

A process runs one command at a time: `login` by password (`auth.Login`) or by QR code
(`auth.LoginQR`), `partner-key`, or `logout`. Each of the first three obtains something
over minutes and then loads the credentials file, changes a part and saves the whole.

| model | code |
|---|---|
| `pc[p]` | `guard`, `prompt`, `submit` are `handleGuard`; `poll` (a request is under way), `answered` (its answer is) and `wait` the polling loops; `load` to `write` the tail of `cmdLogin` and `cmdPartnerKey` |
| `auth[p]` | `begin.AllowedConfirmations` and how far the loop over them is, `codeKind`, `canWait`, the client id that is polled with and the challenge that is shown |
| `steam[p]` | what Steam knows of the login, what it last told of it, and what the answer under way says: external |
| `got[p]`, `creds[p]` | `auth.Credentials` or the new key, and the `creds` being saved |
| `file`, `linked[p]` | `creds.json`: `None`, cut to `Empty`, whole, or `Torn`; and whether the file a writer has open is still the one at the path |
| `saved`, `overlapped` | history |

`BegunWithPassword` stands for fetching the key and beginning the session, `ReadConfirmation`
for a turn of the loop in `handleGuard` (in any order, which covers every order Steam may
list), `Prompt` to `CodeAccepted` for the rest of it. `PollApproved` is
a poll that yields the credentials. A poll that does not is two steps: `AnswersPending`, in which Steam
answers, and `PollPending`, in which the client takes from the answer what is in it (`TakesNew`).
`RequestFails` is any request that is not answered well, a poll with a client id
Steam has replaced included.

Steam is external, and what is assumed of it is this. It takes a new client id or challenge for a
login whenever it likes (`Rotate`; qr.go:14-15), also between its answer and the client's taking it,
and more than once between two polls. An answer says what is new since the last (`News`), and 0, or
no URL, of what is not. It accepts a request with the id it goes by or the one it last told
(`Accepts`), and a challenge that is not the latest cannot be approved. `os.WriteFile` is external,
as in `Session`, but here it works on the file itself: `Cut`, then `Write`. `Kill` and `SaveFails`
end a process anywhere, with part of the bytes written too.

### Properties

* `GuardedRight` (`AsksBestCode` and `PollsApprovable`): `handleGuard` asks for the best code on offer, and goes
  on to poll without one only if somebody can approve elsewhere.
* `InStep`: the client id a login sends is one Steam accepts, and the challenge it shows can be
  approved, or Steam has changed it since it last answered; whatever Steam changed how often, before,
  while and after it answered, and although an answer leaves out what is not new. Taking an id of 0
  for an id, or showing an empty challenge, breaks it (`TakesAll`), and so would taking one of the two
  only when the other is there.
* `OfOneLogin`: account, Steam id and token in a file that can be parsed are of one login,
  also when saves overlap. The login by QR code leaves no Steam id of an earlier account.
* `NothingLost`: unless two saves overlap, a file that can be parsed holds the last login and
  the last publisher key.

### Run

`login`: 2 processes, 3 commands in all, 2 accounts, 1 publisher key, 5 offers (both codes; a
code or a confirmation; a confirmation alone; nothing known; nothing needed), and two changes of
each client id and challenge; 2,357,906 states. Two processes are enough for a file that changes between a load
and a save and for two writers of one file; three commands for what a later one
finds of two that overlapped; and two changes for one that is told and one that comes while the answer is
under way. Processes
are alike, and so are accounts. Deadlock is not checked: after their commands the processes
stop.

Two things the code does and no property rules out. The file is rewritten in place
(`main.go:84`): killed between the cut and the write, a process leaves a file nothing can
parse, and from then on `login` and `partner-key` fail *after* the user approved or typed a
key (`LoadFails`), until `logout` removes the file. And of two commands that are between load
and save at once, the one that saves last undoes what the other saved, although each changes
a field of its own.

`Torn` is taken to be unparseable. It is a prefix of a JSON object, or one followed by the
rest of a longer one; only a write cut short over another one's bytes of the same layout could
give a mix that parses.

No fairness is assumed and no liveness claimed: the client of the web API has no timeout
(`webapi.go`), and a user may never come.

### Proofs (`Login_proofs`)

All of the properties, for any processes, accounts, keys, offers and bounds. `InStep` rests on
`Together` (`Knows`, of each process): what a process goes by is what Steam last told it, or will be
once it has taken the answer under way, where an answer without an id says that the id is still the
one the process has. `OneInv` carries `OfOneLogin` through `got`, `creds` and the file.
`LostInv` says, while nothing overlapped, that one process at most is saving, that what it is
about to write is its change to what was last saved, and that a writer has the empty file at
its path open. `GuardInv` says what `codeKind` and `canWait` mean in the middle of the loop of
`handleGuard` (`Reading`: the best code, and whether a confirmation, is among those already
read); its one lemma about the choice is `BestOfMore`.

## 8. Content

What is in the bodies whose coming and going is `Cdn`, and the ciphers.

### Correspondence

| model | code |
|---|---|
| `ListServers`, `Usable` | `Servers`: the directory's list without proxies, servers in China and other types |
| `SymmetricDecrypt`, `DecryptECB`, `Unpad`, `Adler` | `steamcrypto` |
| `Decompressed` and the three containers, `Checks` | `DecodeChunk`, and what `FetchChunk` compares |
| `ChunkBody`, `NoGood`, `TryAgain`, `WaitBefore` | a body in `FetchChunk`, `retry` after it, `backoff` |
| `ReadSections`, `ManifestBody`, `DecryptFile`, `Normalized` | `ParseManifest`, `FetchManifest`, `decryptFilenames`, `normalizeNames` |
| `ReadId` | `ResolveManifest` of a branch with a key |

A byte goes to `ByteMax` and a cipher block has `BlockLen` bytes, 255 and 16 in the code; `Xor` is that
of two bytes. Padding, blocks and the chaining of CBC are the code's, byte by byte: `BlockAt` and
`PlainBlock` are what `CryptBlocks` does with a block, `Chained` what encryption makes of one after
another, `Joined` the bytes of blocks, `Reading` the manifest after so many sections. The run has two
bits in a byte and two bytes in a block, small enough that all short inputs can be tried. AES is any
permutation of blocks per key, a compression any partial function: both are external. A SHA-1 is as good
as the bytes it is of. A base64 string that cannot be decoded is the empty ciphertext, which `Unpad`
refuses.

### Properties

* `BytesAsMeant`: a chunk that is returned is the one asked for, whatever bytes come; a body that holds
  it in any of the containers is not refused; an id Steam encrypted is read as that id.
* `ManifestInClear`: a manifest that is returned has all names and links in clear, with forward slashes,
  from the last payload before the end, or there is an error: also when a section is missing, cut
  short or repeated, when there is no key, when some names are encrypted and others are not.

Three things the code does and no property rules out. `base << attempt` (`servers.go:117`) passes the
largest integer when `Retries` is 36 or more with the default base, and from then on no time passes
between sweeps: `WaitBefore` wraps as the code does, and no caller sets `Retries`. `FetchManifest`
does not compare the depot and the id in the metadata with what was asked for. And an id decrypted with
a wrong key may pass the check of its padding; then there is an id, and it names nothing.

### Proofs (`Formats_proofs`, the first part)

`BytesCorrect` and `ClearCorrect`: both properties, for bytes, blocks, bodies, names and manifests of any
size, any cipher and any compressions. They rest on two facts about `steamcrypto` with no state in them.
`RoundTrip`: what `SymmetricEncrypt` makes of any bytes under any key and IV is decrypted to them.
`OnlyEncrypted`: nothing else is decrypted at all; what `SymmetricDecrypt` accepts, it accepts because it
is the encryption of what it returns. The second is what a chunk cannot be tested for, and what says
that a name decrypts to the one name Steam could have encrypted.

The lemmas below them go up from bytes to containers: where byte `k` of joined blocks is (`Place`,
`JoinedBlocks`), that blocks joined and cut again are the same, that a padding is there and is taken
off, that two xors with the same block cancel out, that the chain of CBC is defined (`ChainedIs`). A
definition by recursion over places, such as `Chained` and `Reading`, has a value by the lemma
`Recursion`: were there a number of steps for which no function does what it should, there would be a
least, and one step more than the number before it. So induction over data is done here, where no
theorem with an operator parameter can be used: by the least counterexample, a set of naturals.
`ReadWell` and `LastIs` say what `ReadSections` keeps of any number of sections; `ContentInv`, that a
chunk, an id and a manifest are what the body last sent decodes to (`ChunkWell`, `IdWell`,
`ManifestWell`), so that it and the lemmas together are the properties.

The assumptions are about what is external. `CryptoAssumption`: a key permutes blocks, a byte xored
twice is itself, a padding fits in a byte. `BodiesAssumption`: bodies are bytes, and the length of a chunk
fits in its footer. `ManifestsAssumption`: manifests are finite lists of sections with finite lists of
files, and `file.clear` is what was encrypted to `file.name` (`IsClear`): it binds `clear` only for what
is an encryption, so any other bytes may still be sent. TLC evaluates all three for `MCReaders`.

## 9. Vdf

### Correspondence

A tree is the list of its nodes in document order with their depths; an action is one turn of the
loop that reads children (`pair` in `vdf.go`, `node` in `binary.go`), so the recursion of the parsers is
`depth`. `Token`, `Quoted`, `Plain`, `SkipSpace` are the functions of the text parser, on characters;
`Cstring`, `Take`, `Unsigned`, `Signed` those of the binary one, on bytes, with `Half` and `Full` bytes in
a number for the code's 4 and 8; `Numbers(width)` is how many numbers so many bytes hold. Recursive
functions from positions stand for its loops: `Skipping` for `skipSpace`, `Quoting` for a string in
quotes.

### Properties

`ReadsBack` starts from a listing, writes it as Steam does (with any spaces and comments between tokens,
with quotes, braces and newlines in values; with each kind of number and either end tag), and says the
parser gives it back: nodes, depths, and signs. `Accounted` starts from any text and a second reading
of it, one character at a time (`Scan`): what is accepted is accepted whole, each brace and each token
of it is in the tree, and what ends in the middle of a block, a string or an escape is refused. It also
says that each node takes at least a character, so a parser ends.

Two leniencies are modelled as they are: a binary document may end where a block could, without an end
tag, and whatever follows its end tag is not looked at.

### Proofs (`Formats_proofs`, the second part)

All three, for documents of any length, nested as deep as they like, and for any `Half` and `Full`.
`VdfAssumption` says that a text is a sequence of characters, bytes are below 256, a string in a binary
document holds no zero, and a listing is a well nested list of nodes; no width, alphabet or length is
assumed. The parser's functions go from a position to a later one, so induction is from the end of the
document (`DownTo`), and `Backwards` gives such a recursion its value.

*`VdfTypeCorrect`, `AccountedCorrect`*. `Tree` says that the nodes read are well nested, and how many
blocks of them are open; `Counted` that the second reading, up to where the parser is, is outside every
string and comment, has seen no stray brace, and has found as many braces and tokens as the nodes have
(`ReadyAt`, `SameCount`). A step is right because the functions of the parser and the counter agree over
the part of the text that was read: `SkipWell` (spaces and comments count for nothing), `PlainWell`
and `QuotedWell` (a token counts for one token, whatever is quoted or escaped in it), `BraceWell`.

*`ReadsBackCorrect`*. `ReadsBack` itself says nothing of a parser on its way; `BackInv` does. It is that
`src` is what Steam wrote of a listing, for one of the layouts (`TextBack`) or tags (`ByteBack`); that
the nodes read are the first `m` of it (`Begun`), with `d` of the blocks that end after them already
closed; and where the parser is. `at[k]` is where the writing of the first `k` nodes ends (`Places`), and
the parser is at `at[m]` plus the `d` ends of blocks it has read: exactly so in bytes, but for spaces
and a comment still to be skipped in a text (`Near`). From that, what comes next in `src` is known
(`TextStands`, `ByteStands`), and so is what the parser's functions make of it: `ReadsQuoted` (a string in
quotes is read as the string it was written from, by induction over its characters, one or two places
each), `SkipsSpaces`, `CstringReads`, `ValueReads`. So only one action can be taken, `TextBad` and
`BinaryBad` cannot, and the next node is the one Steam meant (`TextOpens`, `ByteOpens`, `TextCloses`).

Numbers are the one place with arithmetic: `UnsignedIs` says that the digits to base 256 of a number,
added up from the last, are the number, and `SignedIs` that the sign of what does not fit in half of the
range is restored, for any number of bytes. `\div` and `%` by a constant that is not a literal are
beyond the provers, so `Over`, `Digit` and `Rest` name quotient, digit and remainder, and the lemmas
about them say what is used.

## 10. AppInfo

### Correspondence

`command` is `apps` (`Licenses`, `Packages`, `Names`) or a command that fetches one app (`Fetch`, then
`PrivateBeta` any number of times, as `UnlockBranch` does). An answer is a sequence of items, and a call
of the handler that `RequestMulti` is given is any number of `Item` (a turn of its loop over
what the packet holds) and a `PacketEnds`, which says whether more packets are pending; they are as long
as items are `due`, and may be longer. `Keeps`, `Fatal` and `Used` say for each request what the
handler keeps, what ends it, and what is done when it is over. `Fetch` and `Packages` keep items (`got`);
`Names` fills a map by app id, `names`, in which a later item of an app replaces an earlier one (`Named`;
`licenses.go:178`). `InlineBody` and `RemoteBody` are the
tail of `Fetch` (`fetchOverHTTP` serves anything). A section is the list of its entries, where each child of
`branches` is an entry, and a body is named for what reading it gives. `MergeEntry` is a turn of the
loop in `mergeDepots` and `MergeEnds` its sorting. `sort.Slice` is not stable, so `ById` is the set of
the results it may have. `IdOf` is `parseUint32`, which wraps.

### Properties

* `AnswerWhole`: what a request gives is what Steam sent, however it was cut into packets: the last
  info on the app that is wanted, every package by id, the last name of every app that has one; and
  it fails if any of it cannot be used.
* `AppAsSent`: an app has what all sections merged into it say, in whatever order and however often:
  each branch and depot once, sorted, with all its manifests, and nothing that the public section
  says is changed by a private one.

One thing the code does and no property rules out: a depot key of 2^32 or more is taken for that of
another depot (`appinfo.go:330`); `AppAsSent` takes keys for the ids they are read as.

### Proofs (`AppInfo_proofs`)

All three properties, for any answers of any length, packets, sections and keys. What a loop over a
list does is here what steps of the module do, one for each item or entry, so that an invariant about
the part behind and the part ahead replaces the induction no prover could do.

`AnswerWholeCorrect` rests on `Kept`. `Cut` says that what is `due` is the end of what was sent;
`InfoKept`, `PackagesKept` and `NamesKept` what the handler has kept of the part before: the last
info on the app and that no item said it is unknown, each package in its place, and of each app
named before the last name. At the end nothing is due, and the part before is all. A sorted list has
the packages of the unsorted one because `ById` permutes it.

`AppAsSentCorrect` rests on `AsMerged`: there is a set `M` of entries such that the app is right for
them (`Right(M)`), and `M` with what is left of the section is all that was sent. `BranchesRight`
and `DepotsRight` say that of each part of the app: each branch and depot of `M` once, under the ids of `M`
only, with the union of what entries of `M` say of its manifests; and, because the app's own section
always comes first, whatever that says of a branch or a name stays. The lemmas take one entry at a
time (a branch that is new or known; a depot that is new or known; anything else), and `SortedRight`
the sorting, which of depots with distinct ids has one result.

The assumptions are about Steam. `AnswersAssumption` and `SectionsAssumption` say that answers and
sections are finite lists, that a body which is inline and can be read has a section, and that keys of
depots are numbers. `AgreementAssumption` says that Steam does not contradict itself: the app's own
section names no branch twice, and all sections say the same of a manifest they both name. The code
makes no choice there that a property could be about: of two values the one that came later stays. The
entries `MCReaders` gives satisfy all three, also where a depot, a branch or a manifest is repeated.

## 11. Prune

### Correspondence

`Generate` is `generate.sh`, which removes the generated files first (`Removed`). `Visit` is a call of
`visit` in `closure`, in any order, which covers the order of recursion; `Emit` adds one type in `pruneFile`
and its recursion, a nested type after the message it is in; `FileDone`, `RunPlugin`, `WriteOut` and
`Report` are the rest of `main`. `Fails` is `log.Fatal`. `outDir` is what survives a run.

### Property and proof

`ExactlyNeeded`, when a run is done: what the allowlist names is in the Go file of its proto file, with
every type its fields are of or it is nested in; the import lists name the files the fields need, all
of which are generated; and nothing is there that could be left out, of an earlier run either.

`PruneTypeCorrect` and `ExactlyNeededCorrect` (in `Output_proofs`) prove it for any descriptor set
and any sequence of allowlists, from `DescriptorsAssumption` (what protoc guarantees: a nested type
is in the file of its message) and `NestingAssumption` (nesting is well-founded). That nothing
superfluous is kept is `LeastInv`: everything visited, and everything about to be, is in every set
of types that has the allowlist and all its members need. That nothing is missing is `RunInv`: while
it visits, what the types kept need is kept or about to be visited; a file that is done has all of
its types, because one that is missing would be nested in another that is, and so on for ever (lemma
`NothingKept`); and `deps` and `outDir` are those of the types emitted.

## 12. Web

### Correspondence

`Page` is `cmdPage` up to the loop over assets: the art of the app's info (`Assets`, `Localized`) and of
its store page (`Pages`, with the tolerant decoders `LooseInt`, `Requirements`, `Best`). `SkipLabel` to
`RenameArt` are a turn of that loop with `store.Download` in it: `GetAnswered` is up to `os.Create`,
`CopyBreaks` and `SaveArtFails` its error paths, of which only the first removes the `.part`. `CutJSON` and
`WriteJSON` are `os.WriteFile` of `page.json`, `KillPage` a kill anywhere. `PartnerApps` and `Builds` are
`partner`, whose ids are strings: one that is no number counts as 0, one too large as the largest
(`Parse`); where this makes two keys one, Go's map order decides which value stays.

### Property

`FilesWhole`: files of the directory are whole, after any kills and broken downloads; the ones listed
are one per label and hold what was served in this run; a `page.json` that can be read names files
that are there.

`page.json` itself is rewritten in place (`main.go:541`), so a kill can leave it cut, in the model
too; and `.part` files stay behind. Neither is a promise of the code.

### Proofs (`Output_proofs`)

`FilesWholeCorrect` is for any art, answers and paths, from `WebAssumption`: the labels of an app's art
(fields of `Assets`) are told apart from each other and from those of its page. The invariant `WebInv`:
a label that is still to be got is not listed and comes once (`Due`, from lemmas on how the list of
art is put together); the name that is downloaded begins with its label (`UnderWay`), so renaming it
replaces no file that is listed for another (`Listed`); no step removes a file, so what any
`page.json` names stays (`Saved`).

## 13. The run `readers`

`MCReaders` runs `Cdn` and the five modules above, which share no state: each behaviour runs one part (the
variable `part`), while the others rest in a state in which they are finished. So a violation in any part
is one of the run, and a mutant of one part is seen by the property of that part. The only fairness in
`PartsSpec` is that of `Cdn`. Deadlock is not checked: every part ends.

| part | bounds | why they are enough |
|---|---|---|
| `cdn` | 2 requests, 3 servers of any kinds, 1 retry, counter modulo 4 | section 5 |
| `vdf` | all texts of up to 4 characters of 9, all byte strings of up to 4 of 8 bytes; listings of up to 2 nodes, in 3 styles of text, with 3 number tags, 2 end tags | 4 characters hold a key and a block, a string with an escape, a comment; two nodes are siblings or a block and its child |
| `appinfo` | answers of up to 3 items in any packets, names of 2 apps, one of them twice; 2 bodies of the app; 2 private sections, merged in any order | an item kept, one passed over, one replaced and one that fails; sections that add to a depot, to a branch with another spelling, and a depot twice in one |
| `content` | 3 chunks, 3 compressed forms, 2 keys, 2 IVs, each body also with any one byte altered, all bodies of up to 4 bytes that are whole blocks; manifests of up to 3 sections; ids of up to 4 bytes; 1 more sweep | one block and two; padding that is right, wrong, whole and absent; payload, metadata and one more in any order |
| `prune` | 5 types in 3 files with a cycle, two levels of nesting and an import chain; any allowlist, again and again | a run finds what any other left |
| `web` | 2 commands, 2 pictures, two paths with one base name | a command that finds what another left, also a dead one |

## 14. Only model-checked

Liveness (`RunEnds`, `AnswerWakes`, `EndsAfterFail`, `RequestEnds`) is out of the prover's reach, as is
anything with `ENABLED`. `PartsTypeOK` is the conjunction of the types of the parts `readers` runs: those
of `Cdn`, `Vdf`, `AppInfo` and `Prune` are theorems of those parts; those of `Content` and `Web` are only
checked, the one because `WaitBefore` has a power in it (and a bound that fails for `Retries` the code
does not rule out, section 8), the other because it says that `sort.Slice` sorts. Induction over data is
proved where it could be put as a least counterexample (sections 8 and 9); `Adler`, a fold, is never
unfolded, as equal chunks have equal sums whatever it computes.

What is proved under `Retried` (all of the depot but the types and `RewrittenRight`) is checked under it,
too, with `MovedAtOnce`. The other alternative, `NoneKilled`, has no run of its own: `MCEmpty` with
`CrashAt` {"stale", "save"}, no failing save and every move free to fail passes the properties it is proved for.
An installation given up for another is the subject of the violated runs and of `RewrittenRight` alone.

## 15. Not modelled

* Of the depot: directories, symlinks, modes and progress counters; two processes on one
  directory; power loss (completed writes and renames survive a crash); a torn write of
  a chunk (its bytes are not trusted until it is recorded, so it is like none); a
  corrupt record, which reads like a missing one; a caller-supplied `Previous`; a nil
  `Store`.
* Of the CM client: dialing, the directory request, framing and gzip, and the ids sent
  with each packet. A reply that comes after its call gave up is stashed like a packet
  nobody asked for (`Stash`); nothing that is waited for in the stash is ever a reply, so
  no property is about it.
* Of the session: keys given to `Open` by its caller, `DepotKeys`, the connection under it
  (each request may fail instead).
* Of the login: the encryption of the password, the polling interval, a nil `Guard`, and
  the commands that only read the credentials.
* Of the CDN client: the three compressions (external) and what a manifest says beside the names of
  its files, which is copied.
* Of appinfo and the web clients: fields that are only copied, and `HasApp`. Of vdf: the accessors,
  which `AppInfo` uses as what they return. Of the pruner: options, comments and services, which are
  dropped.
* Of the command line: flags, printing, and the commands that read a manifest and print it.
* Generated protobuf code (`src/pb`): fields and accessors, no behaviour of the program's own. It is
  half of the lines of the repository, so the share of lines that are modelled is small beside the
  share of what is written by hand.
