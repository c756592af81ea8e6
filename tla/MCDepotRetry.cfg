SPECIFICATION FairSpec
CONSTANTS
  A = A
  B = B
  C = C
  f1 = f1
  f2 = f2
  f3 = f3
  c1 = c1
  c2 = c2
  c3 = c3
  c4 = c4
  Builds = {A, B}
  Files = {f1, f2, f3}
  Chunks = {c1, c2, c3, c4}
  Manifest <- MCManifest
  NoBuild = NoBuild
  NoFile = NoFile
  Absent = Absent
  Zero = Zero
  Concurrency = 1
  Leftovers <- Nothing
  MaxRuns = 3
  CrashAt = {"stale", "prepare", "create", "classify", "work", "stopping", "lastFlush"}
  MoveCanFail = {f2, f3}
  SaveCanFail = TRUE
  MaySwitch = FALSE
  MayTamper = FALSE
  MayForget = TRUE
INVARIANTS
  TypeOK
  Materialized
  OnlyMissingFetched
  JournalTruth
  NoJournalAfterSuccess
PROPERTIES
  RunEnds
  ProgressKept
  InstallsBuilds
CHECK_DEADLOCK FALSE
