SPECIFICATION Spec
CONSTANTS
  A = A
  B = B
  C = C
  f1 = f1
  f2 = f2
  f3 = f3
  c1 = c1
  c2 = c2
  c3 = c3
  c4 = c4
  Builds = {A, B, C}
  Files = {f1, f2}
  Chunks = {c1, c2, c4}
  Manifest <- MCBack
  NoBuild = NoBuild
  NoFile = NoFile
  Absent = Absent
  Zero = Zero
  Concurrency = 2
  Leftovers <- Nothing
  MaxRuns = 3
  CrashAt = {"stale", "save"}
  MoveCanFail = {f1, f2}
  SaveCanFail = FALSE
  MaySwitch = TRUE
  MayTamper = TRUE
  MayForget = FALSE
INVARIANTS
  RewrittenRight
CHECK_DEADLOCK FALSE
