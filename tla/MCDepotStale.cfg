SPECIFICATION Spec
CONSTANTS
  A = A
  B = B
  C = C
  f1 = f1
  f2 = f2
  f3 = f3
  c1 = c1
  c2 = c2
  c3 = c3
  c4 = c4
  Builds = {A, B, C}
  Files = {f1, f2, f3}
  Chunks = {c1, c2, c3, c4}
  Manifest <- MCThreeBuilds
  NoBuild = NoBuild
  NoFile = NoFile
  Absent = Absent
  Zero = Zero
  Concurrency = 1
  Leftovers <- Nothing
  MaxRuns = 3
  CrashAt = {}
  MoveCanFail = {}
  SaveCanFail = FALSE
  MaySwitch = TRUE
  MayTamper = FALSE
  MayForget = FALSE
INVARIANTS
  NoStaleFile
CHECK_DEADLOCK FALSE
