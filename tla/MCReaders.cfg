SPECIFICATION PartsSpec
CONSTANTS
  r1 = r1
  r2 = r2
  Requests = {r1, r2}
  N = 3
  Retries = 1
  WordSize = 4
  Kinds = {"good", "corrupt", "flaky", "hangs", "missing"}
  RawTexts <- MCRawTexts
  RawBytes <- MCRawBytes
  TextListings <- MCTextListings
  BinaryListings <- MCBinaryListings
  Half = 1
  Full = 2
  Wanted = 1
  AppAnswers <- MCAppAnswers
  PackageAnswers <- MCPackageAnswers
  NameAnswers <- MCNameAnswers
  Public <- MCPublic
  Private <- MCPrivate
  Lower <- MCLower
  WordOfId = 8
  ByteMax = 3
  BlockLen = 2
  Xor <- MCXor
  Decrypt <- MCDecrypt
  DepotKey = "right"
  NoKey = "none"
  Inflate <- MCInflate
  ServerLists <- MCServerLists
  Chunks <- MCChunks
  Bodies <- MCBodies
  Manifests <- MCManifests
  Ids <- MCIds
  ExtraSweeps = 1
  Backoff = 1
  Signed64 = 64
  msg = msg
  inner = inner
  enum = enum
  other = other
  user = user
  stray = stray
  fileA = fileA
  fileB = fileB
  fileC = fileC
  NoType = NoType
  Types = {msg, inner, enum, other, user}
  Files = {fileA, fileB, fileC}
  FileOf <- MCFileOf
  Parent <- MCParent
  Refs <- MCRefs
  Allowlists <- MCAllowlists
  Commons <- MCCommons
  StoreAnswers <- MCStoreAnswers
  Base <- MCBase
  Dotted = {"g.jpg", "e.jpg", "old/e.jpg"}
  Versions = {1, 2}
  AppLists <- MCAppLists
  BuildLists <- MCBuildLists
  MaxId = 9
  MaxGid = 50
  MaxRuns = 2
INVARIANTS
  PartsTypeOK
  BudgetSpent
  PermanentEnds
  ReadsBack
  Accounted
  AnswerWhole
  AppAsSent
  BytesAsMeant
  ManifestInClear
  ExactlyNeeded
  FilesWhole
PROPERTIES
  RequestEnds
CHECK_DEADLOCK FALSE
