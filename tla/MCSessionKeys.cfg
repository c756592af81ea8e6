SPECIFICATION Spec
CONSTANTS
  s1 = s1
  s2 = s2
  a = a
  b = b
  d1 = d1
  d2 = d2
  public = public
  locked = locked
  hidden = hidden
  p = p
  q = q
  Callers = {a, b}
  Depots = {d1, d2}
  Branches = {public, locked, hidden}
  Passwords = {p, q}
  NoPassword = NoPassword
  PasswordOf <- MCPasswordOf
  Listed <- MCListed
  Encrypted <- MCEncrypted
  Hidden = {hidden}
  Private <- MCPrivate
  i = i
  j = j
  k = k
  Inodes = {i, j, k}
  None = None
  Empty = Empty
  Garbled = Garbled
  Sessions = {s1}
  Of <- OneProcess
  Asked <- PublicOnly
  MaxCalls = 1
  MaxOpens = 1
  MaySaveFail = FALSE
INVARIANTS
  LearnedIsSaved
SYMMETRY Alike
CHECK_DEADLOCK FALSE
