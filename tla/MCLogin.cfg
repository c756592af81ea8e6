SPECIFICATION Spec
CONSTANTS
  p = p
  q = q
  a = a
  b = b
  k = k
  Processes = {p, q}
  Accounts = {a, b}
  Keys = {k}
  Offers <- MCOffers
  MaxCommands = 3
  MaxRotations = 2
  None = None
  Empty = Empty
  Torn = Torn
INVARIANTS
  TypeOK
  GuardedRight
  InStep
  OfOneLogin
  NothingLost
SYMMETRY Alike
CHECK_DEADLOCK FALSE
