\* One ask at either host, calls on it from both boards, one fault.
SPECIFICATION Spec
CONSTANTS
  i1 = i1
  arm = arm
  sa = sa
  sb = sb
  allow = allow
  up = up
  Gates = {TRUE, FALSE}
  Sessions = {sa, sb}
  Arms = {arm}
  Decisions = {allow}
  Ratings = {up}
  None = None
  NoRow = NoRow
  NoReader = NoReader
  Ids = {i1}
  Ops <- CallOps
  Callers = {c1}
  Readers = {r1}
  Window = 0
  Timeout = 0
  MaxFaults = 1
INVARIANTS
  ToldTheTruth
  RefusalKeepsItsName
PROPERTY OneLife
CHECK_DEADLOCK FALSE
