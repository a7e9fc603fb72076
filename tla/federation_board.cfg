\* Two asks, two readers of the local board, one outage; one ask is answered or
\* closed at the peer, the other leaves with its asker.
SPECIFICATION FairSpec
CONSTANTS
  i1 = i1
  arm = arm
  sa = sa
  sb = sb
  allow = allow
  up = up
  Gates = {FALSE}
  Sessions = {sa, sb}
  Arms = {arm}
  Decisions = {allow}
  Ratings = {up}
  None = None
  NoRow = NoRow
  NoReader = NoReader
  Ids = {i1, i2}
  Ops <- BoardOps
  Callers = {}
  Readers = {r1, r2}
  Window = 1
  Timeout = 1
  MaxFaults = 1
PROPERTIES
  BoardWithinHorizon
  BoardConverges
CHECK_DEADLOCK FALSE
