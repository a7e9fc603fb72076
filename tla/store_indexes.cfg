SPECIFICATION Spec
CONSTANTS
  i1 = i1
  i2 = i2
  i3 = i3
  k1 = k1
  k2 = k2
  p1 = p1
  p2 = p2
  s1 = s1
  s2 = s2
  o1 = o1
  h1 = h1
  a1 = a1
  m1 = m1
  m2 = m2
  allow = allow
  deny = deny
  why = why
  up = up
  delivered = delivered
  held = held
  r1 = r1
  r2 = r2
  None = None
  NoItem = NoItem
  Ids = {i1, i2}
  Keys = {k1}
  Payloads = {p1}
  SessionRefs = {}
  OwnerRefs = {}
  HeartbeatRefs = {h1}
  Arms = {}
  Resolvers = {}
  Decisions = {}
  Reasons = {}
  Ratings = {}
  MaxTime = 1
  Requests <- IndexRequests
  Outcomes = {delivered}
  Readers = {r1}
  Droppable = {"live", "open", "history", "dedup"}
  Outages = FALSE
  MaxAge = 0
  MaxFaults = 1
SYMMETRY IdSymmetry
CHECK_DEADLOCK FALSE
INVARIANTS
  IndexesExact
  DedupSound
  AttemptsJoin
