SPECIFICATION FairSpec
CONSTANTS
  i1 = i1
  i2 = i2
  i3 = i3
  k1 = k1
  k2 = k2
  p1 = p1
  p2 = p2
  s1 = s1
  s2 = s2
  o1 = o1
  h1 = h1
  a1 = a1
  m1 = m1
  m2 = m2
  allow = allow
  deny = deny
  why = why
  up = up
  delivered = delivered
  held = held
  r1 = r1
  r2 = r2
  None = None
  NoItem = NoItem
  Ids = {i1, i2}
  Keys = {k1}
  Payloads = {p1, p2}
  SessionRefs = {}
  OwnerRefs = {o1}
  HeartbeatRefs = {}
  Arms = {}
  Resolvers = {}
  Decisions = {}
  Reasons = {}
  Ratings = {up}
  MaxTime = 2
  Requests <- SweepRequests
  Outcomes = {}
  Readers = {}
  Droppable = {}
  Outages = FALSE
  MaxAge = 0
  MaxFaults = 1
CHECK_DEADLOCK FALSE
PROPERTIES
  SweepClosesOnlyDue
  ReraisesSettle
  AnsweredLeaves
