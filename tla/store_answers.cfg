SPECIFICATION Spec
CONSTANTS
  i1 = i1
  i2 = i2
  i3 = i3
  k1 = k1
  k2 = k2
  p1 = p1
  p2 = p2
  s1 = s1
  s2 = s2
  o1 = o1
  h1 = h1
  a1 = a1
  m1 = m1
  m2 = m2
  allow = allow
  deny = deny
  why = why
  up = up
  delivered = delivered
  held = held
  r1 = r1
  r2 = r2
  None = None
  NoItem = NoItem
  Ids = {i1}
  Keys = {k1, k2}
  Payloads = {p1}
  SessionRefs = {}
  OwnerRefs = {}
  HeartbeatRefs = {h1}
  Arms = {a1}
  Resolvers = {m1, m2}
  Decisions = {allow, deny}
  Reasons = {why}
  Ratings = {}
  MaxTime = 1
  Requests <- AnswerRequests
  Outcomes = {}
  Readers = {r1}
  Droppable = {}
  Outages = FALSE
  MaxAge = 0
  MaxFaults = 0
CHECK_DEADLOCK FALSE
PROPERTIES
  FirstAnswerStands
  EscalationSticks
  LifecycleSpec
