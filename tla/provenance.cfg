\* Two cold starts and one refresh behind a request; one change of the host, one
\* fault; a log of two lines, replaced or removed once.
SPECIFICATION FairSpec
CONSTANTS
  Callers = {c1, c2}
  Background = {b1}
  Nobody = Nobody
  Titles = {"own", "other", "untitled"}
  Names = {"named", "none"}
  Bare = bare
  Records = {bare, rich}
  NoRecord = NoRecord
  Window = 1
  MaxChanges = 1
  MaxFaults = 1
  MaxLines = 2
  MaxReplaced = 1
INVARIANTS SingleFlight ClaimsProven EventsExact
PROPERTIES HostConverges EventsConverge
CHECK_DEADLOCK FALSE
