\* Two streams, one row, two changes, one failed render or restart.
SPECIFICATION FairSpec
CONSTANTS
  Streams = {s1, s2}
  Rows = {r1}
  MaxWrites = 2
  MaxFailures = 1
  NoSnapshot = NoSnapshot
  Nobody = Nobody
INVARIANTS CurrentCovers RendersOncePerChange NobodyWaitsForNothing
PROPERTIES ShownAdvances ChangesReachStreams
CHECK_DEADLOCK FALSE
