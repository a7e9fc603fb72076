\* One session, two posters, one restart or fault of any kind.
SPECIFICATION FairSpec
CONSTANTS
  Sessions = {sa}
  NoSession = NoSession
  Posters = {p1, p2}
  Declarations <- SomeDeclarations
  ForeignStamps = {0, 3}
  PerSecond = 2
  Window = 1
  Retention = 1
  MaxClock = 3
  MaxPosts = 2
  MaxForeign = 1
  MaxFailures = 1
INVARIANTS
  LagHasCause
  ViewsAgree
PROPERTY SnapshotConverges
CHECK_DEADLOCK FALSE
