\* Two task files, one edit of them and one of the rungs, one fault, one render
\* beside the loop.
SPECIFICATION FairSpec
CONSTANTS
  Paths = {1, 2}
  NoFile = NoFile
  Bodies <- SomeBodies
  Rungs <- SomeRungs
  FirstRungs <- RungsBefore
  Sessions = {"sa"}
  Renders = {render}
  Loop = loop
  MaxEdits = 1
  MaxHidden = 1
  MaxRungs = 1
  MaxFailures = 1
INVARIANTS
  TypeOK
  WinnersExact
  RungsApplied
  StampVouches
  OneWalk
PROPERTIES
  InstallKeepsListed
  IndexConverges
  TokenReturns
CHECK_DEADLOCK FALSE
