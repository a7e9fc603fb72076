\* Two task files, one edit of them, one render beside the loop.
SPECIFICATION Spec
CONSTANTS
  Paths = {1, 2}
  NoFile = NoFile
  Bodies <- SomeBodies
  Rungs <- SomeRungs
  FirstRungs <- RungsBefore
  Sessions = {"sa"}
  Renders = {render}
  Loop = loop
  MaxEdits = 1
  MaxHidden = 1
  MaxRungs = 1
  MaxFailures = 0
PROPERTY UpdateSurvivesInstall
CHECK_DEADLOCK FALSE
