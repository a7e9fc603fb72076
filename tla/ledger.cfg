SPECIFICATION Spec
CONSTANTS
  sa = sa
  sb = sb
  v1 = v1
  v2 = v2
  Sessions = {sa, sb}
  Values = {v1, v2}
  Absent = Absent
  NoRow = NoRow
  NoList = NoList
  NoCall = NoCall
  Posts <- SpawnPosts
  Patches <- SpawnPatches
  Imports <- SpawnImports
  Writers = {w1, w2}
  Readers = {r1}
  MaxWrites = 3
  MaxFailures = 1
INVARIANTS
  RowsStayValid
  ReturnedWritesListed
PROPERTIES
  OwnersFieldsKept
CHECK_DEADLOCK FALSE
