SPECIFICATION SyncFairSpec
CONSTANTS
  a = a
  b = b
  x = x
  Absent = Absent
  Directory = Directory
  Names <- MCNames
  Paths <- MCNestedPaths
  Stats = {s1}
  Hazards <- MCNoHazards
  MaxOps = 3
  Clients = {c1}
  Capacity = 2
PROPERTIES
  CatchesUp
  SessionsCatchUp
CHECK_DEADLOCK FALSE
