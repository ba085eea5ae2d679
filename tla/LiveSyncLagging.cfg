SPECIFICATION SyncSpec
CONSTANTS
  a = a
  b = b
  x = x
  Absent = Absent
  Directory = Directory
  Names <- MCNames
  Paths <- MCPaths
  Stats = {s1}
  Hazards <- MCNoHazards
  MaxOps = 3
  Clients = {c1}
  Capacity = 1
INVARIANT LaggingClientRecovers
CHECK_DEADLOCK FALSE
