SPECIFICATION SyncSpec
CONSTANTS
  a = a
  b = b
  x = x
  Absent = Absent
  Directory = Directory
  Names <- MCNames
  Paths <- MCMovePaths
  Stats = {s1}
  Hazards <- MCTellable
  MaxOps = 2
  Clients = {c1}
  Capacity = 2
SYMMETRY MCSymmetry
INVARIANTS
  SyncTypeOK
  MirrorFollowsIndex
  EventsTellTheBatch
CHECK_DEADLOCK FALSE
