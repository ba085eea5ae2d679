SPECIFICATION Spec
CONSTANTS
  a = a
  b = b
  x = x
  Absent = Absent
  Directory = Directory
  Names <- MCNames
  Paths <- MCPaths
  Stats = {s1}
  Hazards <- MCSlowWalk
  MaxOps = 2
INVARIANT NoSilentDivergence
CHECK_DEADLOCK FALSE
