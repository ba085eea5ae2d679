SPECIFICATION Spec
CONSTANTS
  a = a
  b = b
  x = x
  Absent = Absent
  Directory = Directory
  Names <- MCNames
  Paths <- MCDeepPaths
  Stats = {s1, s2}
  Hazards <- MCNoHazards
  MaxOps = 4
INVARIANTS
  TypeOK
  Coverage
  NoSilentDivergence
PROPERTY UntouchedEntriesStay
CHECK_DEADLOCK FALSE
