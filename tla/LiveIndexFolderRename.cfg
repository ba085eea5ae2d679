SPECIFICATION UnkindSpec
CONSTANTS
  a = a
  b = b
  x = x
  Absent = Absent
  Directory = Directory
  Names <- MCNames
  Paths <- MCMovePaths
  Stats = {s1}
  Hazards <- MCFolderRename
  MaxOps = 2
INVARIANT NoSilentDivergence
CHECK_DEADLOCK FALSE
