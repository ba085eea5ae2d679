SPECIFICATION Spec
CONSTANTS
  None = None
  Torn = Torn
  Vaults = {v1, v2}
  Remotes = {m1}
  Tokens = {t1}
  Requests = {r1, r2}
  Clients = {c1}
  Capacity = 2
  MaxRestarts = 1
SYMMETRY MCSymmetry
INVARIANTS
  TypeOK
  FilesFollowMemory
  AckedSetupsSurvive
  ShownStatusIsCurrent
CHECK_DEADLOCK FALSE
