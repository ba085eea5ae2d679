SPECIFICATION Spec
CONSTANTS
  None = None
  Obsidian = Obsidian
  Names = {v1, v2, dot}
  ValidNames = {v1, v2}
  Requests = {r1, r2, r3}
  Faults = TRUE
  MaxRestarts = 1
SYMMETRY MCSymmetry
INVARIANTS
  TypeOK
  RegistryServesDisk
  AckedNotesAreServed
  AckedNotesStayOnDisk
  VaultRootIsThere
CHECK_DEADLOCK FALSE
