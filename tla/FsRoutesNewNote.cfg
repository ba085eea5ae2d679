SPECIFICATION Spec
CONSTANTS
  None = None
  Ids <- MCIds
  Top = "top"
  Components = {"v", "w", "a", "b"}
  Requests = {r1, r2}
  Queries <- MCQueries
  Starts <- MCStarts
  Vault = "v"
  Other = "w"
  Zero = "zero"
  Binary = {"bin"}
  BatchLimit = 3
  Faults = TRUE
SYMMETRY MCSymmetry
INVARIANT WritesAreDurable
CHECK_DEADLOCK FALSE
