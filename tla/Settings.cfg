SPECIFICATION Spec
CONSTANTS
  None = None
  Truncated = Truncated
  Garbled = Garbled
  Requests = {r1, r2}
  Bodies <- MCBodies
  Environments <- MCEnvironments
  Faults = TRUE
  MaxRestarts = 1
SYMMETRY MCSymmetry
INVARIANTS
  TypeOK
  EffectiveSettingsAreValid
  EnvOnlyKeysFollowEnv
  ReloadGivesTheSame
CHECK_DEADLOCK FALSE
