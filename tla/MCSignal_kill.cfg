\* One task that may give sigaction a mask holding SIGKILL.
CONSTANTS
  Sigs <- MCSigs
  MaskChoices <- MCKillMasks
  MAX_FRAMES = 1
SPECIFICATION Spec
CHECK_DEADLOCK FALSE
INVARIANT KillNeverBlocked
