\* One task; SIGHUP, SIGKILL, SIGCHLD; handlers nested two deep.
CONSTANTS
  Sigs <- MCSigs
  MaskChoices <- MCMasks
  MAX_FRAMES = 2
SPECIFICATION Spec
CHECK_DEADLOCK FALSE
INVARIANTS TypeOK NoReentry
