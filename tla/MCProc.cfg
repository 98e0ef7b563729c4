\* Four slots (task 0, init, the shell and one more), pids up to 4; kill
\* sends SIGHUP.  Safety and liveness in one run.
CONSTANTS
  NR_TASKS = 4
  PID_MAX = 4
  KillSigs = {1}
SPECIFICATION Spec
CHECK_DEADLOCK FALSE
INVARIANTS TypeOK PidUnique FatherValid
PROPERTIES OrphanReaped WaitReturns
