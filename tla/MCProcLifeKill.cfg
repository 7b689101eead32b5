CONSTANTS
  NPROC = 3
  MAXPID = 4
SPECIFICATION Spec
INVARIANT KillsTheGivenPid
CHECK_DEADLOCK FALSE
