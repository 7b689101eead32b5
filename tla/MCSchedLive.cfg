\* One CPU, so that a process which never yields would starve the others.
CONSTANTS
  NPROC = 3
  NCPU = 1
  MAXSLEEP = 1
  Calls = {"acquiresleep", "sys_sleep", "procdump"}
SPECIFICATION FairSpec
INVARIANT AcquireOnce NoLostWakeup
PROPERTY RunnableRuns
