CONSTANTS
  NPROC = 3
  NCPU = 2
  MAXSLEEP = 1
  Calls = {"acquiresleep"}
SPECIFICATION Spec
INVARIANTS TypeOK OneCpu SchedAsserts IntrOff SleepMutex NoLostWakeup
