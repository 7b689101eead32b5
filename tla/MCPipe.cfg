CONSTANTS
  Reader = {r1, r2}
  Writer = {w1}
  Byte = {0, 1}
  PIPESIZE = 2
  WORD = 4
  MAXN = 3
SPECIFICATION Spec
INVARIANTS TypeOK NoLostWakeup NoUseAfterFree PipeFreed
PROPERTY FifoSpec
CHECK_DEADLOCK FALSE
